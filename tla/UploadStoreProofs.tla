------------------------- MODULE UploadStoreProofs -------------------------
(***************************************************************************)
(* A file whose upload was acknowledged survives, with its index entry,    *)
(* everything else a node does, until its deletion is requested: for every *)
(* number of contents, names, workers and requests, over crashes, as long  *)
(* as no two uploads choose one path.                                      *)
(***************************************************************************)
EXTENDS UploadStore, SequenceTheorems, TLAPS

\* An upload owns its path from ChoosePath until its record is stored.
Unrecorded == {"create", "copy", "sum", "dedup", "discard", "verify", "md5"}

\* The upload that chose a path owns it, and writes its content there.
OwnPath == \A w \in Workers :
    /\ wk[w].pc # "idle" => /\ wk[w].out \in Paths /\ wk[w].path = wk[w].out
                            /\ wk[w].sent \in Contents
                            /\ orig[wk[w].out] = wk[w].sent
    /\ wk[w].pc \in Unrecorded => wk[w].out \notin recorded
    /\ wk[w].pc = "path" => wk[w].out \in recorded

OwnersDiffer == \A v, w \in Workers :
    wk[v].pc # "idle" /\ wk[w].pc # "idle" /\ wk[v].out = wk[w].out => v = w

\* What the file of an upload holds at each point.
OwnContent == \A w \in Workers :
    /\ wk[w].pc = "copy" => disk[wk[w].out] = Partial
    /\ wk[w].pc \in {"sum", "dedup", "discard", "verify", "md5"} =>
           disk[wk[w].out] = wk[w].sent
    /\ wk[w].pc \in {"dedup", "discard", "verify", "md5", "path"} =>
           wk[w].md5 = wk[w].sent

\* m and p belong together: p was recorded, with content m.
Known(m, p) == p \in recorded /\ orig[p] = m

\* Every record anybody holds is one that was stored.
KnownRecords ==
    /\ \A m \in Contents : ldb[m] # NoPath => Known(m, ldb[m])
    /\ \A p \in Paths : ldbPath[p] # NoContent => Known(ldbPath[p], p)
    /\ \A m \in Contents, p \in Paths : <<m, p>> \in posting => Known(m, p)
    /\ \A m \in Contents, p \in Paths : <<m, p>> \in acked => Known(m, p)
    /\ \A w \in Workers : wk[w].pc = "discard" => Known(wk[w].md5, wk[w].old)
    /\ \A c \in Checkers : ck[c].pc # "idle" => Known(ck[c].md5, ck[c].path)
    /\ \A r \in Removers : rm[r].pc # "idle" => Known(rm[r].md5, rm[r].path)

\* A deletion in progress is of a content whose deletion was requested; a
\* check only deletes the record of such a content.
OnlyDoomed ==
    /\ \A r \in Removers : rm[r].pc # "idle" => rm[r].md5 \in doomed
    /\ \A i \in 1 .. Len(queueFileLog) : queueFileLog[i][1] \in doomed
    /\ cl.pc # "idle" => cl.md5 \in doomed
    /\ \A c \in Checkers : ck[c].pc = "remove" => ck[c].md5 \in doomed

\* A recorded file is there, and its content is indexed, unless it is doomed.
RecordedKept == \A p \in recorded : orig[p] \in Contents /\
    (orig[p] \notin doomed => disk[p] = orig[p] /\ ldb[orig[p]] # NoPath)

Good == /\ OwnPath /\ OwnersDiffer /\ OwnContent
        /\ KnownRecords /\ OnlyDoomed /\ RecordedKept

\* What a worker or a request has computed by each point.
BusyState ==
    /\ \A w \in Workers :
         /\ wk[w].pc # "idle" => /\ wk[w].out \in Paths /\ wk[w].path \in Paths
                                 /\ wk[w].sent \in Contents
         /\ wk[w].pc \in {"dedup", "discard", "verify", "md5", "path"} =>
                wk[w].md5 \in Contents
         /\ wk[w].pc = "discard" => wk[w].old \in Paths
    /\ \A r \in Removers : rm[r].pc # "idle" => <<rm[r].md5, rm[r].path>> \in Records
    /\ \A c \in Checkers : ck[c].pc # "idle" => <<ck[c].md5, ck[c].path>> \in Records
    /\ cl.pc # "idle" => <<cl.md5, cl.path>> \in Records

IInv == TypeOK /\ BusyState /\ (~clash => Good)

USE ConstantsAssumption

-----------------------------------------------------------------------------
(* Type correctness, one lemma per component.                              *)

LEMMA InitType == Init => TypeOK
<1>. SUFFICES ASSUME Init PROVE TypeOK
  OBVIOUS
<1>1. wk \in [Workers -> WorkerState]
  BY DEF Init, WorkerState, IdleWorker
<1>2. /\ rm \in [Removers -> RequestState({"idle", "queue", "unlink"})]
      /\ ck \in [Checkers -> RequestState({"idle", "stat", "remove"})]
      /\ cl \in RequestState({"idle", "md5", "path", "log"})
  BY DEF Init, RequestState, IdleRequest
<1>3. queueFileLog \in Seq(Records) /\ Len(queueFileLog) <= MaxLog
  BY DEF Init
<1>. QED BY <1>1, <1>2, <1>3 DEF Init, TypeOK

LEMMA NoPathFact == NoPath \notin Paths
BY DEF Paths

\* A worker that goes on to its next step stays a worker state.
LEMMA WorkerStep ==
    ASSUME TypeOK, NEW w \in Workers,
           NEW t \in {"create", "copy", "sum", "dedup", "discard", "verify", "md5", "path"}
    PROVE  [wk EXCEPT ![w].pc = t] \in [Workers -> WorkerState]
<1>1. wk[w] \in WorkerState
  BY DEF TypeOK
<1>2. [wk[w] EXCEPT !.pc = t] \in WorkerState
  BY <1>1 DEF WorkerState
<1>. QED BY <1>2 DEF TypeOK

LEMMA ChoosePathIInv == ASSUME IInv, NEW w \in Workers, ChoosePath(w) PROVE IInv'
<1>. USE NoPathFact DEF store, history
<1>1. PICK m \in Contents, p \in Paths, q \in Paths :
          /\ wk' = [wk EXCEPT ![w] = [IdleWorker EXCEPT
                      !.pc = "create", !.sent = m, !.out = p, !.path = q]]
          /\ clash' = (clash \/ orig[p] # NoContent \/ q # p)
          /\ orig' = IF orig[p] = NoContent THEN [orig EXCEPT ![p] = m] ELSE orig
  <2>1. \A n \in Names, r \in ReNames, p \in Paths : RecordPath(r, p) \in Paths
    BY DEF RecordPath, Paths
  <2>. QED BY <2>1 DEF ChoosePath
<1>. DEFINE st == [IdleWorker EXCEPT
                     !.pc = "create", !.sent = m, !.out = p, !.path = q]
<1>2. st \in WorkerState
  BY DEF WorkerState, IdleWorker
<1>3. /\ st.pc = "create" /\ st.sent = m /\ st.out = p /\ st.path = q
      /\ wk' = [wk EXCEPT ![w] = st]
  BY <1>1 DEF IdleWorker
<1>. HIDE DEF st
<1>4. TypeOK'
  BY <1>1, <1>2, <1>3 DEF ChoosePath, IInv, TypeOK
<1>5. BusyState'
  BY <1>2, <1>3 DEF ChoosePath, IInv, TypeOK, BusyState
<1>6. ASSUME ~clash' PROVE Good'
  \* The path was never chosen: nobody has it and no record names it.
  <2>1. /\ ~clash /\ TypeOK /\ BusyState /\ Good
        /\ q = p /\ orig[p] = NoContent /\ orig' = [orig EXCEPT ![p] = m]
    BY <1>1, <1>6 DEF IInv
  <2>2. p \notin recorded
    BY <2>1 DEF Good, RecordedKept
  <2>3. \A v \in Workers : wk[v].pc # "idle" => wk[v].out # p
    BY <2>1 DEF Good, OwnPath
  <2>. USE DEF ChoosePath, TypeOK, Good
  <2>4. OwnPath'
    BY <1>3, <2>1, <2>2, <2>3 DEF OwnPath, Unrecorded
  <2>5. OwnersDiffer'
    BY <1>3, <2>1, <2>3 DEF OwnersDiffer
  <2>6. OwnContent'
    BY <1>3, <2>1 DEF OwnContent
  <2>7. KnownRecords'
    BY <1>3, <2>1, <2>2 DEF KnownRecords, Known
  <2>8. OnlyDoomed'
    BY <2>1 DEF OnlyDoomed
  <2>9. RecordedKept'
    BY <2>1, <2>2 DEF RecordedKept
  <2>. QED BY <2>4, <2>5, <2>6, <2>7, <2>8, <2>9
<1>. QED BY <1>4, <1>5, <1>6 DEF IInv

LEMMA CreateFileIInv == ASSUME IInv, NEW w \in Workers, CreateFile(w) PROVE IInv'
<1>. USE NoPathFact DEF CreateFile, store, history
<1>1. TypeOK'
  <2>1. wk' \in [Workers -> WorkerState]
    BY WorkerStep DEF IInv
  <2>2. /\ disk' \in [Paths -> Contents \cup {NoContent, Partial}]
        /\ ldb' \in [Contents -> Paths \cup {NoPath}]
        /\ logDB' \subseteq Contents
        /\ recorded' \subseteq Paths
    BY DEF IInv, TypeOK, BusyState
  <2>. QED BY <2>1, <2>2 DEF IInv, TypeOK
<1>2. BusyState'
  BY DEF IInv, TypeOK, BusyState, WorkerState, RequestState, Records
<1>3. ASSUME ~clash' PROVE Good'
  <2>. ~clash /\ TypeOK /\ BusyState /\ Good
    BY <1>3 DEF IInv
  <2>. USE DEF TypeOK, WorkerState, RequestState, Good
  <2>1. OwnContent'
    BY DEF OwnContent, OwnPath, OwnersDiffer, Unrecorded
  <2>2. RecordedKept'
    BY DEF RecordedKept, OwnPath, Unrecorded
  <2>3. OwnPath' /\ OwnersDiffer' /\ KnownRecords' /\ OnlyDoomed'
    BY DEF OwnPath, Unrecorded, OwnersDiffer, KnownRecords, Known, OnlyDoomed
  <2>. QED BY <2>1, <2>2, <2>3
<1>. QED BY <1>1, <1>2, <1>3 DEF IInv

LEMMA CopyFileIInv == ASSUME IInv, NEW w \in Workers, CopyFile(w) PROVE IInv'
<1>. USE NoPathFact DEF CopyFile, store, history
<1>1. TypeOK'
  <2>1. wk' \in [Workers -> WorkerState]
    BY WorkerStep DEF IInv
  <2>2. /\ disk' \in [Paths -> Contents \cup {NoContent, Partial}]
        /\ ldb' \in [Contents -> Paths \cup {NoPath}]
        /\ logDB' \subseteq Contents
        /\ recorded' \subseteq Paths
    BY DEF IInv, TypeOK, BusyState
  <2>. QED BY <2>1, <2>2 DEF IInv, TypeOK
<1>2. BusyState'
  BY DEF IInv, TypeOK, BusyState, WorkerState, RequestState, Records
<1>3. ASSUME ~clash' PROVE Good'
  <2>. ~clash /\ TypeOK /\ BusyState /\ Good
    BY <1>3 DEF IInv
  <2>. USE DEF TypeOK, WorkerState, RequestState, Good
  <2>1. OwnContent'
    BY DEF OwnContent, OwnPath, OwnersDiffer, Unrecorded
  <2>2. RecordedKept'
    BY DEF RecordedKept, OwnPath, Unrecorded
  <2>3. OwnPath' /\ OwnersDiffer' /\ KnownRecords' /\ OnlyDoomed'
    BY DEF OwnPath, Unrecorded, OwnersDiffer, KnownRecords, Known, OnlyDoomed
  <2>. QED BY <2>1, <2>2, <2>3
<1>. QED BY <1>1, <1>2, <1>3 DEF IInv

LEMMA WriteFailsIInv == ASSUME IInv, NEW w \in Workers, WriteFails(w) PROVE IInv'
<1>. USE NoPathFact DEF WriteFails, store, history, IdleWorker
<1>1. TypeOK'
  BY DEF IInv, TypeOK, BusyState, WorkerState, RequestState, Records
<1>2. BusyState'
  BY DEF IInv, TypeOK, BusyState, WorkerState, RequestState, Records
<1>3. ASSUME ~clash' PROVE Good'
  <2>. ~clash /\ TypeOK /\ BusyState /\ Good
    BY <1>3 DEF IInv
  <2>. USE DEF TypeOK, WorkerState, RequestState, Good
  <2>1. OwnPath' /\ OwnersDiffer' /\ OwnContent' /\ KnownRecords' /\ OnlyDoomed' /\ RecordedKept'
    BY DEF OwnPath, Unrecorded, OwnersDiffer, OwnContent, KnownRecords, Known, OnlyDoomed, RecordedKept
  <2>. QED BY <2>1
<1>. QED BY <1>1, <1>2, <1>3 DEF IInv

LEMMA SumFileIInv == ASSUME IInv, NEW w \in Workers, SumFile(w) PROVE IInv'
<1>. USE NoPathFact DEF SumFile, store, history, IdleWorker
<1>1. TypeOK'
  <2>1. PICK d \in Contents \cup {Partial} :
            wk' = [wk EXCEPT ![w] = IF d = Partial THEN IdleWorker
                                    ELSE [@ EXCEPT !.pc = "dedup", !.md5 = d]]
    BY DEF IInv, TypeOK, BusyState
  <2>2. wk[w] \in WorkerState
    BY DEF IInv, TypeOK
  <2>3. IdleWorker \in WorkerState
    BY DEF WorkerState
  <2>4. ASSUME d \in Contents
        PROVE  [wk[w] EXCEPT !.pc = "dedup", !.md5 = d] \in WorkerState
    BY <2>2, <2>4 DEF WorkerState
  <2>5. wk' \in [Workers -> WorkerState]
    BY <2>1, <2>2, <2>3, <2>4 DEF IInv, TypeOK
  <2>. QED BY <2>5 DEF IInv, TypeOK
<1>2. BusyState'
  BY DEF IInv, TypeOK, BusyState, WorkerState, RequestState, Records
<1>3. ASSUME ~clash' PROVE Good'
  <2>. ~clash /\ TypeOK /\ BusyState /\ Good
    BY <1>3 DEF IInv
  <2>. USE DEF TypeOK, WorkerState, RequestState, Good
  <2>1. OwnPath' /\ OwnersDiffer' /\ OwnContent' /\ KnownRecords' /\ OnlyDoomed' /\ RecordedKept'
    BY DEF OwnPath, Unrecorded, OwnersDiffer, OwnContent, KnownRecords, Known, OnlyDoomed, RecordedKept
  <2>. QED BY <2>1
<1>. QED BY <1>1, <1>2, <1>3 DEF IInv

LEMMA DedupIInv == ASSUME IInv, NEW w \in Workers, Dedup(w) PROVE IInv'
<1>. USE NoPathFact DEF Dedup, store, history
<1>1. TypeOK'
  <2>1. wk[w] \in WorkerState /\ ldb[wk[w].md5] \in Paths \cup {NoPath}
    BY DEF IInv, TypeOK, BusyState
  <2>2. /\ [wk[w] EXCEPT !.pc = "verify"] \in WorkerState
        /\ [wk[w] EXCEPT !.pc = "discard", !.old = ldb[wk[w].md5]] \in WorkerState
    BY <2>1 DEF WorkerState
  <2>3. wk' \in [Workers -> WorkerState]
    BY <2>2 DEF IInv, TypeOK
  <2>. QED BY <2>3 DEF IInv, TypeOK
<1>2. BusyState'
  BY DEF IInv, TypeOK, BusyState, WorkerState, RequestState, Records
<1>3. ASSUME ~clash' PROVE Good'
  <2>. ~clash /\ TypeOK /\ BusyState /\ Good
    BY <1>3 DEF IInv
  <2>. USE DEF TypeOK, WorkerState, RequestState, Good
  <2>1. KnownRecords'
    BY DEF KnownRecords, Known, OwnPath, OwnContent
  <2>2. OwnPath' /\ OwnersDiffer' /\ OwnContent' /\ OnlyDoomed' /\ RecordedKept'
    BY DEF OwnPath, Unrecorded, OwnersDiffer, OwnContent, OnlyDoomed, Known, RecordedKept
  <2>. QED BY <2>1, <2>2
<1>. QED BY <1>1, <1>2, <1>3 DEF IInv

LEMMA DiscardIInv == ASSUME IInv, NEW w \in Workers, Discard(w) PROVE IInv'
<1>. USE NoPathFact DEF Discard, store, history, IdleWorker
<1>1. TypeOK'
  BY DEF IInv, TypeOK, BusyState, WorkerState, RequestState, Records
<1>2. BusyState'
  BY DEF IInv, TypeOK, BusyState, WorkerState, RequestState, Records
<1>3. ASSUME ~clash' PROVE Good'
  <2>. ~clash /\ TypeOK /\ BusyState /\ Good
    BY <1>3 DEF IInv
  <2>. USE DEF TypeOK, WorkerState, RequestState, Good
  <2>1. OwnContent'
    BY DEF OwnContent, OwnPath, OwnersDiffer, Unrecorded
  <2>2. RecordedKept'
    BY DEF RecordedKept, OwnPath, Unrecorded
  <2>3. OwnPath' /\ OwnersDiffer' /\ KnownRecords' /\ OnlyDoomed'
    BY DEF OwnPath, Unrecorded, OwnersDiffer, KnownRecords, Known, OnlyDoomed
  <2>. QED BY <2>1, <2>2, <2>3
<1>. QED BY <1>1, <1>2, <1>3 DEF IInv

LEMMA RejectIInv == ASSUME IInv, NEW w \in Workers, Reject(w) PROVE IInv'
<1>. USE NoPathFact DEF Reject, store, history, IdleWorker
<1>1. TypeOK'
  BY DEF IInv, TypeOK, BusyState, WorkerState, RequestState, Records
<1>2. BusyState'
  BY DEF IInv, TypeOK, BusyState, WorkerState, RequestState, Records
<1>3. ASSUME ~clash' PROVE Good'
  <2>. ~clash /\ TypeOK /\ BusyState /\ Good
    BY <1>3 DEF IInv
  <2>. USE DEF TypeOK, WorkerState, RequestState, Good
  <2>1. OwnPath' /\ OwnersDiffer' /\ OwnContent' /\ KnownRecords' /\ OnlyDoomed' /\ RecordedKept'
    BY DEF OwnPath, Unrecorded, OwnersDiffer, OwnContent, KnownRecords, Known, OnlyDoomed, RecordedKept
  <2>. QED BY <2>1
<1>. QED BY <1>1, <1>2, <1>3 DEF IInv

LEMMA SaveLogIInv == ASSUME IInv, NEW w \in Workers, SaveLog(w) PROVE IInv'
<1>. USE NoPathFact DEF SaveLog, store, history
<1>1. TypeOK'
  <2>1. wk' \in [Workers -> WorkerState]
    BY WorkerStep DEF IInv
  <2>2. /\ disk' \in [Paths -> Contents \cup {NoContent, Partial}]
        /\ ldb' \in [Contents -> Paths \cup {NoPath}]
        /\ logDB' \subseteq Contents
        /\ recorded' \subseteq Paths
    BY DEF IInv, TypeOK, BusyState
  <2>. QED BY <2>1, <2>2 DEF IInv, TypeOK
<1>2. BusyState'
  BY DEF IInv, TypeOK, BusyState, WorkerState, RequestState, Records
<1>3. ASSUME ~clash' PROVE Good'
  <2>. ~clash /\ TypeOK /\ BusyState /\ Good
    BY <1>3 DEF IInv
  <2>. USE DEF TypeOK, WorkerState, RequestState, Good
  <2>1. OwnPath' /\ OwnersDiffer' /\ OwnContent' /\ KnownRecords' /\ OnlyDoomed' /\ RecordedKept'
    BY DEF OwnPath, Unrecorded, OwnersDiffer, OwnContent, KnownRecords, Known, OnlyDoomed, RecordedKept
  <2>. QED BY <2>1
<1>. QED BY <1>1, <1>2, <1>3 DEF IInv

LEMMA SaveMd5IInv == ASSUME IInv, NEW w \in Workers, SaveMd5(w) PROVE IInv'
<1>. USE NoPathFact DEF SaveMd5, store, history
<1>1. TypeOK'
  <2>1. wk' \in [Workers -> WorkerState]
    BY WorkerStep DEF IInv
  <2>2. /\ disk' \in [Paths -> Contents \cup {NoContent, Partial}]
        /\ ldb' \in [Contents -> Paths \cup {NoPath}]
        /\ logDB' \subseteq Contents
        /\ recorded' \subseteq Paths
    BY DEF IInv, TypeOK, BusyState
  <2>. QED BY <2>1, <2>2 DEF IInv, TypeOK
<1>2. BusyState'
  BY DEF IInv, TypeOK, BusyState, WorkerState, RequestState, Records
<1>3. ASSUME ~clash' PROVE Good'
  <2>. ~clash /\ TypeOK /\ BusyState /\ Good
    BY <1>3 DEF IInv
  <2>. USE DEF TypeOK, WorkerState, RequestState, Good
  <2>1. OwnPath'
    BY DEF OwnPath, Unrecorded, OwnersDiffer, OwnContent
  <2>2. KnownRecords'
    BY DEF KnownRecords, Known, OwnPath, OwnContent
  <2>3. RecordedKept'
    BY DEF RecordedKept, OwnPath, OwnContent, Known, KnownRecords
  <2>4. OwnersDiffer' /\ OwnContent' /\ OnlyDoomed'
    BY DEF OwnersDiffer, OwnContent, Unrecorded, OnlyDoomed, Known
  <2>. QED BY <2>1, <2>2, <2>3, <2>4
<1>. QED BY <1>1, <1>2, <1>3 DEF IInv

LEMMA SavePathIInv == ASSUME IInv, NEW w \in Workers, SavePath(w) PROVE IInv'
<1>. USE NoPathFact DEF SavePath, store, history, IdleWorker
<1>1. TypeOK'
  BY DEF IInv, TypeOK, BusyState, WorkerState, RequestState, Records
<1>2. BusyState'
  BY DEF IInv, TypeOK, BusyState, WorkerState, RequestState, Records
<1>3. ASSUME ~clash' PROVE Good'
  <2>. ~clash /\ TypeOK /\ BusyState /\ Good
    BY <1>3 DEF IInv
  <2>. USE DEF TypeOK, WorkerState, RequestState, Good
  <2>1. KnownRecords'
    BY DEF KnownRecords, Known, OwnPath, OwnContent
  <2>2. OwnPath' /\ OwnersDiffer' /\ OwnContent' /\ OnlyDoomed' /\ RecordedKept'
    BY DEF OwnPath, Unrecorded, OwnersDiffer, OwnContent, OnlyDoomed, Known, RecordedKept
  <2>. QED BY <2>1, <2>2
<1>. QED BY <1>1, <1>2, <1>3 DEF IInv

LEMMA PostSavedIInv == ASSUME IInv, NEW m \in Contents, NEW p \in Paths, PostSaved(m, p) PROVE IInv'
<1>. USE NoPathFact DEF PostSaved, store, history
<1>1. TypeOK'
  BY DEF IInv, TypeOK, BusyState, WorkerState, RequestState, Records
<1>2. BusyState'
  BY DEF IInv, TypeOK, BusyState, WorkerState, RequestState, Records
<1>3. ASSUME ~clash' PROVE Good'
  <2>. ~clash /\ TypeOK /\ BusyState /\ Good
    BY <1>3 DEF IInv
  <2>. USE DEF TypeOK, WorkerState, RequestState, Good
  <2>1. RecordedKept'
    BY DEF RecordedKept, KnownRecords, Known
  <2>2. OwnPath' /\ OwnersDiffer' /\ OwnContent' /\ KnownRecords' /\ OnlyDoomed'
    BY DEF OwnPath, Unrecorded, OwnersDiffer, OwnContent, KnownRecords, Known, OnlyDoomed
  <2>. QED BY <2>1, <2>2
<1>. QED BY <1>1, <1>2, <1>3 DEF IInv

LEMMA PostFailedIInv == ASSUME IInv, NEW m \in Contents, NEW p \in Paths, PostFailed(m, p) PROVE IInv'
<1>. USE NoPathFact DEF PostFailed, store, history
<1>1. TypeOK'
  BY DEF IInv, TypeOK, BusyState, WorkerState, RequestState, Records
<1>2. BusyState'
  BY DEF IInv, TypeOK, BusyState, WorkerState, RequestState, Records
<1>3. ASSUME ~clash' PROVE Good'
  <2>. ~clash /\ TypeOK /\ BusyState /\ Good
    BY <1>3 DEF IInv
  <2>. USE DEF TypeOK, WorkerState, RequestState, Good
  <2>1. OwnPath' /\ OwnersDiffer' /\ OwnContent' /\ KnownRecords' /\ OnlyDoomed' /\ RecordedKept'
    BY DEF OwnPath, Unrecorded, OwnersDiffer, OwnContent, KnownRecords, Known, OnlyDoomed, RecordedKept
  <2>. QED BY <2>1
<1>. QED BY <1>1, <1>2, <1>3 DEF IInv

LEMMA RemoveLookupIInv == ASSUME IInv, NEW r \in Removers, RemoveLookup(r) PROVE IInv'
<1>. USE NoPathFact DEF RemoveLookup, store, history
<1>1. TypeOK'
  BY DEF IInv, TypeOK, BusyState, WorkerState, RequestState, Records
<1>2. BusyState'
  BY DEF IInv, TypeOK, BusyState, WorkerState, RequestState, Records
<1>3. ASSUME ~clash' PROVE Good'
  <2>. ~clash /\ TypeOK /\ BusyState /\ Good
    BY <1>3 DEF IInv
  <2>. USE DEF TypeOK, WorkerState, RequestState, Good
  <2>1. OwnPath' /\ OwnersDiffer' /\ OwnContent' /\ KnownRecords' /\ OnlyDoomed' /\ RecordedKept'
    BY DEF OwnPath, Unrecorded, OwnersDiffer, OwnContent, KnownRecords, Known, OnlyDoomed, RecordedKept
  <2>. QED BY <2>1
<1>. QED BY <1>1, <1>2, <1>3 DEF IInv

LEMMA RemoveQueueIInv == ASSUME IInv, NEW r \in Removers, RemoveQueue(r) PROVE IInv'
<1>. USE NoPathFact DEF RemoveQueue, store, history
<1>1. TypeOK'
  <2>1. rm' \in [Removers -> RequestState({"idle", "queue", "unlink"})]
    BY DEF IInv, TypeOK, RequestState
  <2>2. <<rm[r].md5, rm[r].path>> \in Records
    BY DEF IInv, BusyState
  <2>3. queueFileLog' \in Seq(Records) /\ Len(queueFileLog') <= MaxLog
    BY <2>2 DEF IInv, TypeOK
  <2>. QED BY <2>1, <2>3 DEF IInv, TypeOK
<1>2. BusyState'
  BY DEF IInv, TypeOK, BusyState, WorkerState, RequestState, Records
<1>3. ASSUME ~clash' PROVE Good'
  <2>. ~clash /\ TypeOK /\ BusyState /\ Good
    BY <1>3 DEF IInv
  <2>. USE DEF TypeOK, WorkerState, RequestState, Good
  <2>1. OnlyDoomed'
    BY DEF OnlyDoomed, KnownRecords, Known, RecordedKept
  <2>2. OwnPath' /\ OwnersDiffer' /\ OwnContent' /\ KnownRecords' /\ RecordedKept'
    BY DEF OwnPath, Unrecorded, OwnersDiffer, OwnContent, KnownRecords, Known, RecordedKept
  <2>. QED BY <2>1, <2>2
<1>. QED BY <1>1, <1>2, <1>3 DEF IInv

LEMMA RemoveMissingIInv == ASSUME IInv, NEW r \in Removers, RemoveMissing(r) PROVE IInv'
<1>. USE NoPathFact DEF RemoveMissing, store, history, IdleRequest
<1>1. TypeOK'
  BY DEF IInv, TypeOK, BusyState, WorkerState, RequestState, Records
<1>2. BusyState'
  BY DEF IInv, TypeOK, BusyState, WorkerState, RequestState, Records
<1>3. ASSUME ~clash' PROVE Good'
  <2>. ~clash /\ TypeOK /\ BusyState /\ Good
    BY <1>3 DEF IInv
  <2>. USE DEF TypeOK, WorkerState, RequestState, Good
  <2>1. OwnPath' /\ OwnersDiffer' /\ OwnContent' /\ KnownRecords' /\ OnlyDoomed' /\ RecordedKept'
    BY DEF OwnPath, Unrecorded, OwnersDiffer, OwnContent, KnownRecords, Known, OnlyDoomed, RecordedKept
  <2>. QED BY <2>1
<1>. QED BY <1>1, <1>2, <1>3 DEF IInv

LEMMA RemoveUnlinkIInv == ASSUME IInv, NEW r \in Removers, RemoveUnlink(r) PROVE IInv'
<1>. USE NoPathFact DEF RemoveUnlink, store, history, IdleRequest
<1>1. TypeOK'
  BY DEF IInv, TypeOK, BusyState, WorkerState, RequestState, Records
<1>2. BusyState'
  BY DEF IInv, TypeOK, BusyState, WorkerState, RequestState, Records
<1>3. ASSUME ~clash' PROVE Good'
  <2>. ~clash /\ TypeOK /\ BusyState /\ Good
    BY <1>3 DEF IInv
  <2>. USE DEF TypeOK, WorkerState, RequestState, Good
  <2>1. OwnContent'
    BY DEF OwnContent, OwnPath, Unrecorded, KnownRecords, Known
  <2>2. RecordedKept'
    BY DEF RecordedKept, KnownRecords, Known, OnlyDoomed
  <2>3. OwnPath' /\ OwnersDiffer' /\ KnownRecords' /\ OnlyDoomed'
    BY DEF OwnPath, Unrecorded, OwnersDiffer, KnownRecords, Known, OnlyDoomed
  <2>. QED BY <2>1, <2>2, <2>3
<1>. QED BY <1>1, <1>2, <1>3 DEF IInv

LEMMA CheckLookupIInv == ASSUME IInv, NEW c \in Checkers, CheckLookup(c) PROVE IInv'
<1>. USE NoPathFact DEF CheckLookup, store, history
<1>1. TypeOK'
  BY DEF IInv, TypeOK, BusyState, WorkerState, RequestState, Records
<1>2. BusyState'
  BY DEF IInv, TypeOK, BusyState, WorkerState, RequestState, Records
<1>3. ASSUME ~clash' PROVE Good'
  <2>. ~clash /\ TypeOK /\ BusyState /\ Good
    BY <1>3 DEF IInv
  <2>. USE DEF TypeOK, WorkerState, RequestState, Good
  <2>1. OwnPath' /\ OwnersDiffer' /\ OwnContent' /\ KnownRecords' /\ OnlyDoomed' /\ RecordedKept'
    BY DEF OwnPath, Unrecorded, OwnersDiffer, OwnContent, KnownRecords, Known, OnlyDoomed, RecordedKept
  <2>. QED BY <2>1
<1>. QED BY <1>1, <1>2, <1>3 DEF IInv

LEMMA CheckStatIInv == ASSUME IInv, NEW c \in Checkers, CheckStat(c) PROVE IInv'
<1>. USE NoPathFact DEF CheckStat, store, history, IdleRequest
<1>1. TypeOK'
  <2>1. ck[c] \in RequestState({"idle", "stat", "remove"})
    BY DEF IInv, TypeOK
  <2>2. /\ [ck[c] EXCEPT !.pc = "remove"] \in RequestState({"idle", "stat", "remove"})
        /\ IdleRequest \in RequestState({"idle", "stat", "remove"})
    BY <2>1 DEF RequestState
  <2>3. ck' \in [Checkers -> RequestState({"idle", "stat", "remove"})]
    BY <2>2 DEF IInv, TypeOK
  <2>. QED BY <2>3 DEF IInv, TypeOK
<1>2. BusyState'
  BY DEF IInv, TypeOK, BusyState, WorkerState, RequestState, Records
<1>3. ASSUME ~clash' PROVE Good'
  <2>. ~clash /\ TypeOK /\ BusyState /\ Good
    BY <1>3 DEF IInv
  <2>. USE DEF TypeOK, WorkerState, RequestState, Good
  <2>1. OnlyDoomed'
    BY DEF OnlyDoomed, KnownRecords, Known, RecordedKept
  <2>2. OwnPath' /\ OwnersDiffer' /\ OwnContent' /\ KnownRecords' /\ RecordedKept'
    BY DEF OwnPath, Unrecorded, OwnersDiffer, OwnContent, KnownRecords, Known, RecordedKept
  <2>. QED BY <2>1, <2>2
<1>. QED BY <1>1, <1>2, <1>3 DEF IInv

LEMMA CheckRemoveIInv == ASSUME IInv, NEW c \in Checkers, CheckRemove(c) PROVE IInv'
<1>. USE NoPathFact DEF CheckRemove, store, history, IdleRequest
<1>1. TypeOK'
  BY DEF IInv, TypeOK, BusyState, WorkerState, RequestState, Records
<1>2. BusyState'
  BY DEF IInv, TypeOK, BusyState, WorkerState, RequestState, Records
<1>3. ASSUME ~clash' PROVE Good'
  <2>. ~clash /\ TypeOK /\ BusyState /\ Good
    BY <1>3 DEF IInv
  <2>. USE DEF TypeOK, WorkerState, RequestState, Good
  <2>1. RecordedKept'
    BY DEF RecordedKept, KnownRecords, Known, OnlyDoomed
  <2>2. OwnPath' /\ OwnersDiffer' /\ OwnContent' /\ KnownRecords' /\ OnlyDoomed'
    BY DEF OwnPath, Unrecorded, OwnersDiffer, OwnContent, KnownRecords, Known, OnlyDoomed
  <2>. QED BY <2>1, <2>2
<1>. QED BY <1>1, <1>2, <1>3 DEF IInv

LEMMA LogTakeIInv == ASSUME IInv, LogTake PROVE IInv'
<1>. USE NoPathFact DEF LogTake, store, history
<1>1. TypeOK'
  BY DEF IInv, TypeOK, BusyState, WorkerState, RequestState, Records
<1>2. BusyState'
  BY DEF IInv, TypeOK, BusyState, WorkerState, RequestState, Records
<1>3. ASSUME ~clash' PROVE Good'
  <2>. ~clash /\ TypeOK /\ BusyState /\ Good
    BY <1>3 DEF IInv
  <2>. USE DEF TypeOK, WorkerState, RequestState, Good
  <2>1. OnlyDoomed'
    BY DEF OnlyDoomed, KnownRecords, Known, RecordedKept
  <2>2. OwnPath' /\ OwnersDiffer' /\ OwnContent' /\ KnownRecords' /\ RecordedKept'
    BY DEF OwnPath, Unrecorded, OwnersDiffer, OwnContent, KnownRecords, Known, RecordedKept
  <2>. QED BY <2>1, <2>2
<1>. QED BY <1>1, <1>2, <1>3 DEF IInv

LEMMA LogRemoveMd5IInv == ASSUME IInv, LogRemoveMd5 PROVE IInv'
<1>. USE NoPathFact DEF LogRemoveMd5, store, history
<1>1. TypeOK'
  BY DEF IInv, TypeOK, BusyState, WorkerState, RequestState, Records
<1>2. BusyState'
  BY DEF IInv, TypeOK, BusyState, WorkerState, RequestState, Records
<1>3. ASSUME ~clash' PROVE Good'
  <2>. ~clash /\ TypeOK /\ BusyState /\ Good
    BY <1>3 DEF IInv
  <2>. USE DEF TypeOK, WorkerState, RequestState, Good
  <2>1. RecordedKept'
    BY DEF RecordedKept, KnownRecords, Known, OnlyDoomed
  <2>2. OwnPath' /\ OwnersDiffer' /\ OwnContent' /\ KnownRecords' /\ OnlyDoomed'
    BY DEF OwnPath, Unrecorded, OwnersDiffer, OwnContent, KnownRecords, Known, OnlyDoomed
  <2>. QED BY <2>1, <2>2
<1>. QED BY <1>1, <1>2, <1>3 DEF IInv

LEMMA LogRemovePathIInv == ASSUME IInv, LogRemovePath PROVE IInv'
<1>. USE NoPathFact DEF LogRemovePath, store, history
<1>1. TypeOK'
  BY DEF IInv, TypeOK, BusyState, WorkerState, RequestState, Records
<1>2. BusyState'
  BY DEF IInv, TypeOK, BusyState, WorkerState, RequestState, Records
<1>3. ASSUME ~clash' PROVE Good'
  <2>. ~clash /\ TypeOK /\ BusyState /\ Good
    BY <1>3 DEF IInv
  <2>. USE DEF TypeOK, WorkerState, RequestState, Good
  <2>1. OwnPath' /\ OwnersDiffer' /\ OwnContent' /\ KnownRecords' /\ OnlyDoomed' /\ RecordedKept'
    BY DEF OwnPath, Unrecorded, OwnersDiffer, OwnContent, KnownRecords, Known, OnlyDoomed, RecordedKept
  <2>. QED BY <2>1
<1>. QED BY <1>1, <1>2, <1>3 DEF IInv

LEMMA LogRemoveEntryIInv == ASSUME IInv, LogRemoveEntry PROVE IInv'
<1>. USE NoPathFact DEF LogRemoveEntry, store, history, IdleRequest
<1>1. TypeOK'
  BY DEF IInv, TypeOK, BusyState, WorkerState, RequestState, Records
<1>2. BusyState'
  BY DEF IInv, TypeOK, BusyState, WorkerState, RequestState, Records
<1>3. ASSUME ~clash' PROVE Good'
  <2>. ~clash /\ TypeOK /\ BusyState /\ Good
    BY <1>3 DEF IInv
  <2>. USE DEF TypeOK, WorkerState, RequestState, Good
  <2>1. OwnPath' /\ OwnersDiffer' /\ OwnContent' /\ KnownRecords' /\ OnlyDoomed' /\ RecordedKept'
    BY DEF OwnPath, Unrecorded, OwnersDiffer, OwnContent, KnownRecords, Known, OnlyDoomed, RecordedKept
  <2>. QED BY <2>1
<1>. QED BY <1>1, <1>2, <1>3 DEF IInv

LEMMA CrashIInv == ASSUME IInv, Crash PROVE IInv'
<1>. USE NoPathFact DEF Crash, store, history, IdleWorker, IdleRequest
<1>1. TypeOK'
  BY DEF IInv, TypeOK, BusyState, WorkerState, RequestState, Records
<1>2. BusyState'
  BY DEF IInv, TypeOK, BusyState, WorkerState, RequestState, Records
<1>3. ASSUME ~clash' PROVE Good'
  <2>. ~clash /\ TypeOK /\ BusyState /\ Good
    BY <1>3 DEF IInv
  <2>. USE DEF TypeOK, WorkerState, RequestState, Good
  <2>1. OwnPath' /\ OwnersDiffer' /\ OwnContent' /\ KnownRecords' /\ OnlyDoomed' /\ RecordedKept'
    BY DEF OwnPath, Unrecorded, OwnersDiffer, OwnContent, KnownRecords, Known, OnlyDoomed, RecordedKept
  <2>. QED BY <2>1
<1>. QED BY <1>1, <1>2, <1>3 DEF IInv

-----------------------------------------------------------------------------

LEMMA InitIInv == Init => IInv
<1>. SUFFICES ASSUME Init PROVE IInv
  OBVIOUS
<1>1. BusyState
  BY DEF Init, BusyState, IdleWorker, IdleRequest
<1>2. OwnPath /\ OwnersDiffer /\ OwnContent
  BY DEF Init, OwnPath, OwnersDiffer, OwnContent, IdleWorker, Unrecorded
<1>3. KnownRecords /\ OnlyDoomed /\ RecordedKept
  BY DEF Init, KnownRecords, OnlyDoomed, RecordedKept, IdleWorker, IdleRequest
<1>. QED BY InitType, <1>1, <1>2, <1>3 DEF IInv, Good

LEMMA StutterIInv == IInv /\ UNCHANGED vars => IInv'
BY DEF vars, IInv, TypeOK, BusyState, Good, OwnPath, OwnersDiffer, OwnContent,
       KnownRecords, Known, OnlyDoomed, RecordedKept, Unrecorded

LEMMA NextIInv == ASSUME IInv, Next PROVE IInv'
<1>1. CASE \E w \in Workers : Upload(w)
  BY <1>1, ChoosePathIInv, CreateFileIInv, CopyFileIInv, WriteFailsIInv,
     SumFileIInv, DedupIInv, DiscardIInv, RejectIInv, SaveLogIInv, SaveMd5IInv,
     SavePathIInv DEF Upload
<1>2. CASE \E m \in Contents, p \in Paths : PostSaved(m, p) \/ PostFailed(m, p)
  BY <1>2, PostSavedIInv, PostFailedIInv
<1>3. CASE \E r \in Removers : RemoveFile(r)
  BY <1>3, RemoveLookupIInv, RemoveQueueIInv, RemoveMissingIInv, RemoveUnlinkIInv
     DEF RemoveFile
<1>4. CASE \E c \in Checkers : CheckFileExist(c)
  BY <1>4, CheckLookupIInv, CheckStatIInv, CheckRemoveIInv DEF CheckFileExist
<1>5. CASE ConsumerLog
  BY <1>5, LogTakeIInv, LogRemoveMd5IInv, LogRemovePathIInv, LogRemoveEntryIInv
     DEF ConsumerLog
<1>6. CASE Crash
  BY <1>6, CrashIInv
<1>. QED BY <1>1, <1>2, <1>3, <1>4, <1>5, <1>6 DEF Next

\* The inductive invariant: who owns which path, what its file holds, that
\* every record in anybody's hands was stored, and that recorded files stay.
THEOREM Invariance == Spec => []IInv
<1>1. IInv /\ [Next]_vars => IInv'
  BY StutterIInv, NextIInv
<1>. QED BY InitIInv, <1>1, PTL DEF Spec

\* Types, and queueFileLog within its capacity.
THEOREM TypeCorrect == Spec => []TypeOK
BY Invariance, PTL DEF IInv

\* The URL of an acknowledged upload serves its content until somebody asks
\* for the deletion, whatever runs besides and over crashes.
THEOREM AckedFilesSurvive == Spec => []UndeletedReadable
<1>1. IInv => UndeletedReadable
  BY DEF IInv, Good, KnownRecords, Known, RecordedKept, UndeletedReadable
<1>. QED BY Invariance, <1>1, PTL

\* ... and its md5 keeps a record whose file is there.
THEOREM AckedFilesIndexed == Spec => []UndeletedIndexed
<1>1. IInv => UndeletedIndexed
  BY DEF IInv, Good, KnownRecords, Known, RecordedKept, UndeletedIndexed
<1>. QED BY Invariance, <1>1, PTL

\* No step removes a recorded file whose content nobody asked to delete.
THEOREM OnlyDoomedFilesRemoved == Spec => RemovedWereDoomed
<1>1. IInv /\ IInv' /\ [Next]_vars =>
        [~clash => \A p \in recorded :
            disk[p] # NoContent /\ disk'[p] = NoContent => orig[p] \in doomed]_vars
  <2>1. SUFFICES ASSUME IInv, Next, ~clash, NEW p \in recorded,
                        disk[p] # NoContent, disk'[p] = NoContent
                 PROVE  orig[p] \in doomed
    OBVIOUS
  <2>2. TypeOK /\ Good
    BY <2>1 DEF IInv
  \* Only Discard and os.Remove unlink; Discard has the upload's own path.
  <2>3. \/ \E w \in Workers : Discard(w)
        \/ \E r \in Removers : RemoveUnlink(r)
        \/ \E w \in Workers : CreateFile(w) \/ CopyFile(w)
        \/ disk' = disk
    BY <2>1 DEF Next, Upload, RemoveFile, CheckFileExist, ConsumerLog, ChoosePath,
         WriteFails, SumFile, Dedup, Reject, SaveLog, SaveMd5, SavePath,
         PostSaved, PostFailed, RemoveLookup, RemoveQueue, RemoveMissing,
         CheckLookup, CheckStat, CheckRemove, LogTake, LogRemoveMd5,
         LogRemovePath, LogRemoveEntry, Crash, store
  <2>4. ASSUME NEW w \in Workers, Discard(w) PROVE orig[p] \in doomed
    BY <2>1, <2>2, <2>4 DEF Discard, Good, OwnPath, Unrecorded, TypeOK
  <2>5. ASSUME NEW r \in Removers, RemoveUnlink(r) PROVE orig[p] \in doomed
    BY <2>1, <2>2, <2>5 DEF RemoveUnlink, Good, KnownRecords, Known, OnlyDoomed, TypeOK
  <2>6. ASSUME NEW w \in Workers, CreateFile(w) \/ CopyFile(w) PROVE orig[p] \in doomed
    BY <2>1, <2>2, <2>6 DEF CreateFile, CopyFile, Good, OwnPath, Unrecorded, TypeOK
  <2>. QED BY <2>1, <2>3, <2>4, <2>5, <2>6
<1>. QED BY Invariance, <1>1, PTL DEF Spec, RemovedWereDoomed
=============================================================================

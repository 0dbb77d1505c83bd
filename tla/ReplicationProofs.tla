------------------------- MODULE ReplicationProofs -------------------------
(***************************************************************************)
(* What replication guarantees for any number of nodes, files, faults,     *)
(* crashes and repairs.                                                    *)
(***************************************************************************)
EXTENDS Replication, FiniteSetTheorems, TLAPS

-----------------------------------------------------------------------------
(* Types.                                                                  *)

\* A FileInfo is posted to other nodes only. (TypeOK needs it: a node that
\* posted to itself would add two entries to its queueFileLog at once.)
TodoIsPeers == \A n \in Nodes : \A t \in toPeers[n] : t.todo \subseteq Peers(n)

TInv == TypeOK /\ TodoIsPeers

LEMMA InitTInv == Init => TInv
<1>. SUFFICES ASSUME Init PROVE TInv
  OBVIOUS
<1>1. TypeOK
  BY ReplicationAssumption DEF Init, TypeOK, Entry, Posting, Fetching
<1>2. TodoIsPeers
  BY DEF Init, TodoIsPeers
<1>. QED BY <1>1, <1>2 DEF TInv

LEMMA PostType ==
    ASSUME NEW n \in Nodes, NEW f \in Files, NEW peers \in Seq(Nodes), NEW r \in Nat
    PROVE  Post(n, f, peers, r) \in Posting /\ Post(n, f, peers, r).todo = Peers(n)
BY DEF Post, Posting, Peers

LEMMA WithType ==
    ASSUME NEW n \in Nodes, NEW peers \in Seq(Nodes)
    PROVE  With(peers, n) \in Seq(Nodes)
BY DEF With

LEMMA UploadTInv ==
    ASSUME TInv, NEW n \in Nodes, NEW f \in Files, Upload(n, f)
    PROVE  TInv'
<1>1. <<n>> \in Seq(Nodes)
  OBVIOUS
<1>2. Post(n, f, <<n>>, 0) \in Posting /\ Post(n, f, <<n>>, 0).todo = Peers(n)
  BY <1>1, PostType
<1>3. TypeOK'
  BY <1>1, <1>2 DEF TInv, TypeOK, Upload, SaveRecord, logs, history
<1>4. TodoIsPeers'
  <2>1. SUFFICES ASSUME NEW m \in Nodes, NEW t \in toPeers'[m]
        PROVE  t.todo \subseteq Peers(m)
    BY DEF TodoIsPeers, Peers
  <2>2. t \in toPeers[m] \/ (m = n /\ t = Post(n, f, <<n>>, 0))
    <3>1. toPeers' = [toPeers EXCEPT ![n] = @ \cup {Post(n, f, <<n>>, 0)}]
      BY DEF Upload
    <3>2. toPeers'[m] = IF m = n THEN toPeers[n] \cup {Post(n, f, <<n>>, 0)} ELSE toPeers[m]
      BY <3>1 DEF TInv, TypeOK
    <3>. QED BY <3>2
  <2>. QED BY <1>2, <2>2 DEF TInv, TodoIsPeers
<1>. QED BY <1>3, <1>4 DEF TInv

\* What a postFileToPeer step leaves of t.
LEMMA NextPostTInv ==
    ASSUME TInv, NEW n \in Nodes, NEW t \in toPeers[n], NEW s \in SUBSET Posting,
           \A u \in s : u.todo \subseteq Peers(n), NextPost(n, t, s)
    PROVE  toPeers' \in [Nodes -> SUBSET Posting] /\ TodoIsPeers'
BY DEF TInv, TypeOK, TodoIsPeers, NextPost, Peers

LEMMA NextPostOne ==
    ASSUME TInv, NEW n \in Nodes, NEW t \in toPeers[n], NEW u \in Posting,
           u.todo \subseteq Peers(n), NextPost(n, t, {u})
    PROVE  toPeers' \in [Nodes -> SUBSET Posting] /\ TodoIsPeers'
<1>1. {u} \in SUBSET Posting /\ \A v \in {u} : v.todo \subseteq Peers(n)
  OBVIOUS
<1>. QED BY <1>1, NextPostTInv

LEMMA RetriedType ==
    ASSUME TInv, NEW n \in Nodes, NEW t \in toPeers[n], NEW q \in t.todo
    PROVE  /\ Retried(n, t, q) \in SUBSET Posting
           /\ \A u \in Retried(n, t, q) : u.todo \subseteq Peers(n)
<1>1. t \in Posting /\ t.todo \subseteq Peers(n)
  BY DEF TInv, TypeOK, TodoIsPeers
<1>2. t.file \in Files /\ t.peers \in Seq(Nodes) /\ t.retry + 1 \in Nat
  BY <1>1 DEF Posting
<1>3. /\ Post(n, t.file, t.peers, t.retry + 1) \in Posting
      /\ Post(n, t.file, t.peers, t.retry + 1).todo = Peers(n)
  BY <1>2, PostType
<1>4. /\ [t EXCEPT !.retry = @ + 1, !.todo = @ \ {q}] \in Posting
      /\ [t EXCEPT !.retry = @ + 1, !.todo = @ \ {q}].todo \subseteq Peers(n)
      /\ [t EXCEPT !.todo = @ \ {q}] \in Posting
      /\ [t EXCEPT !.todo = @ \ {q}].todo \subseteq Peers(n)
  BY <1>1, <1>2 DEF Posting
<1>. QED BY <1>3, <1>4 DEF Retried

LEMMA PostStepTInv ==
    ASSUME TInv, NEW n \in Nodes, PostStep(n)
    PROVE  TInv'
<1>1. PICK t \in toPeers[n] :
        \/ \E q \in t.todo :
             PostSkip(n, t, q) \/ PostKnown(n, t, q) \/ PostOk(n, t, q)
        \/ PostDone(n, t)
  BY DEF PostStep
<1>2. t \in Posting /\ t.todo \subseteq Peers(n) /\ t.todo \subseteq Nodes
  BY DEF TInv, TypeOK, TodoIsPeers, Peers
<1>3. CASE PostDone(n, t)
  <2>1. toPeers' \in [Nodes -> SUBSET Posting] /\ TodoIsPeers'
    BY <1>3, NextPostTInv DEF PostDone
  <2>. QED BY <1>3, <2>1 DEF TInv, TypeOK, PostDone, logs, history
<1>4. ASSUME NEW q \in t.todo, PostSkip(n, t, q)
      PROVE  TInv'
  <2>1. toPeers' \in [Nodes -> SUBSET Posting] /\ TodoIsPeers'
    BY <1>2, <1>4, NextPostTInv DEF PostSkip, Posting
  <2>. QED BY <1>4, <2>1 DEF TInv, TypeOK, PostSkip, logs, history
<1>5. ASSUME NEW q \in t.todo
      PROVE  /\ Append(t.peers, q) \in Seq(Nodes)
             /\ [t EXCEPT !.peers = Append(@, q), !.todo = @ \ {q}] \in Posting
             /\ [t EXCEPT !.peers = Append(@, q), !.todo = @ \ {q}].todo \subseteq Peers(n)
  <2>1. t.peers \in Seq(Nodes) /\ q \in Nodes
    BY <1>2 DEF Posting
  <2>2. Append(t.peers, q) \in Seq(Nodes)
    BY <2>1
  <2>. QED BY <1>2, <2>2 DEF Posting
<1>6. ASSUME NEW q \in t.todo, PostKnown(n, t, q)
      PROVE  TInv'
  <2>1. toPeers' \in [Nodes -> SUBSET Posting] /\ TodoIsPeers'
    <3>1. NextPost(n, t, {[t EXCEPT !.peers = Append(@, q), !.todo = @ \ {q}]})
      BY <1>6 DEF PostKnown
    <3>. QED BY <1>5, <3>1, NextPostOne
  <2>. QED BY <1>2, <1>5, <1>6, <2>1
           DEF TInv, TypeOK, PostKnown, SaveRecord, logs, history, Posting
<1>7. ASSUME NEW q \in t.todo, PostOk(n, t, q)
      PROVE  TInv'
  <2>1. toPeers' \in [Nodes -> SUBSET Posting] /\ TodoIsPeers'
    <3>1. NextPost(n, t, {[t EXCEPT !.peers = Append(@, q), !.todo = @ \ {q}]})
      BY <1>7 DEF PostOk
    <3>. QED BY <1>5, <3>1, NextPostOne
  <2>2. QueueEntry(t) \in Entry /\ Fetch(t.file, t.peers) \in Fetching
    BY <1>2 DEF QueueEntry, Entry, Fetch, Fetching, Posting
  <2>3. fileLogQ' \in [Nodes -> Seq(Entry)] /\ \A m \in Nodes : Len(fileLogQ'[m]) <= MaxLog
    BY <1>2, <1>7, <2>2, ReplicationAssumption DEF TInv, TypeOK, PostOk, SyncFileInfo
  <2>4. fromPeers' \in [Nodes -> SUBSET Fetching]
    BY <1>2, <1>7, <2>2 DEF TInv, TypeOK, PostOk, SyncFileInfo
  <2>. QED BY <1>2, <1>5, <1>7, <2>1, <2>3, <2>4
           DEF TInv, TypeOK, PostOk, SaveRecord, logs, history, Posting
<1>. QED BY <1>1, <1>3, <1>4, <1>6, <1>7

\* A queueFileLog with room takes an entry.
LEMMA AppendType ==
    ASSUME NEW Q \in [Nodes -> Seq(Entry)], \A m \in Nodes : Len(Q[m]) <= MaxLog,
           NEW n \in Nodes, Len(Q[n]) < MaxLog, NEW e \in Entry
    PROVE  LET R == [Q EXCEPT ![n] = Append(@, e)]
           IN  R \in [Nodes -> Seq(Entry)] /\ \A m \in Nodes : Len(R[m]) <= MaxLog
<1>. DEFINE R == [Q EXCEPT ![n] = Append(@, e)]
<1>1. Append(Q[n], e) \in Seq(Entry) /\ Len(Append(Q[n], e)) = Len(Q[n]) + 1
  OBVIOUS
<1>2. Len(Q[n]) + 1 <= MaxLog
  BY ReplicationAssumption, Len(Q[n]) \in Nat
<1>. QED BY <1>1, <1>2

LEMMA PostFaultTInv ==
    ASSUME TInv, NEW n \in Nodes, PostFault(n)
    PROVE  TInv'
<1>. PICK t \in toPeers[n] :
        \E q \in t.todo : PostFails(n, t, q) \/ PostUnanswered(n, t, q)
  BY DEF PostFault
<1>1. PICK q \in t.todo : PostFails(n, t, q) \/ PostUnanswered(n, t, q)
  OBVIOUS
<1>2. t \in Posting /\ q \in Nodes /\ q # n
  BY DEF TInv, TypeOK, TodoIsPeers, Peers
<1>3. toPeers' \in [Nodes -> SUBSET Posting] /\ TodoIsPeers'
  BY <1>1, NextPostTInv, RetriedType DEF PostFails, PostUnanswered
<1>4. ErrorEntry(t) \in Entry /\ QueueEntry(t) \in Entry /\ Fetch(t.file, t.peers) \in Fetching
  BY <1>2 DEF ErrorEntry, QueueEntry, Entry, Fetch, Fetching, Posting
<1>5. faults' \in [post : Nat, download : Nat, crash : Nat, repair : Nat]
  <2>1. faults.post + 1 \in Nat
    BY DEF TInv, TypeOK
  <2>. QED BY <1>1, <2>1 DEF TInv, TypeOK, PostFails, PostUnanswered
<1>6. CASE PostFails(n, t, q)
  <2>1. fileLogQ' \in [Nodes -> Seq(Entry)] /\ \A m \in Nodes : Len(fileLogQ'[m]) <= MaxLog
    <3>1. /\ fileLogQ \in [Nodes -> Seq(Entry)]
          /\ \A m \in Nodes : Len(fileLogQ[m]) <= MaxLog
          /\ Len(fileLogQ[n]) < MaxLog
          /\ fileLogQ' = [fileLogQ EXCEPT ![n] = Append(@, ErrorEntry(t))]
      BY <1>6 DEF TInv, TypeOK, PostFails
    <3>. QED BY <1>4, <3>1, AppendType
  <2>. QED BY <1>3, <1>5, <1>6, <2>1 DEF TInv, TypeOK, PostFails, logs, history
<1>7. CASE PostUnanswered(n, t, q)
  <2>1. fileLogQ' \in [Nodes -> Seq(Entry)] /\ \A m \in Nodes : Len(fileLogQ'[m]) <= MaxLog
    <3>. DEFINE Q == [fileLogQ EXCEPT ![n] = Append(@, ErrorEntry(t))]
    <3>1. /\ fileLogQ \in [Nodes -> Seq(Entry)]
          /\ \A m \in Nodes : Len(fileLogQ[m]) <= MaxLog
          /\ Len(fileLogQ[n]) < MaxLog
          /\ Len(fileLogQ[q]) < MaxLog
          /\ fileLogQ' = [fileLogQ EXCEPT ![n] = Append(@, ErrorEntry(t)),
                                          ![q] = Append(@, QueueEntry(t))]
      BY <1>7 DEF TInv, TypeOK, PostUnanswered, SyncFileInfo
    <3>2. Q \in [Nodes -> Seq(Entry)] /\ \A m \in Nodes : Len(Q[m]) <= MaxLog
      BY <1>4, <3>1, AppendType
    <3>3. Len(Q[q]) < MaxLog
      BY <1>2, <3>1
    <3>4. fileLogQ' = [Q EXCEPT ![q] = Append(@, QueueEntry(t))]
      BY <1>2, <3>1
    <3>. HIDE DEF Q
    <3>. QED BY <1>2, <1>4, <3>2, <3>3, <3>4, AppendType
  <2>2. fromPeers' \in [Nodes -> SUBSET Fetching]
    BY <1>2, <1>4, <1>7 DEF TInv, TypeOK, PostUnanswered, SyncFileInfo
  <2>. QED BY <1>3, <1>5, <1>7, <2>1, <2>2 DEF TInv, TypeOK, PostUnanswered, logs, history
<1>. QED BY <1>1, <1>6, <1>7

LEMMA DownloadTInv ==
    ASSUME TInv, NEW n \in Nodes, DownloadStep(n) \/ DownloadFault(n)
    PROVE  TInv'
<1>1. PICK d \in fromPeers[n] :
        \/ DownloadGivenUp(n, d) \/ DownloadNeedless(n, d) \/ DownloadFile(n, d)
        \/ DownloadLogged(n, d) \/ DownloadFails(n, d)
  BY DEF DownloadStep, DownloadFault
<1>2. d \in Fetching
  BY DEF TInv, TypeOK
<1>3. CASE DownloadGivenUp(n, d)
  BY <1>2, <1>3 DEF TInv, TypeOK, TodoIsPeers, DownloadGivenUp, Drop, logs, Fetching, Peers
<1>4. CASE DownloadNeedless(n, d)
  BY <1>4 DEF TInv, TypeOK, TodoIsPeers, DownloadNeedless, Drop, logs, history, Peers
<1>5. CASE DownloadFile(n, d)
  <2>1. [d EXCEPT !.got = TRUE] \in Fetching /\ d.file \in Files
    BY <1>2 DEF Fetching
  <2>. QED BY <1>5, <2>1 DEF TInv, TypeOK, TodoIsPeers, DownloadFile, logs, history, Peers
<1>6. CASE DownloadLogged(n, d)
  <2>1. FilesEntry(d) \in Entry
    BY <1>2 DEF FilesEntry, Entry, Fetching
  <2>2. fileLogQ' \in [Nodes -> Seq(Entry)] /\ \A m \in Nodes : Len(fileLogQ'[m]) <= MaxLog
    <3>1. /\ fileLogQ \in [Nodes -> Seq(Entry)]
          /\ \A m \in Nodes : Len(fileLogQ[m]) <= MaxLog
          /\ Len(fileLogQ[n]) < MaxLog
          /\ fileLogQ' = [fileLogQ EXCEPT ![n] = Append(@, FilesEntry(d))]
      BY <1>6 DEF TInv, TypeOK, DownloadLogged
    <3>. QED BY <2>1, <3>1, AppendType
  <2>. QED BY <1>6, <2>2 DEF TInv, TypeOK, TodoIsPeers, DownloadLogged, Drop, logs, history, Peers
<1>7. CASE DownloadFails(n, d)
  <2>1. d.retry + 1 \in Nat /\ faults.download + 1 \in Nat
    BY <1>2 DEF Fetching, TInv, TypeOK
  <2>2. [d EXCEPT !.retry = @ + 1] \in Fetching
    BY <1>2, <2>1 DEF Fetching
  <2>3. faults' \in [post : Nat, download : Nat, crash : Nat, repair : Nat]
    BY <1>7, <2>1 DEF TInv, TypeOK, DownloadFails
  <2>. QED BY <1>7, <2>2, <2>3 DEF TInv, TypeOK, TodoIsPeers, DownloadFails, logs, history, Peers
<1>. QED BY <1>1, <1>3, <1>4, <1>5, <1>6, <1>7

LEMMA LogStepTInv ==
    ASSUME TInv, NEW n \in Nodes, LogStep(n)
    PROVE  TInv'
<1>. DEFINE e == Head(fileLogQ[n])
<1>1. fileLogQ[n] \in Seq(Entry) /\ fileLogQ[n] # <<>>
  BY DEF TInv, TypeOK, LogStep
<1>2. e \in Entry /\ Tail(fileLogQ[n]) \in Seq(Entry)
      /\ Len(Tail(fileLogQ[n])) <= Len(fileLogQ[n])
  BY <1>1
<1>3. Len(Tail(fileLogQ[n])) <= MaxLog
  BY <1>1, <1>2, ReplicationAssumption DEF TInv, TypeOK
<1>4. e.file \in Files /\ e.peers \in Seq(Nodes)
  BY <1>2 DEF Entry
<1>5. /\ ldb' \in [Nodes -> [Files -> Seq(Nodes) \cup {NoRecord}]]
      /\ filesLog' \in [Nodes -> SUBSET Files]
      /\ queueLog' \in [Nodes -> [Files -> Seq(Nodes) \cup {NoRecord}]]
      /\ errLog' \in [Nodes -> SUBSET Files]
      /\ counted' \subseteq Nodes
  <2>1. \/ /\ ldb' = [ldb EXCEPT ![n][e.file] = e.peers]
           /\ filesLog' = [filesLog EXCEPT ![n] = @ \cup {e.file}]
           /\ counted' = counted \cup {n}
           /\ UNCHANGED <<queueLog, errLog>>
        \/ /\ queueLog' = [queueLog EXCEPT ![n][e.file] = e.peers]
           /\ UNCHANGED <<ldb, filesLog, errLog, counted>>
        \/ /\ errLog' = [errLog EXCEPT ![n] = @ \cup {e.file}]
           /\ UNCHANGED <<ldb, filesLog, queueLog, counted>>
    BY DEF LogStep, SaveRecord, logs
  <2>. HIDE DEF e
  <2>2. [ldb EXCEPT ![n][e.file] = e.peers] \in [Nodes -> [Files -> Seq(Nodes) \cup {NoRecord}]]
    BY <1>4 DEF TInv, TypeOK
  <2>3. [queueLog EXCEPT ![n][e.file] = e.peers] \in [Nodes -> [Files -> Seq(Nodes) \cup {NoRecord}]]
    BY <1>4 DEF TInv, TypeOK
  <2>4. [filesLog EXCEPT ![n] = @ \cup {e.file}] \in [Nodes -> SUBSET Files]
    BY <1>4 DEF TInv, TypeOK
  <2>5. [errLog EXCEPT ![n] = @ \cup {e.file}] \in [Nodes -> SUBSET Files]
    BY <1>4 DEF TInv, TypeOK
  <2>. QED BY <2>1, <2>2, <2>3, <2>4, <2>5 DEF TInv, TypeOK
<1>6. fileLogQ' \in [Nodes -> Seq(Entry)] /\ \A m \in Nodes : Len(fileLogQ'[m]) <= MaxLog
  BY <1>2, <1>3 DEF TInv, TypeOK, LogStep
<1>. QED BY <1>5, <1>6 DEF TInv, TypeOK, TodoIsPeers, LogStep, history, Peers

\* FileInfos are added to what the nodes post.
LEMMA AddPosts ==
    ASSUME TInv, toPeers' \in [Nodes -> SUBSET Posting],
           \A m \in Nodes : \A t \in toPeers'[m] :
              t \in toPeers[m] \/ t.todo \subseteq Peers(m)
    PROVE  TodoIsPeers'
BY DEF TInv, TodoIsPeers, Peers

LEMMA ResendType ==
    ASSUME TInv, NEW n \in Nodes
    PROVE  Resend(n) \in SUBSET Posting /\ \A t \in Resend(n) : t.todo = Peers(n)
<1>. SUFFICES ASSUME NEW t \in Resend(n) PROVE t \in Posting /\ t.todo = Peers(n)
  OBVIOUS
<1>1. PICK f \in errLog[n] : ldb[n][f] # NoRecord /\ t = Post(n, f, With(ldb[n][f], n), 0)
  BY DEF Resend
<1>2. f \in Files /\ ldb[n][f] \in Seq(Nodes)
  BY <1>1 DEF TInv, TypeOK
<1>3. With(ldb[n][f], n) \in Seq(Nodes)
  BY <1>2, WithType
<1>. QED BY <1>1, <1>2, <1>3, PostType

LEMMA RecordsType ==
    ASSUME TInv, NEW n \in Nodes, NEW s \in SUBSET Files
    PROVE  Records(n, s) \in SUBSET Posting /\ \A t \in Records(n, s) : t.todo = Peers(n)
<1>. SUFFICES ASSUME NEW t \in Records(n, s) PROVE t \in Posting /\ t.todo = Peers(n)
  OBVIOUS
<1>1. PICK f \in s : ldb[n][f] # NoRecord /\ t = Post(n, f, ldb[n][f], 0)
  BY DEF Records
<1>2. f \in Files /\ ldb[n][f] \in Seq(Nodes)
  BY <1>1 DEF TInv, TypeOK
<1>. QED BY <1>1, <1>2, PostType

LEMMA RefreshTInv ==
    ASSUME TInv, NEW n \in Nodes, Refresh(n)
    PROVE  TInv'
<1>1. toPeers' \in [Nodes -> SUBSET Posting]
  BY ResendType DEF TInv, TypeOK, Refresh
<1>2. \A m \in Nodes : \A t \in toPeers'[m] : t \in toPeers[m] \/ t.todo \subseteq Peers(m)
  BY ResendType DEF TInv, TypeOK, Refresh
<1>3. TodoIsPeers'
  BY <1>1, <1>2, AddPosts
<1>. QED BY <1>1, <1>3 DEF TInv, TypeOK, Refresh, logs, history

LEMMA ExchangePosts ==
    ASSUME TInv, NEW n \in Nodes, NEW q \in Nodes, n # q, Exchange(n, q)
    PROVE  toPeers' \in [Nodes -> SUBSET Posting] /\ TodoIsPeers'
<1>. DEFINE A == Records(n, filesLog[n] \ filesLog[q])
            B == Records(q, filesLog[q] \ filesLog[n])
<1>1. A \in SUBSET Posting /\ \A t \in A : t.todo = Peers(n)
  BY RecordsType DEF TInv, TypeOK
<1>2. B \in SUBSET Posting /\ \A t \in B : t.todo = Peers(q)
  BY RecordsType DEF TInv, TypeOK
<1>3. toPeers' = [toPeers EXCEPT ![n] = @ \cup A, ![q] = @ \cup B]
  BY DEF Exchange
<1>. HIDE DEF A, B
<1>4. toPeers' \in [Nodes -> SUBSET Posting]
  BY <1>1, <1>2, <1>3 DEF TInv, TypeOK
<1>5. \A m \in Nodes : \A t \in toPeers'[m] : t \in toPeers[m] \/ t.todo \subseteq Peers(m)
  BY <1>1, <1>2, <1>3 DEF TInv, TypeOK
<1>. QED BY <1>4, <1>5, AddPosts

LEMMA SyncForcedPosts ==
    ASSUME TInv, SyncForced
    PROVE  toPeers' \in [Nodes -> SUBSET Posting] /\ TodoIsPeers'
<1>1. \A m \in Nodes : \A t \in toPeers'[m] :
         t \in toPeers[m] \/ (t \in Posting /\ t.todo = Peers(m))
  <2>. SUFFICES ASSUME NEW m \in Nodes, NEW t \in toPeers'[m], t \notin toPeers[m]
       PROVE  t \in Posting /\ t.todo = Peers(m)
    OBVIOUS
  <2>1. PICK f \in filesLog[m] : t = Post(m, f, <<m>>, 0)
    BY DEF SyncForced
  <2>2. f \in Files /\ <<m>> \in Seq(Nodes)
    BY DEF TInv, TypeOK
  <2>. QED BY <2>1, <2>2, PostType
<1>2. toPeers' = [m \in Nodes |-> toPeers'[m]]
  BY DEF SyncForced
<1>3. toPeers' \in [Nodes -> SUBSET Posting]
  BY <1>1, <1>2 DEF TInv, TypeOK
<1>. QED BY <1>1, <1>3, AddPosts

LEMMA RepairTInv ==
    ASSUME TInv, NEW n \in Nodes, ByHand(n) \/ \E q \in Peers(n) : AutoRepair(n, q)
    PROVE  TInv'
<1>1. SyncForced \/ \E q \in Peers(n) : Exchange(n, q)
  BY DEF ByHand, AutoRepair
<1>2. toPeers' \in [Nodes -> SUBSET Posting] /\ TodoIsPeers'
  BY <1>1, ExchangePosts, SyncForcedPosts DEF Peers
<1>3. faults' \in [post : Nat, download : Nat, crash : Nat, repair : Nat]
  <2>1. faults.repair + 1 \in Nat
    BY DEF TInv, TypeOK
  <2>. QED BY <2>1 DEF TInv, TypeOK, ByHand, AutoRepair
<1>. QED BY <1>1, <1>2, <1>3 DEF TInv, TypeOK, Exchange, SyncForced, logs, history

LEMMA CrashTInv ==
    ASSUME TInv, NEW n \in Nodes, Crash(n)
    PROVE  TInv'
<1>1. Forgotten(n) \in SUBSET Files /\ {t.file : t \in toPeers[n]} \in SUBSET Files
  BY DEF TInv, TypeOK, Forgotten, Fetching, Posting
<1>2. {e.file : e \in Entries(n, "errors")} \in SUBSET Files
  <2>. SUFFICES ASSUME NEW e \in Entries(n, "errors") PROVE e.file \in Files
    OBVIOUS
  <2>1. PICK i \in 1 .. Len(fileLogQ[n]) : e = fileLogQ[n][i]
    BY DEF Entries
  <2>2. e \in Entry
    BY <2>1 DEF TInv, TypeOK
  <2>. QED BY <2>2 DEF Entry
<1>3. lost' \in [Nodes -> SUBSET Files] /\ unsent' \in [Nodes -> SUBSET Files]
  BY <1>1, <1>2 DEF TInv, TypeOK, Crash
<1>4. faults' \in [post : Nat, download : Nat, crash : Nat, repair : Nat]
  <2>1. faults.crash + 1 \in Nat
    BY DEF TInv, TypeOK
  <2>. QED BY <2>1 DEF TInv, TypeOK, Crash
<1>5. fileLogQ' \in [Nodes -> Seq(Entry)] /\ \A m \in Nodes : Len(fileLogQ'[m]) <= MaxLog
  BY ReplicationAssumption DEF TInv, TypeOK, Crash
<1>6. toPeers' \in [Nodes -> SUBSET Posting] /\ fromPeers' \in [Nodes -> SUBSET Fetching]
  BY DEF TInv, TypeOK, Crash
<1>7. TodoIsPeers'
  BY DEF TInv, TypeOK, TodoIsPeers, Crash, Peers
<1>. QED BY <1>3, <1>4, <1>5, <1>6, <1>7 DEF TInv, TypeOK, Crash, logs

LEMMA RestartTInv ==
    ASSUME TInv, NEW n \in Nodes, Restart(n)
    PROVE  TInv'
<1>. DEFINE F == {Fetch(f, queueLog[n][f]) : f \in {g \in Files : queueLog[n][g] # NoRecord}}
<1>1. F \in SUBSET Fetching
  <2>. SUFFICES ASSUME NEW f \in Files, queueLog[n][f] # NoRecord
       PROVE  Fetch(f, queueLog[n][f]) \in Fetching
    OBVIOUS
  <2>1. queueLog[n][f] \in Seq(Nodes)
    BY DEF TInv, TypeOK
  <2>. QED BY <2>1 DEF Fetch, Fetching
<1>2. toPeers' \in [Nodes -> SUBSET Posting]
  BY ResendType DEF TInv, TypeOK, Restart
<1>3. TodoIsPeers'
  <2>1. \A m \in Nodes : \A t \in toPeers'[m] : t \in toPeers[m] \/ t.todo \subseteq Peers(m)
    BY ResendType DEF TInv, TypeOK, Restart
  <2>. QED BY <1>2, <2>1, AddPosts
<1>4. fromPeers' \in [Nodes -> SUBSET Fetching]
  BY <1>1 DEF TInv, TypeOK, Restart
<1>. QED BY <1>2, <1>3, <1>4 DEF TInv, TypeOK, Restart, logs, history

LEMMA NextTInv == TInv /\ [Next]_vars => TInv'
<1>. SUFFICES ASSUME TInv, [Next]_vars PROVE TInv'
  OBVIOUS
<1>1. CASE UNCHANGED vars
  BY <1>1 DEF TInv, TypeOK, TodoIsPeers, vars, Peers
<1>2. CASE Next
  BY <1>2, UploadTInv, PostStepTInv, PostFaultTInv, DownloadTInv, LogStepTInv,
     RefreshTInv, RepairTInv, CrashTInv, RestartTInv DEF Next, Repair
<1>. QED BY <1>1, <1>2

\* Types, and queueFileLog within its capacity.
THEOREM TypeCorrect == Spec => []TypeOK
BY InitTInv, NextTInv, PTL DEF Spec, TInv

-----------------------------------------------------------------------------
(* The inductive invariant: every list of peers in the cluster, in records,*)
(* queue.md5, queueFileLog, posts and downloads, names nodes that have the *)
(* file or will, each of them once, and begins with one that has it.       *)

\* f is on q's disk or about to be, or q gave it up.
Served(q, f) == f \in disk[q] \/ Downloading(q, f) \/ f \in lost[q]

\* No node is in the list twice.
Once(peers) == \A i, j \in 1 .. Len(peers) : peers[i] = peers[j] => i = j

Named(f, peers) ==
    /\ peers # <<>> /\ Once(peers)
    /\ f \in disk[peers[1]]
    /\ \A q \in Nodes : Has(peers, q) => Served(q, f)

RecordsNamed == \A n \in Nodes, f \in Files :
    /\ ldb[n][f] # NoRecord => Named(f, ldb[n][f])
    /\ queueLog[n][f] # NoRecord => Named(f, queueLog[n][f])

EntriesNamed == \A n \in Nodes, e \in Entry : Has(fileLogQ[n], e) =>
    /\ Named(e.file, e.peers)
    /\ e.kind = "files" => e.file \in disk[n]

PostsNamed == \A n \in Nodes : \A t \in toPeers[n] : Named(t.file, t.peers)

FetchesNamed == \A n \in Nodes : \A d \in fromPeers[n] :
    /\ Named(d.file, d.peers)
    /\ d.got => d.file \in disk[n]

\* A node that is down downloads nothing.
DownIsIdle == \A n \in Nodes : n \notin up => fromPeers[n] = {}

\* Only what was uploaded is anywhere.
OnDiskUploaded == \A n \in Nodes : disk[n] \subseteq uploaded

ListsNamed == RecordsNamed /\ EntriesNamed /\ PostsNamed /\ FetchesNamed

IInv == TInv /\ RecordHasFile /\ ListsNamed /\ DownIsIdle /\ OnDiskUploaded

\* No step takes a file from a node, or the prospect of one.
Stays ==
    /\ \A n \in Nodes : disk[n] \subseteq disk'[n]
    /\ \A q \in Nodes, f \in Files : Served(q, f) => Served(q, f)'

\* What a step adds to records, logs, queues, posts and downloads is named.
NewNamed ==
    /\ \A n \in Nodes, f \in Files, peers \in Seq(Nodes) :
         /\ ldb'[n][f] = peers => ldb[n][f] = peers \/ (Named(f, peers)' /\ f \in disk'[n])
         /\ queueLog'[n][f] = peers => queueLog[n][f] = peers \/ Named(f, peers)'
    /\ \A n \in Nodes : filesLog'[n] \subseteq filesLog[n] \cup disk'[n]
    /\ \A n \in Nodes, e \in Entry : Has(fileLogQ'[n], e) =>
         \/ Has(fileLogQ[n], e)
         \/ Named(e.file, e.peers)' /\ (e.kind = "files" => e.file \in disk'[n])
    /\ \A n \in Nodes : \A t \in toPeers'[n] : t \in toPeers[n] \/ Named(t.file, t.peers)'
    /\ \A n \in Nodes : \A d \in fromPeers'[n] :
         \/ d \in fromPeers[n]
         \/ Named(d.file, d.peers)' /\ (d.got => d.file \in disk'[n])

LEMMA HasAppend ==
    ASSUME NEW S, NEW s \in Seq(S), NEW e \in S, NEW x
    PROVE  Has(Append(s, e), x) <=> Has(s, x) \/ x = e
<1>1. Len(Append(s, e)) = Len(s) + 1 /\ Len(s) \in Nat
  OBVIOUS
<1>2. Append(s, e)[Len(s) + 1] = e /\ \A i \in 1 .. Len(s) : Append(s, e)[i] = s[i]
  OBVIOUS
<1>3. \A i \in 1 .. Len(s) + 1 : i = Len(s) + 1 \/ i \in 1 .. Len(s)
  BY <1>1
<1>4. Len(s) + 1 \in 1 .. Len(s) + 1 /\ \A i \in 1 .. Len(s) : i \in 1 .. Len(s) + 1
  BY <1>1
<1>. QED BY <1>1, <1>2, <1>3, <1>4 DEF Has

LEMMA HasTail ==
    ASSUME NEW S, NEW s \in Seq(S), s # <<>>, NEW x, Has(Tail(s), x)
    PROVE  Has(s, x)
<1>1. PICK i \in 1 .. Len(Tail(s)) : Tail(s)[i] = x
  BY DEF Has
<1>2. i + 1 \in 1 .. Len(s) /\ s[i + 1] = x
  BY <1>1
<1>. QED BY <1>2 DEF Has

LEMMA HasHead ==
    ASSUME NEW S, NEW s \in Seq(S), s # <<>>
    PROVE  Has(s, Head(s))
<1>1. 1 \in 1 .. Len(s) /\ s[1] = Head(s)
  OBVIOUS
<1>. QED BY <1>1 DEF Has

LEMMA OnceAppend ==
    ASSUME NEW S, NEW s \in Seq(S), NEW e \in S, Once(s), ~Has(s, e)
    PROVE  Once(Append(s, e))
<1>1. Len(Append(s, e)) = Len(s) + 1 /\ Len(s) \in Nat
  OBVIOUS
<1>2. Append(s, e)[Len(s) + 1] = e /\ \A i \in 1 .. Len(s) : Append(s, e)[i] = s[i]
  OBVIOUS
<1>3. \A i \in 1 .. Len(s) + 1 : i = Len(s) + 1 \/ i \in 1 .. Len(s)
  BY <1>1
<1>. QED BY <1>1, <1>2, <1>3 DEF Once, Has

LEMMA NamedStays ==
    ASSUME Stays, NEW f \in Files, NEW peers \in Seq(Nodes), Named(f, peers)
    PROVE  Named(f, peers)'
<1>1. peers[1] \in Nodes
  BY DEF Named
<1>. QED BY <1>1 DEF Named, Once, Stays

LEMMA NamedSelf ==
    ASSUME NEW n \in Nodes, NEW f \in Files, f \in disk'[n]
    PROVE  Named(f, <<n>>)'
<1>1. <<n>> # <<>> /\ <<n>>[1] = n /\ Once(<<n>>) /\ \A q : Has(<<n>>, q) => q = n
  BY DEF Has, Once
<1>. QED BY <1>1 DEF Named, Served

LEMMA NamedAppend ==
    ASSUME NEW f \in Files, NEW peers \in Seq(Nodes), Named(f, peers)',
           NEW q \in Nodes, Served(q, f)', ~Has(peers, q)
    PROVE  Named(f, Append(peers, q))'
<1>1. Append(peers, q) # <<>> /\ Append(peers, q)[1] = peers[1]
  BY DEF Named
<1>2. Once(Append(peers, q))
  BY OnceAppend DEF Named
<1>. QED BY <1>1, <1>2, HasAppend DEF Named

LEMMA NamedWith ==
    ASSUME NEW f \in Files, NEW peers \in Seq(Nodes), Named(f, peers)',
           NEW q \in Nodes, Served(q, f)'
    PROVE  Named(f, With(peers, q))'
BY NamedAppend DEF With

LEMMA ListsStep ==
    ASSUME IInv, TInv', Stays, NewNamed
    PROVE  RecordHasFile' /\ ListsNamed'
<1>1. RecordHasFile'
  BY DEF IInv, TInv, TypeOK, RecordHasFile, Stays, NewNamed
<1>2. RecordsNamed'
  BY NamedStays DEF IInv, TInv, TypeOK, ListsNamed, RecordsNamed, NewNamed
<1>3. EntriesNamed'
  <2>. SUFFICES ASSUME NEW n \in Nodes, NEW e \in Entry, Has(fileLogQ'[n], e)
       PROVE  Named(e.file, e.peers)' /\ (e.kind = "files" => e.file \in disk'[n])
    BY DEF EntriesNamed
  <2>1. e.file \in Files /\ e.peers \in Seq(Nodes)
    BY DEF Entry
  <2>. QED BY <2>1, NamedStays DEF IInv, ListsNamed, EntriesNamed, NewNamed, Stays
<1>4. PostsNamed'
  <2>. SUFFICES ASSUME NEW n \in Nodes, NEW t \in toPeers'[n]
       PROVE  Named(t.file, t.peers)'
    BY DEF PostsNamed
  <2>1. t.file \in Files /\ t.peers \in Seq(Nodes)
    BY DEF TInv, TypeOK, Posting
  <2>. QED BY <2>1, NamedStays DEF IInv, ListsNamed, PostsNamed, NewNamed
<1>5. FetchesNamed'
  <2>. SUFFICES ASSUME NEW n \in Nodes, NEW d \in fromPeers'[n]
       PROVE  Named(d.file, d.peers)' /\ (d.got => d.file \in disk'[n])
    BY DEF FetchesNamed
  <2>1. d.file \in Files /\ d.peers \in Seq(Nodes)
    BY DEF TInv, TypeOK, Fetching
  <2>. QED BY <2>1, NamedStays DEF IInv, ListsNamed, FetchesNamed, NewNamed, Stays
<1>. QED BY <1>1, <1>2, <1>3, <1>4, <1>5 DEF ListsNamed

-----------------------------------------------------------------------------
(* Nothing is taken away.                                                  *)

\* A step that keeps files, downloads, queue.md5, nodes up and losses.
LEMMA StaysSame ==
    ASSUME IInv, \A n \in Nodes : disk[n] \subseteq disk'[n],
           up' = up, queueLog' = queueLog, lost' = lost,
           \A q \in Nodes : \A d \in fromPeers[q] :
              \/ d.file \in disk'[q]
              \/ \E c \in fromPeers'[q] : c.file = d.file
    PROVE  Stays
BY DEF Stays, Served, Downloading

LEMMA SyncFileInfoGrows ==
    ASSUME IInv, NEW q \in Nodes, NEW t, SyncFileInfo(q, t)
    PROVE  \A m \in Nodes : fromPeers[m] \subseteq fromPeers'[m]
BY DEF IInv, TInv, TypeOK, SyncFileInfo

LEMMA PostStays ==
    ASSUME IInv, NEW n \in Nodes, PostStep(n) \/ PostFault(n)
    PROVE  Stays
<1>1. up' = up /\ disk' = disk /\ queueLog' = queueLog /\ lost' = lost
  BY DEF PostStep, PostFault, PostSkip, PostKnown, PostOk, PostDone, PostFails,
         PostUnanswered, logs, history
<1>2. fromPeers' = fromPeers \/ \E t \in toPeers[n] : \E q \in t.todo : SyncFileInfo(q, t)
  BY DEF PostStep, PostFault, PostSkip, PostKnown, PostOk, PostDone, PostFails, PostUnanswered
<1>3. \A m \in Nodes : fromPeers[m] \subseteq fromPeers'[m]
  BY <1>2, SyncFileInfoGrows DEF IInv, TInv, TodoIsPeers, Peers
<1>. QED BY <1>1, <1>3, StaysSame

LEMMA DownloadStays ==
    ASSUME IInv, NEW n \in Nodes, DownloadStep(n) \/ DownloadFault(n)
    PROVE  Stays
<1>1. PICK d \in fromPeers[n] :
        \/ DownloadGivenUp(n, d) \/ DownloadNeedless(n, d) \/ DownloadFile(n, d)
        \/ DownloadLogged(n, d) \/ DownloadFails(n, d)
  BY DEF DownloadStep, DownloadFault
<1>2. d \in Fetching /\ Named(d.file, d.peers) /\ (d.got => d.file \in disk[n])
  BY DEF IInv, TInv, TypeOK, ListsNamed, FetchesNamed
<1>3. CASE DownloadGivenUp(n, d)
  <2>1. /\ up' = up /\ disk' = disk /\ queueLog' = queueLog
        /\ fromPeers' = [fromPeers EXCEPT ![n] = @ \ {d}]
        /\ lost' = [lost EXCEPT ![n] = @ \cup {d.file}]
    BY <1>3 DEF DownloadGivenUp, Drop, logs
  <2>. QED BY <2>1 DEF Stays, Served, Downloading, IInv, TInv, TypeOK
<1>4. CASE DownloadNeedless(n, d)
  <2>1. /\ up' = up /\ disk' = disk /\ queueLog' = queueLog /\ lost' = lost
        /\ fromPeers' = [fromPeers EXCEPT ![n] = @ \ {d}]
    BY <1>4 DEF DownloadNeedless, Drop, logs, history
  <2>2. d.file \in disk[n]
    <3>1. CASE d.file \notin disk[n]
      <4>1. \A i \in 1 .. Len(d.peers) : d.peers[i] = n
        BY <1>4, <3>1 DEF DownloadNeedless
      <4>2. 1 \in 1 .. Len(d.peers)
        BY <1>2 DEF Named, Fetching
      <4>. QED BY <1>2, <4>1, <4>2 DEF Named
    <3>. QED BY <3>1
  <2>. QED BY <2>1, <2>2, StaysSame DEF IInv, TInv, TypeOK
<1>5. CASE DownloadFile(n, d)
  <2>1. /\ up' = up /\ queueLog' = queueLog /\ lost' = lost
        /\ disk' = [disk EXCEPT ![n] = @ \cup {d.file}]
        /\ fromPeers' = [fromPeers EXCEPT ![n] = (@ \ {d}) \cup {[d EXCEPT !.got = TRUE]}]
    BY <1>5 DEF DownloadFile, logs, history
  <2>. QED BY <2>1, StaysSame DEF IInv, TInv, TypeOK
<1>6. CASE DownloadLogged(n, d)
  <2>1. /\ up' = up /\ disk' = disk /\ queueLog' = queueLog /\ lost' = lost /\ d.got
        /\ fromPeers' = [fromPeers EXCEPT ![n] = @ \ {d}]
    BY <1>6 DEF DownloadLogged, Drop, logs, history
  <2>. QED BY <1>2, <2>1, StaysSame DEF IInv, TInv, TypeOK
<1>7. CASE DownloadFails(n, d)
  <2>1. /\ up' = up /\ disk' = disk /\ queueLog' = queueLog /\ lost' = lost
        /\ fromPeers' = [fromPeers EXCEPT ![n] = (@ \ {d}) \cup {[d EXCEPT !.retry = @ + 1]}]
    BY <1>7 DEF DownloadFails, logs, history
  <2>2. [d EXCEPT !.retry = @ + 1].file = d.file
    BY <1>2 DEF Fetching
  <2>. QED BY <2>1, <2>2, StaysSame DEF IInv, TInv, TypeOK
<1>. QED BY <1>1, <1>3, <1>4, <1>5, <1>6, <1>7

LEMMA LogStepStays ==
    ASSUME IInv, NEW n \in Nodes, LogStep(n)
    PROVE  Stays
<1>1. up' = up /\ disk' = disk /\ fromPeers' = fromPeers /\ lost' = lost /\ n \in up
  BY DEF LogStep, history
\* Only a running node's queue.md5 changes, and its downloads are in hand.
<1>2. \A q \in Nodes, f \in Files : q \notin up => queueLog'[q][f] = queueLog[q][f]
  <2>1. queueLog' = queueLog \/ \E f, peers : queueLog' = [queueLog EXCEPT ![n][f] = peers]
    BY DEF LogStep, logs
  <2>. QED BY <1>1, <2>1 DEF IInv, TInv, TypeOK
<1>. QED BY <1>1, <1>2 DEF Stays, Served, Downloading

LEMMA CrashStays ==
    ASSUME IInv, NEW n \in Nodes, Crash(n)
    PROVE  Stays
<1>1. /\ disk' = disk /\ queueLog' = queueLog /\ up' = up \ {n}
      /\ fromPeers' = [fromPeers EXCEPT ![n] = {}]
      /\ lost' = [lost EXCEPT ![n] = @ \cup Forgotten(n)]
  BY DEF Crash, logs
<1>2. \A d \in fromPeers[n] : queueLog[n][d.file] # NoRecord \/ d.file \in lost'[n]
  BY <1>1 DEF Forgotten, IInv, TInv, TypeOK
<1>. QED BY <1>1, <1>2 DEF Stays, Served, Downloading, IInv, TInv, TypeOK

LEMMA RestartStays ==
    ASSUME IInv, NEW n \in Nodes, Restart(n)
    PROVE  Stays
<1>. DEFINE F == {Fetch(f, queueLog[n][f]) : f \in {g \in Files : queueLog[n][g] # NoRecord}}
<1>1. /\ disk' = disk /\ queueLog' = queueLog /\ lost' = lost /\ up' = up \cup {n}
      /\ n \notin up /\ fromPeers' = [fromPeers EXCEPT ![n] = F]
  BY DEF Restart, logs, history
<1>2. \A f \in Files : queueLog[n][f] # NoRecord => \E d \in F : d.file = f
  <2>. SUFFICES ASSUME NEW f \in Files, queueLog[n][f] # NoRecord
       PROVE  \E d \in F : d.file = f
    OBVIOUS
  <2>1. Fetch(f, queueLog[n][f]) \in F /\ Fetch(f, queueLog[n][f]).file = f
    BY DEF Fetch
  <2>. QED BY <2>1
<1>3. fromPeers[n] = {}
  BY <1>1 DEF IInv, DownIsIdle
<1>. HIDE DEF F
<1>. QED BY <1>1, <1>2, <1>3 DEF Stays, Served, Downloading, IInv, TInv, TypeOK

LEMMA StaysStep == IInv /\ Next => Stays
<1>. SUFFICES ASSUME IInv, Next PROVE Stays
  OBVIOUS
<1>. PICK n \in Nodes :
        \/ \E f \in Files : Upload(n, f)
        \/ PostStep(n) \/ PostFault(n)
        \/ DownloadStep(n) \/ DownloadFault(n)
        \/ LogStep(n)
        \/ Repair(n)
        \/ Crash(n) \/ Restart(n)
  BY DEF Next
<1>1. CASE \E f \in Files : Upload(n, f)
  <2>1. up' = up /\ queueLog' = queueLog /\ lost' = lost /\ fromPeers' = fromPeers
    BY <1>1 DEF Upload, logs
  <2>2. \A m \in Nodes : disk[m] \subseteq disk'[m]
    BY <1>1 DEF Upload, IInv, TInv, TypeOK
  <2>. QED BY <2>1, <2>2, StaysSame
<1>2. CASE Repair(n)
  <2>1. /\ up' = up /\ queueLog' = queueLog /\ lost' = lost /\ fromPeers' = fromPeers
        /\ disk' = disk
    BY <1>2 DEF Repair, Refresh, ByHand, AutoRepair, Exchange, SyncForced, logs, history
  <2>. QED BY <2>1, StaysSame
<1>. QED BY <1>1, <1>2, PostStays, DownloadStays, LogStepStays, CrashStays, RestartStays

-----------------------------------------------------------------------------
(* What is added is named.                                                 *)

\* A step that changes neither records, files.md5 and queue.md5 nor ...
LEMMA LogsSame ==
    ASSUME ldb' = ldb, filesLog' = filesLog, queueLog' = queueLog
    PROVE  /\ \A n \in Nodes, f \in Files, peers \in Seq(Nodes) :
                /\ ldb'[n][f] = peers => ldb[n][f] = peers \/ (Named(f, peers)' /\ f \in disk'[n])
                /\ queueLog'[n][f] = peers => queueLog[n][f] = peers \/ Named(f, peers)'
           /\ \A n \in Nodes : filesLog'[n] \subseteq filesLog[n] \cup disk'[n]
OBVIOUS

\* SaveFileInfoToLevelDB with a named list.
LEMMA SaveRecordNamed ==
    ASSUME IInv, NEW n \in Nodes, NEW f \in Files, NEW L \in Seq(Nodes),
           Named(f, L)', f \in disk'[n], SaveRecord(n, f, L), queueLog' = queueLog
    PROVE  /\ \A m \in Nodes, g \in Files, peers \in Seq(Nodes) :
                /\ ldb'[m][g] = peers => ldb[m][g] = peers \/ (Named(g, peers)' /\ g \in disk'[m])
                /\ queueLog'[m][g] = peers => queueLog[m][g] = peers \/ Named(g, peers)'
           /\ \A m \in Nodes : filesLog'[m] \subseteq filesLog[m] \cup disk'[m]
BY DEF IInv, TInv, TypeOK, SaveRecord

\* One more entry in a queueFileLog.
LEMMA AppendNamed ==
    ASSUME NEW Q \in [Nodes -> Seq(Entry)], NEW n \in Nodes, NEW x \in Entry,
           NEW m \in Nodes, NEW e, Has([Q EXCEPT ![n] = Append(@, x)][m], e)
    PROVE  Has(Q[m], e) \/ e = x
<1>1. CASE m = n
  <2>1. [Q EXCEPT ![n] = Append(@, x)][m] = Append(Q[m], x)
    BY <1>1
  <2>. QED BY <2>1, HasAppend
<1>2. CASE m # n
  BY <1>2
<1>. QED BY <1>1, <1>2

LEMMA UploadNamed ==
    ASSUME IInv, NEW n \in Nodes, NEW f \in Files, Upload(n, f)
    PROVE  NewNamed
<1>1. f \in disk'[n]
  BY DEF Upload, IInv, TInv, TypeOK
<1>2. Named(f, <<n>>)' /\ <<n>> \in Seq(Nodes)
  BY <1>1, NamedSelf
<1>3. SaveRecord(n, f, <<n>>) /\ queueLog' = queueLog
  BY DEF Upload, logs
<1>4. \A m \in Nodes : \A t \in toPeers'[m] : t \in toPeers[m] \/ Named(t.file, t.peers)'
  <2>1. toPeers' = [toPeers EXCEPT ![n] = @ \cup {Post(n, f, <<n>>, 0)}]
    BY DEF Upload
  <2>2. Post(n, f, <<n>>, 0).file = f /\ Post(n, f, <<n>>, 0).peers = <<n>>
    BY DEF Post
  <2>. QED BY <1>2, <2>1, <2>2 DEF IInv, TInv, TypeOK
<1>5. fileLogQ' = fileLogQ /\ fromPeers' = fromPeers
  BY DEF Upload
<1>. QED BY <1>1, <1>2, <1>3, <1>4, <1>5, SaveRecordNamed DEF NewNamed

\* SyncFileInfo with a named list.
LEMMA SyncFileInfoNamed ==
    ASSUME IInv, Stays, NEW n \in Nodes, NEW t \in toPeers[n], NEW q \in Nodes,
           SyncFileInfo(q, t)
    PROVE  /\ \A m \in Nodes : \A d \in fromPeers'[m] :
                \/ d \in fromPeers[m]
                \/ Named(d.file, d.peers)' /\ (d.got => d.file \in disk'[m])
           /\ Served(q, t.file)'
<1>1. fromPeers' = [fromPeers EXCEPT ![q] = @ \cup {Fetch(t.file, t.peers)}]
  BY DEF SyncFileInfo
<1>2. t.file \in Files /\ t.peers \in Seq(Nodes) /\ Named(t.file, t.peers)
  BY DEF IInv, TInv, TypeOK, Posting, ListsNamed, PostsNamed
<1>3. Named(t.file, t.peers)'
  BY <1>2, NamedStays
<1>4. /\ Fetch(t.file, t.peers).file = t.file /\ Fetch(t.file, t.peers).peers = t.peers
      /\ Fetch(t.file, t.peers).got = FALSE
  BY DEF Fetch
<1>5. \E d \in fromPeers'[q] : d.file = t.file
  BY <1>1, <1>4 DEF IInv, TInv, TypeOK
<1>. QED BY <1>1, <1>3, <1>4, <1>5 DEF IInv, TInv, TypeOK, Served, Downloading

LEMMA PostStepNamed ==
    ASSUME IInv, TInv', Stays, NEW n \in Nodes, PostStep(n)
    PROVE  NewNamed
<1>. PICK t \in toPeers[n] :
        \/ \E q \in t.todo :
             PostSkip(n, t, q) \/ PostKnown(n, t, q) \/ PostOk(n, t, q)
        \/ PostDone(n, t)
  BY DEF PostStep
<1>1. t \in Posting /\ t.todo \subseteq Nodes
  BY DEF IInv, TInv, TypeOK, TodoIsPeers, Peers
<1>2. t.file \in Files /\ t.peers \in Seq(Nodes) /\ Named(t.file, t.peers)
  BY <1>1 DEF Posting, IInv, ListsNamed, PostsNamed
<1>3. Named(t.file, t.peers)'
  BY <1>2, NamedStays
<1>4. CASE PostDone(n, t)
  BY <1>4, LogsSame DEF PostDone, NextPost, logs, NewNamed, IInv, TInv, TypeOK
<1>5. ASSUME NEW q \in t.todo, PostSkip(n, t, q)
      PROVE  NewNamed
  <2>1. \A m \in Nodes : \A u \in toPeers'[m] :
          u \in toPeers[m] \/ (u.file = t.file /\ u.peers = t.peers)
    BY <1>1, <1>5 DEF PostSkip, NextPost, IInv, TInv, TypeOK, Posting
  <2>. QED BY <1>3, <1>5, <2>1, LogsSame DEF PostSkip, logs, NewNamed
\* PostKnown and PostOk: the peer is named from now on.
<1>6. ASSUME NEW q \in t.todo, NextPost(n, t, {[t EXCEPT !.peers = Append(@, q), !.todo = @ \ {q}]})
      PROVE  \A m \in Nodes : \A u \in toPeers'[m] :
               u \in toPeers[m] \/ (u.file = t.file /\ u.peers = Append(t.peers, q))
  <2>1. /\ [t EXCEPT !.peers = Append(@, q), !.todo = @ \ {q}].file = t.file
        /\ [t EXCEPT !.peers = Append(@, q), !.todo = @ \ {q}].peers = Append(t.peers, q)
    BY <1>1 DEF Posting
  <2>. QED BY <1>6, <2>1 DEF NextPost, IInv, TInv, TypeOK
<1>7. ASSUME NEW q \in t.todo, Served(q, t.file)', ~Has(t.peers, q)
      PROVE  Named(t.file, Append(t.peers, q))' /\ Append(t.peers, q) \in Seq(Nodes)
  BY <1>1, <1>2, <1>3, <1>7, NamedAppend
<1>8. t.file \in disk[n] => t.file \in disk'[n]
  BY DEF Stays
<1>9. ASSUME NEW q \in t.todo, PostKnown(n, t, q)
      PROVE  NewNamed
  <2>1. Served(q, t.file)'
    BY <1>1, <1>2, <1>9 DEF PostKnown, Known, Served, Stays
  <2>2. /\ SaveRecord(n, t.file, Append(t.peers, q)) /\ queueLog' = queueLog
        /\ fileLogQ' = fileLogQ /\ fromPeers' = fromPeers /\ t.file \in disk'[n]
        /\ NextPost(n, t, {[t EXCEPT !.peers = Append(@, q), !.todo = @ \ {q}]})
    BY <1>8, <1>9 DEF PostKnown, Postable, logs
  <2>3. Named(t.file, Append(t.peers, q))' /\ Append(t.peers, q) \in Seq(Nodes)
    BY <1>7, <1>9, <2>1 DEF PostKnown, Postable
  <2>4. \A m \in Nodes : \A u \in toPeers'[m] : u \in toPeers[m] \/ Named(u.file, u.peers)'
    BY <1>6, <2>2, <2>3
  <2>5. /\ \A m \in Nodes, g \in Files, peers \in Seq(Nodes) :
             /\ ldb'[m][g] = peers => ldb[m][g] = peers \/ (Named(g, peers)' /\ g \in disk'[m])
             /\ queueLog'[m][g] = peers => queueLog[m][g] = peers \/ Named(g, peers)'
        /\ \A m \in Nodes : filesLog'[m] \subseteq filesLog[m] \cup disk'[m]
    BY <1>2, <2>2, <2>3, SaveRecordNamed
  <2>. QED BY <2>2, <2>4, <2>5 DEF NewNamed
<1>10. ASSUME NEW q \in t.todo, PostOk(n, t, q)
       PROVE  NewNamed
  <2>1. /\ SaveRecord(n, t.file, Append(t.peers, q)) /\ queueLog' = queueLog
        /\ fileLogQ' = [fileLogQ EXCEPT ![q] = Append(@, QueueEntry(t))]
        /\ SyncFileInfo(q, t) /\ t.file \in disk'[n]
        /\ NextPost(n, t, {[t EXCEPT !.peers = Append(@, q), !.todo = @ \ {q}]})
    BY <1>8, <1>10 DEF PostOk, Postable, logs
  <2>2. Served(q, t.file)'
    BY <1>1, <2>1, SyncFileInfoNamed
  <2>3. /\ QueueEntry(t) \in Entry /\ QueueEntry(t).file = t.file
        /\ QueueEntry(t).peers = t.peers /\ QueueEntry(t).kind # "files"
    BY <1>2 DEF QueueEntry, Entry
  <2>4. \A m \in Nodes, e \in Entry : Has(fileLogQ'[m], e) => Has(fileLogQ[m], e) \/ e = QueueEntry(t)
    BY <1>1, <2>1, <2>3, AppendNamed DEF IInv, TInv, TypeOK
  <2>5. \A m \in Nodes : \A d \in fromPeers'[m] :
          \/ d \in fromPeers[m]
          \/ Named(d.file, d.peers)' /\ (d.got => d.file \in disk'[m])
    BY <1>1, <2>1, SyncFileInfoNamed
  <2>6. Named(t.file, Append(t.peers, q))' /\ Append(t.peers, q) \in Seq(Nodes)
    BY <1>7, <1>10, <2>2 DEF PostOk, Postable
  <2>7. \A m \in Nodes : \A u \in toPeers'[m] : u \in toPeers[m] \/ Named(u.file, u.peers)'
    BY <1>6, <2>1, <2>6
  <2>8. /\ \A m \in Nodes, g \in Files, peers \in Seq(Nodes) :
             /\ ldb'[m][g] = peers => ldb[m][g] = peers \/ (Named(g, peers)' /\ g \in disk'[m])
             /\ queueLog'[m][g] = peers => queueLog[m][g] = peers \/ Named(g, peers)'
        /\ \A m \in Nodes : filesLog'[m] \subseteq filesLog[m] \cup disk'[m]
    BY <1>2, <2>1, <2>6, SaveRecordNamed
  <2>. QED BY <1>3, <2>3, <2>4, <2>5, <2>7, <2>8 DEF NewNamed
<1>. QED BY <1>4, <1>5, <1>9, <1>10

\* What is posted again is the same list.
LEMMA RetriedIs ==
    ASSUME NEW n, NEW t \in Posting, NEW q
    PROVE  \A u \in Retried(n, t, q) : u.file = t.file /\ u.peers = t.peers
<1>1. /\ [t EXCEPT !.retry = @ + 1, !.todo = @ \ {q}].file = t.file
      /\ [t EXCEPT !.retry = @ + 1, !.todo = @ \ {q}].peers = t.peers
      /\ [t EXCEPT !.todo = @ \ {q}].file = t.file
      /\ [t EXCEPT !.todo = @ \ {q}].peers = t.peers
  BY DEF Posting
<1>2. /\ Post(n, t.file, t.peers, t.retry + 1).file = t.file
      /\ Post(n, t.file, t.peers, t.retry + 1).peers = t.peers
  BY DEF Post
<1>. QED BY <1>1, <1>2 DEF Retried

LEMMA PostFaultNamed ==
    ASSUME IInv, TInv', Stays, NEW n \in Nodes, PostFault(n)
    PROVE  NewNamed
<1>. PICK t \in toPeers[n] :
        \E q \in t.todo : PostFails(n, t, q) \/ PostUnanswered(n, t, q)
  BY DEF PostFault
<1>1. PICK q \in t.todo : PostFails(n, t, q) \/ PostUnanswered(n, t, q)
  OBVIOUS
<1>2. t \in Posting /\ q \in Nodes /\ q # n
  BY DEF IInv, TInv, TypeOK, TodoIsPeers, Peers
<1>3. t.file \in Files /\ t.peers \in Seq(Nodes) /\ t.retry \in Nat /\ Named(t.file, t.peers)
  BY <1>2 DEF Posting, IInv, ListsNamed, PostsNamed
<1>4. Named(t.file, t.peers)'
  BY <1>3, NamedStays
<1>5. ldb' = ldb /\ filesLog' = filesLog /\ queueLog' = queueLog
  BY <1>1 DEF PostFails, PostUnanswered, logs
<1>6. \A u \in Retried(n, t, q) : u.file = t.file /\ u.peers = t.peers
  BY <1>2, RetriedIs
<1>7. \A m \in Nodes : \A u \in toPeers'[m] : u \in toPeers[m] \/ Named(u.file, u.peers)'
  <2>1. NextPost(n, t, Retried(n, t, q))
    BY <1>1 DEF PostFails, PostUnanswered
  <2>2. \A m \in Nodes : \A u \in toPeers'[m] : u \in toPeers[m] \/ u \in Retried(n, t, q)
    BY <2>1 DEF NextPost, IInv, TInv, TypeOK
  <2>. QED BY <1>4, <1>6, <2>2
<1>8. /\ ErrorEntry(t) \in Entry /\ ErrorEntry(t).file = t.file
      /\ ErrorEntry(t).peers = t.peers /\ ErrorEntry(t).kind # "files"
      /\ QueueEntry(t) \in Entry /\ QueueEntry(t).file = t.file
      /\ QueueEntry(t).peers = t.peers /\ QueueEntry(t).kind # "files"
  BY <1>3 DEF ErrorEntry, QueueEntry, Entry
<1>9. CASE PostFails(n, t, q)
  <2>1. fileLogQ' = [fileLogQ EXCEPT ![n] = Append(@, ErrorEntry(t))] /\ fromPeers' = fromPeers
    BY <1>9 DEF PostFails
  <2>2. \A m \in Nodes, e \in Entry : Has(fileLogQ'[m], e) => Has(fileLogQ[m], e) \/ e = ErrorEntry(t)
    BY <1>8, <2>1, AppendNamed DEF IInv, TInv, TypeOK
  <2>. QED BY <1>4, <1>5, <1>7, <1>8, <2>1, <2>2, LogsSame DEF NewNamed
<1>10. CASE PostUnanswered(n, t, q)
  <2>. DEFINE Q == [fileLogQ EXCEPT ![n] = Append(@, ErrorEntry(t))]
  <2>1. /\ fileLogQ' = [fileLogQ EXCEPT ![n] = Append(@, ErrorEntry(t)),
                                        ![q] = Append(@, QueueEntry(t))]
        /\ SyncFileInfo(q, t)
    BY <1>10 DEF PostUnanswered
  <2>2. Q \in [Nodes -> Seq(Entry)] /\ fileLogQ \in [Nodes -> Seq(Entry)]
    <3>1. Append(fileLogQ[n], ErrorEntry(t)) \in Seq(Entry)
      BY <1>8 DEF IInv, TInv, TypeOK
    <3>. QED BY <3>1 DEF IInv, TInv, TypeOK
  <2>3. fileLogQ' = [Q EXCEPT ![q] = Append(@, QueueEntry(t))]
    BY <1>2, <2>1
  <2>4. \A m \in Nodes, e \in Entry : Has(Q[m], e) => Has(fileLogQ[m], e) \/ e = ErrorEntry(t)
    BY <1>8, <2>2, AppendNamed
  <2>. HIDE DEF Q
  <2>5. \A m \in Nodes, e \in Entry : Has(fileLogQ'[m], e) => Has(Q[m], e) \/ e = QueueEntry(t)
    BY <1>2, <1>8, <2>2, <2>3, AppendNamed
  <2>6. \A m \in Nodes : \A d \in fromPeers'[m] :
          \/ d \in fromPeers[m]
          \/ Named(d.file, d.peers)' /\ (d.got => d.file \in disk'[m])
    BY <1>2, <2>1, SyncFileInfoNamed
  <2>. QED BY <1>4, <1>5, <1>7, <1>8, <2>4, <2>5, <2>6, LogsSame DEF NewNamed
<1>. QED BY <1>1, <1>9, <1>10

LEMMA DownloadNamed ==
    ASSUME IInv, Stays, NEW n \in Nodes, DownloadStep(n) \/ DownloadFault(n)
    PROVE  NewNamed
<1>1. PICK d \in fromPeers[n] :
        \/ DownloadGivenUp(n, d) \/ DownloadNeedless(n, d) \/ DownloadFile(n, d)
        \/ DownloadLogged(n, d) \/ DownloadFails(n, d)
  BY DEF DownloadStep, DownloadFault
<1>2. d \in Fetching /\ Named(d.file, d.peers) /\ (d.got => d.file \in disk[n])
  BY DEF IInv, TInv, TypeOK, ListsNamed, FetchesNamed
<1>3. d.file \in Files /\ d.peers \in Seq(Nodes)
  BY <1>2 DEF Fetching
<1>4. Named(d.file, d.peers)' /\ (d.got => d.file \in disk'[n])
  BY <1>2, <1>3, NamedStays DEF Stays
<1>5. ldb' = ldb /\ filesLog' = filesLog /\ queueLog' = queueLog /\ toPeers' = toPeers
  BY <1>1 DEF DownloadGivenUp, DownloadNeedless, DownloadFile, DownloadLogged,
              DownloadFails, logs
<1>6. CASE DownloadGivenUp(n, d) \/ DownloadNeedless(n, d)
  <2>1. fromPeers' = [fromPeers EXCEPT ![n] = @ \ {d}] /\ fileLogQ' = fileLogQ
    BY <1>6 DEF DownloadGivenUp, DownloadNeedless, Drop
  <2>. QED BY <1>5, <2>1, LogsSame DEF NewNamed, IInv, TInv, TypeOK
<1>7. CASE DownloadFile(n, d)
  <2>. DEFINE c == [d EXCEPT !.got = TRUE]
  <2>1. fromPeers' = [fromPeers EXCEPT ![n] = (@ \ {d}) \cup {c}] /\ fileLogQ' = fileLogQ
    BY <1>7 DEF DownloadFile
  <2>2. c.file = d.file /\ c.peers = d.peers
    BY <1>2 DEF Fetching
  <2>3. d.file \in disk'[n]
    BY <1>7 DEF DownloadFile, IInv, TInv, TypeOK
  <2>. HIDE DEF c
  <2>. QED BY <1>4, <1>5, <2>1, <2>2, <2>3, LogsSame DEF NewNamed, IInv, TInv, TypeOK
<1>8. CASE DownloadLogged(n, d)
  <2>1. /\ fromPeers' = [fromPeers EXCEPT ![n] = @ \ {d}] /\ d.got
        /\ fileLogQ' = [fileLogQ EXCEPT ![n] = Append(@, FilesEntry(d))]
    BY <1>8 DEF DownloadLogged, Drop
  <2>2. /\ FilesEntry(d) \in Entry /\ FilesEntry(d).file = d.file
        /\ FilesEntry(d).peers = d.peers
    BY <1>3 DEF FilesEntry, Entry
  <2>3. \A m \in Nodes, e \in Entry : Has(fileLogQ'[m], e) =>
           Has(fileLogQ[m], e) \/ (m = n /\ e = FilesEntry(d))
    <3>1. \A m \in Nodes, e \in Entry : Has(fileLogQ'[m], e) => Has(fileLogQ[m], e) \/ e = FilesEntry(d)
      BY <2>1, <2>2, AppendNamed DEF IInv, TInv, TypeOK
    <3>2. \A m \in Nodes : m # n => fileLogQ'[m] = fileLogQ[m]
      BY <2>1 DEF IInv, TInv, TypeOK
    <3>. QED BY <3>1, <3>2
  <2>4. \A m \in Nodes : \A c \in fromPeers'[m] : c \in fromPeers[m]
    BY <2>1 DEF IInv, TInv, TypeOK
  <2>. QED BY <1>4, <1>5, <2>1, <2>2, <2>3, <2>4, LogsSame DEF NewNamed
<1>9. CASE DownloadFails(n, d)
  <2>. DEFINE c == [d EXCEPT !.retry = @ + 1]
  <2>1. fromPeers' = [fromPeers EXCEPT ![n] = (@ \ {d}) \cup {c}] /\ fileLogQ' = fileLogQ
    BY <1>9 DEF DownloadFails
  <2>2. c.file = d.file /\ c.peers = d.peers /\ c.got = d.got
    BY <1>2 DEF Fetching
  <2>. HIDE DEF c
  <2>3. \A m \in Nodes : \A x \in fromPeers'[m] : x \in fromPeers[m] \/ (m = n /\ x = c)
    BY <2>1 DEF IInv, TInv, TypeOK
  <2>. QED BY <1>4, <1>5, <2>1, <2>2, <2>3, LogsSame DEF NewNamed
<1>. QED BY <1>1, <1>6, <1>7, <1>8, <1>9

LEMMA LogStepNamed ==
    ASSUME IInv, Stays, NEW n \in Nodes, LogStep(n)
    PROVE  NewNamed
<1>1. fileLogQ[n] \in Seq(Entry) /\ fileLogQ[n] # <<>>
  BY DEF IInv, TInv, TypeOK, LogStep
<1>2. PICK e \in Entry : e = Head(fileLogQ[n]) /\ Has(fileLogQ[n], e)
  BY <1>1, HasHead
<1>3. e.file \in Files /\ e.peers \in Seq(Nodes)
  BY <1>2 DEF Entry
<1>4. Named(e.file, e.peers) /\ (e.kind = "files" => e.file \in disk[n])
  BY <1>2 DEF IInv, ListsNamed, EntriesNamed
<1>5. Named(e.file, e.peers)' /\ (e.kind = "files" => e.file \in disk'[n])
  BY <1>3, <1>4, NamedStays DEF Stays
<1>6. \A m \in Nodes, x \in Entry : Has(fileLogQ'[m], x) => Has(fileLogQ[m], x)
  <2>1. fileLogQ' = [fileLogQ EXCEPT ![n] = Tail(@)]
    BY DEF LogStep
  <2>. QED BY <1>1, <2>1, HasTail DEF IInv, TInv, TypeOK
<1>7. fromPeers' = fromPeers /\ toPeers' = toPeers
  BY DEF LogStep
<1>8. \/ e.kind = "files" /\ SaveRecord(n, e.file, e.peers) /\ queueLog' = queueLog
      \/ /\ queueLog' = [queueLog EXCEPT ![n][e.file] = e.peers]
         /\ ldb' = ldb /\ filesLog' = filesLog
      \/ ldb' = ldb /\ filesLog' = filesLog /\ queueLog' = queueLog
  BY <1>2 DEF LogStep, logs
<1>9. /\ \A m \in Nodes, g \in Files, peers \in Seq(Nodes) :
           /\ ldb'[m][g] = peers => ldb[m][g] = peers \/ (Named(g, peers)' /\ g \in disk'[m])
           /\ queueLog'[m][g] = peers => queueLog[m][g] = peers \/ Named(g, peers)'
      /\ \A m \in Nodes : filesLog'[m] \subseteq filesLog[m] \cup disk'[m]
  <2>1. CASE e.kind = "files" /\ SaveRecord(n, e.file, e.peers) /\ queueLog' = queueLog
    BY <1>3, <1>5, <2>1, SaveRecordNamed
  <2>2. CASE /\ queueLog' = [queueLog EXCEPT ![n][e.file] = e.peers]
             /\ ldb' = ldb /\ filesLog' = filesLog
    BY <1>3, <1>5, <2>2 DEF IInv, TInv, TypeOK
  <2>3. CASE ldb' = ldb /\ filesLog' = filesLog /\ queueLog' = queueLog
    BY <2>3, LogsSame
  <2>. QED BY <1>8, <2>1, <2>2, <2>3
<1>. QED BY <1>6, <1>7, <1>9 DEF NewNamed

\* Records and errors.md5 entries posted again.
LEMMA ResendNamed ==
    ASSUME IInv, Stays, NEW n \in Nodes, NEW t \in Resend(n)
    PROVE  Named(t.file, t.peers)'
<1>1. PICK f \in errLog[n] : ldb[n][f] # NoRecord /\ t = Post(n, f, With(ldb[n][f], n), 0)
  BY DEF Resend
<1>2. f \in Files /\ ldb[n][f] \in Seq(Nodes) /\ f \in disk[n]
  BY <1>1 DEF IInv, TInv, TypeOK, RecordHasFile
<1>3. Named(f, ldb[n][f])
  BY <1>1, <1>2 DEF IInv, ListsNamed, RecordsNamed
<1>4. Served(n, f)'
  BY <1>2 DEF Stays, Served
<1>5. PICK L \in Seq(Nodes) : L = ldb[n][f]
  BY <1>2
<1>6. Named(f, L)'
  BY <1>2, <1>3, <1>5, NamedStays
<1>7. Named(f, With(L, n))'
  BY <1>2, <1>4, <1>6, NamedWith
<1>8. t.file = f /\ t.peers = With(L, n)
  BY <1>1, <1>5 DEF Post
<1>. QED BY <1>7, <1>8

LEMMA RecordsPostNamed ==
    ASSUME IInv, Stays, NEW n \in Nodes, NEW s \in SUBSET Files, NEW t \in Records(n, s)
    PROVE  Named(t.file, t.peers)'
<1>1. PICK f \in s : ldb[n][f] # NoRecord /\ t = Post(n, f, ldb[n][f], 0)
  BY DEF Records
<1>2. f \in Files /\ ldb[n][f] \in Seq(Nodes)
  BY <1>1 DEF IInv, TInv, TypeOK
<1>3. Named(f, ldb[n][f])
  BY <1>1, <1>2 DEF IInv, ListsNamed, RecordsNamed
<1>4. t.file = f /\ t.peers = ldb[n][f]
  BY <1>1 DEF Post
<1>. QED BY <1>2, <1>3, <1>4, NamedStays

LEMMA RepairNamed ==
    ASSUME IInv, Stays, NEW n \in Nodes, Repair(n)
    PROVE  NewNamed
<1>1. ldb' = ldb /\ filesLog' = filesLog /\ queueLog' = queueLog
      /\ fileLogQ' = fileLogQ /\ fromPeers' = fromPeers
  BY DEF Repair, Refresh, ByHand, AutoRepair, Exchange, SyncForced, logs
<1>2. \A m \in Nodes : \A t \in toPeers'[m] : t \in toPeers[m] \/ Named(t.file, t.peers)'
  <2>1. CASE Refresh(n)
    BY <2>1, ResendNamed DEF Refresh, IInv, TInv, TypeOK
  <2>2. CASE SyncForced
    <3>. SUFFICES ASSUME NEW m \in Nodes, NEW t \in toPeers'[m], t \notin toPeers[m]
         PROVE  Named(t.file, t.peers)'
      OBVIOUS
    <3>1. PICK f \in filesLog[m] : t = Post(m, f, <<m>>, 0)
      BY <2>2 DEF SyncForced
    <3>2. f \in Files /\ f \in disk'[m]
      BY <3>1 DEF IInv, TInv, TypeOK, RecordHasFile, Stays
    <3>3. t.file = f /\ t.peers = <<m>>
      BY <3>1 DEF Post
    <3>. QED BY <3>2, <3>3, NamedSelf
  <2>3. ASSUME NEW q \in Peers(n), Exchange(n, q)
        PROVE  \A m \in Nodes : \A t \in toPeers'[m] : t \in toPeers[m] \/ Named(t.file, t.peers)'
    <3>. DEFINE A == Records(n, filesLog[n] \ filesLog[q])
                B == Records(q, filesLog[q] \ filesLog[n])
    <3>1. /\ filesLog[n] \ filesLog[q] \in SUBSET Files
          /\ filesLog[q] \ filesLog[n] \in SUBSET Files /\ q \in Nodes
      BY DEF IInv, TInv, TypeOK, Peers
    <3>2. /\ \A t \in A : Named(t.file, t.peers)'
          /\ \A t \in B : Named(t.file, t.peers)'
      BY <3>1, RecordsPostNamed
    <3>3. toPeers' = [toPeers EXCEPT ![n] = @ \cup A, ![q] = @ \cup B]
      BY <2>3 DEF Exchange
    <3>. HIDE DEF A, B
    <3>4. \A m \in Nodes : \A t \in toPeers'[m] : t \in toPeers[m] \/ t \in A \/ t \in B
      BY <3>1, <3>3 DEF IInv, TInv, TypeOK
    <3>. QED BY <3>2, <3>4
  <2>. QED BY <2>1, <2>2, <2>3 DEF Repair, ByHand, AutoRepair
<1>. QED BY <1>1, <1>2, LogsSame DEF NewNamed

LEMMA CrashNamed ==
    ASSUME IInv, NEW n \in Nodes, Crash(n)
    PROVE  NewNamed
<1>1. ldb' = ldb /\ filesLog' = filesLog /\ queueLog' = queueLog
  BY DEF Crash, logs
<1>2. \A m \in Nodes, e \in Entry : Has(fileLogQ'[m], e) => Has(fileLogQ[m], e)
  BY DEF Crash, Has, IInv, TInv, TypeOK
<1>3. \A m \in Nodes : toPeers'[m] \subseteq toPeers[m] /\ fromPeers'[m] \subseteq fromPeers[m]
  BY DEF Crash, IInv, TInv, TypeOK
<1>. QED BY <1>1, <1>2, <1>3, LogsSame DEF NewNamed

LEMMA RestartNamed ==
    ASSUME IInv, Stays, NEW n \in Nodes, Restart(n)
    PROVE  NewNamed
<1>1. ldb' = ldb /\ filesLog' = filesLog /\ queueLog' = queueLog /\ fileLogQ' = fileLogQ
  BY DEF Restart, logs
<1>2. \A m \in Nodes : \A t \in toPeers'[m] : t \in toPeers[m] \/ Named(t.file, t.peers)'
  BY ResendNamed DEF Restart, IInv, TInv, TypeOK
<1>3. \A m \in Nodes : \A d \in fromPeers'[m] :
        \/ d \in fromPeers[m]
        \/ Named(d.file, d.peers)' /\ (d.got => d.file \in disk'[m])
  <2>. SUFFICES ASSUME NEW m \in Nodes, NEW d \in fromPeers'[m], d \notin fromPeers[m]
       PROVE  Named(d.file, d.peers)' /\ ~d.got
    OBVIOUS
  <2>1. PICK f \in Files : queueLog[n][f] # NoRecord /\ d = Fetch(f, queueLog[n][f])
    BY DEF Restart, IInv, TInv, TypeOK
  <2>2. Named(f, queueLog[n][f]) /\ queueLog[n][f] \in Seq(Nodes)
    BY <2>1 DEF IInv, TInv, TypeOK, ListsNamed, RecordsNamed
  <2>3. d.file = f /\ d.peers = queueLog[n][f] /\ ~d.got
    BY <2>1 DEF Fetch
  <2>. QED BY <2>2, <2>3, NamedStays
<1>. QED BY <1>1, <1>2, <1>3, LogsSame DEF NewNamed

LEMMA NamedStep == IInv /\ TInv' /\ Stays /\ Next => NewNamed
BY UploadNamed, PostStepNamed, PostFaultNamed, DownloadNamed, LogStepNamed,
   RepairNamed, CrashNamed, RestartNamed DEF Next

-----------------------------------------------------------------------------
(* Where files and downloads are.                                          *)

\* How a step changes the disks: an upload of what was nowhere, or a download
\* from another node.
LEMMA DiskStep ==
    ASSUME IInv, Next
    PROVE  \/ disk' = disk /\ uploaded' = uploaded
           \/ \E n \in Nodes, f \in Files :
                /\ f \notin uploaded /\ uploaded' = uploaded \cup {f}
                /\ disk' = [disk EXCEPT ![n] = @ \cup {f}]
           \/ \E n, q \in Nodes, f \in Files :
                /\ q # n /\ f \in disk[q] /\ uploaded' = uploaded
                /\ disk' = [disk EXCEPT ![n] = @ \cup {f}]
<1>. PICK n \in Nodes :
        \/ \E f \in Files : Upload(n, f)
        \/ PostStep(n) \/ PostFault(n)
        \/ DownloadStep(n) \/ DownloadFault(n)
        \/ LogStep(n)
        \/ Repair(n)
        \/ Crash(n) \/ Restart(n)
  BY DEF Next
<1>1. CASE \E f \in Files : Upload(n, f)
  BY <1>1 DEF Upload
<1>2. ASSUME NEW d \in fromPeers[n], DownloadFile(n, d)
      PROVE  \E m, q \in Nodes, f \in Files :
                /\ q # m /\ f \in disk[q] /\ uploaded' = uploaded
                /\ disk' = [disk EXCEPT ![m] = @ \cup {f}]
  <2>1. d.file \in Files
    BY DEF IInv, TInv, TypeOK, Fetching
  <2>2. Source(n, d) \in Nodes /\ Source(n, d) # n /\ d.file \in disk[Source(n, d)]
    BY <1>2 DEF DownloadFile, Wanted, IInv, TInv, TypeOK
  <2>. QED BY <1>2, <2>1, <2>2 DEF DownloadFile, history
<1>3. CASE PostStep(n) \/ PostFault(n) \/ LogStep(n)
  BY <1>3 DEF PostStep, PostFault, PostSkip, PostKnown, PostOk, PostDone, PostFails,
              PostUnanswered, LogStep, history
<1>4. CASE Repair(n) \/ Crash(n) \/ Restart(n)
  BY <1>4 DEF Repair, Refresh, ByHand, AutoRepair, Exchange, SyncForced, Crash, Restart, history
<1>5. CASE DownloadStep(n) \/ DownloadFault(n)
  BY <1>2, <1>5 DEF DownloadStep, DownloadFault, DownloadGivenUp, DownloadNeedless,
                    DownloadLogged, DownloadFails, history
<1>. QED BY <1>1, <1>3, <1>4, <1>5

LEMMA OnDiskUploadedStep == IInv /\ Next => OnDiskUploaded'
<1>. SUFFICES ASSUME IInv, Next PROVE OnDiskUploaded'
  OBVIOUS
<1>1. CASE disk' = disk /\ uploaded' = uploaded
  BY <1>1 DEF IInv, OnDiskUploaded
<1>2. ASSUME NEW n \in Nodes, NEW f \in Files, uploaded' = uploaded \cup {f},
             disk' = [disk EXCEPT ![n] = @ \cup {f}]
      PROVE  OnDiskUploaded'
  BY <1>2 DEF IInv, TInv, TypeOK, OnDiskUploaded
<1>3. ASSUME NEW n \in Nodes, NEW q \in Nodes, NEW f \in Files,
             f \in disk[q], uploaded' = uploaded, disk' = [disk EXCEPT ![n] = @ \cup {f}]
      PROVE  OnDiskUploaded'
  BY <1>3 DEF IInv, TInv, TypeOK, OnDiskUploaded
<1>. QED BY <1>1, <1>2, <1>3, DiskStep

LEMMA DownIsIdleStep == IInv /\ Next => DownIsIdle'
<1>. SUFFICES ASSUME IInv, Next PROVE DownIsIdle'
  OBVIOUS
<1>. PICK n \in Nodes :
        \/ \E f \in Files : Upload(n, f)
        \/ PostStep(n) \/ PostFault(n)
        \/ DownloadStep(n) \/ DownloadFault(n)
        \/ LogStep(n)
        \/ Repair(n)
        \/ Crash(n) \/ Restart(n)
  BY DEF Next
<1>1. CASE PostStep(n) \/ PostFault(n)
  <2>1. up' = up
    BY <1>1 DEF PostStep, PostFault, PostSkip, PostKnown, PostOk, PostDone, PostFails, PostUnanswered
  <2>2. \/ fromPeers' = fromPeers
        \/ \E t \in toPeers[n] : \E q \in t.todo : q \in up /\ SyncFileInfo(q, t)
    BY <1>1 DEF PostStep, PostFault, PostSkip, PostKnown, PostOk, PostDone, PostFails, PostUnanswered
  <2>. QED BY <2>1, <2>2 DEF IInv, TInv, TypeOK, DownIsIdle, SyncFileInfo
<1>2. CASE DownloadStep(n) \/ DownloadFault(n)
  <2>1. up' = up /\ n \in up
    BY <1>2 DEF DownloadStep, DownloadFault, DownloadGivenUp, DownloadNeedless,
                DownloadFile, DownloadLogged, DownloadFails
  <2>2. \A m \in Nodes : m # n => fromPeers'[m] = fromPeers[m]
    BY <1>2 DEF DownloadStep, DownloadFault, DownloadGivenUp, DownloadNeedless,
                DownloadFile, DownloadLogged, DownloadFails, Drop, IInv, TInv, TypeOK
  <2>. QED BY <2>1, <2>2 DEF IInv, DownIsIdle
<1>3. CASE (\E f \in Files : Upload(n, f)) \/ LogStep(n) \/ Repair(n)
  BY <1>3 DEF Upload, LogStep, Repair, Refresh, ByHand, AutoRepair, Exchange, SyncForced,
              IInv, DownIsIdle
<1>4. CASE Crash(n)
  BY <1>4 DEF Crash, IInv, TInv, TypeOK, DownIsIdle
<1>5. CASE Restart(n)
  BY <1>5 DEF Restart, IInv, TInv, TypeOK, DownIsIdle
<1>. QED BY <1>1, <1>2, <1>3, <1>4, <1>5

LEMMA InitIInv == Init => IInv
<1>. SUFFICES ASSUME Init PROVE IInv
  OBVIOUS
<1>1. RecordHasFile /\ ListsNamed
  BY DEF Init, RecordHasFile, ListsNamed, RecordsNamed, EntriesNamed, PostsNamed,
         FetchesNamed, Has
<1>2. DownIsIdle /\ OnDiskUploaded
  BY DEF Init, DownIsIdle, OnDiskUploaded
<1>. QED BY <1>1, <1>2, InitTInv DEF IInv

\* The inductive invariant.
THEOREM Invariance == Spec => []IInv
<1>1. IInv /\ [Next]_vars => IInv'
  <2>. SUFFICES ASSUME IInv, [Next]_vars PROVE IInv'
    OBVIOUS
  <2>1. CASE UNCHANGED vars
    BY <2>1 DEF vars, IInv, TInv, TypeOK, TodoIsPeers, Peers, RecordHasFile, ListsNamed,
       RecordsNamed, EntriesNamed, PostsNamed, FetchesNamed, Named, Served, Downloading,
       DownIsIdle, OnDiskUploaded
  <2>2. CASE Next
    <3>1. TInv'
      BY <2>2, NextTInv DEF IInv
    <3>2. Stays
      BY <2>2, StaysStep
    <3>3. NewNamed
      BY <2>2, <3>1, <3>2, NamedStep
    <3>4. DownIsIdle' /\ OnDiskUploaded'
      BY <2>2, DownIsIdleStep, OnDiskUploadedStep
    <3>. QED BY <3>1, <3>2, <3>3, <3>4, ListsStep DEF IInv
  <2>. QED BY <2>1, <2>2
<1>. QED BY InitIInv, <1>1, PTL DEF Spec

\* A node that lists a file for its peers has it, over crashes.
THEOREM RecordsHaveFiles == Spec => []RecordHasFile
BY Invariance, PTL DEF IInv

\* A peer that a record names has the file, is about to have it, or lost it by
\* running out of retries or dying before queue.md5 named it.
THEOREM PeersAreTruthful == Spec => []PeersTruthful
<1>1. IInv => PeersTruthful
  BY DEF IInv, ListsNamed, RecordsNamed, Named, Served, PeersTruthful, Peers
<1>. QED BY Invariance, <1>1, PTL

\* The first peer of a list has the file: a node without the file is not the
\* first, and asks it.
LEMMA SourceIsFirst ==
    ASSUME NEW n \in Nodes, NEW d, d.peers \in Seq(Nodes), Named(d.file, d.peers),
           d.file \notin disk[n]
    PROVE  /\ 1 \in 1 .. Len(d.peers) /\ d.peers[1] # n
           /\ Source(n, d) = d.peers[1] /\ d.file \in disk[Source(n, d)]
<1>1. 1 \in 1 .. Len(d.peers) /\ d.peers[1] # n /\ d.file \in disk[d.peers[1]]
  BY DEF Named
<1>2. \A i \in 1 .. Len(d.peers) :
        (d.peers[i] # n /\ \A j \in 1 .. i - 1 : d.peers[j] = n) <=> i = 1
  <2>1. ASSUME NEW i \in 1 .. Len(d.peers), i # 1
        PROVE  1 \in 1 .. i - 1
    BY <2>1
  <2>2. 1 .. 1 - 1 = {}
    OBVIOUS
  <2>. QED BY <1>1, <2>1, <2>2
<1>3. Source(n, d) = d.peers[1]
  BY <1>1, <1>2 DEF Source, FirstOther
<1>. QED BY <1>1, <1>3

\* The one peer that ConsumerDownLoad asks has the file.
THEOREM SourcesHaveFiles == Spec => []SourceHasFile
<1>1. IInv => SourceHasFile
  BY SourceIsFirst DEF SourceHasFile, IInv, TInv, TypeOK, Fetching, ListsNamed, FetchesNamed
<1>. QED BY Invariance, <1>1, PTL

\* Queues, logs, retries, repairs, crashes and restarts only make copies of
\* copies: the detailed system implements FileCopies.
THEOREM CopiesOfCopies == Spec => ImplementsCopies
<1>1. Init => Copies!CopiesInit
  BY DEF Init, Copies!CopiesInit, copies
<1>2. IInv /\ [Next]_vars => [Copies!CopiesNext]_copies
  <2>. SUFFICES ASSUME IInv, [Next]_vars PROVE [Copies!CopiesNext]_copies
    OBVIOUS
  <2>1. CASE disk' = disk
    BY <2>1 DEF copies
  <2>2. ASSUME NEW n \in Nodes, NEW f \in Files, f \notin uploaded,
               disk' = [disk EXCEPT ![n] = @ \cup {f}]
        PROVE  Copies!UploadAt(n, f)
    <3>1. \A m \in Nodes : f \notin disk[m]
      BY <2>2 DEF IInv, OnDiskUploaded
    <3>2. copies[f] = {}
      BY <3>1 DEF copies
    <3>3. copies' = [copies EXCEPT ![f] = {n}]
      <4>1. \A m \in Nodes, g \in Files :
              g \in disk'[m] <=> g \in disk[m] \/ (m = n /\ g = f)
        BY <2>2 DEF IInv, TInv, TypeOK
      <4>2. \A g \in Files : {m \in Nodes : g \in disk'[m]} =
              IF g = f THEN {n} ELSE {m \in Nodes : g \in disk[m]}
        BY <3>1, <4>1
      <4>. QED BY <4>2 DEF copies
    <3>. QED BY <3>2, <3>3 DEF Copies!UploadAt
  <2>3. ASSUME NEW n \in Nodes, NEW q \in Nodes, NEW f \in Files, q # n, f \in disk[q],
               disk' = [disk EXCEPT ![n] = @ \cup {f}]
        PROVE  Copies!CopyTo(n, f)
    <3>1. q \in copies[f] \ {n}
      BY <2>3 DEF copies
    <3>2. copies' = [copies EXCEPT ![f] = @ \cup {n}]
      BY <2>3 DEF copies, IInv, TInv, TypeOK
    <3>. QED BY <3>1, <3>2 DEF Copies!CopyTo
  <2>4. CASE Next
    BY <2>1, <2>2, <2>3, <2>4, DiskStep DEF Copies!CopiesNext
  <2>. QED BY <2>1, <2>4 DEF vars
<1>. QED BY Invariance, <1>1, <1>2, PTL DEF Spec, ImplementsCopies, Copies!CopiesSpec

-----------------------------------------------------------------------------
(* No peer is forgotten: what a post has not done yet, its errors.md5      *)
(* entry or its own list covers, whichever of two posts saves last.        *)

\* errors.md5 names f or is about to: the periodic resend posts f again.
ErrorKept(n, f) ==
    \/ f \in errLog[n]
    \/ \E e \in Entry : Has(fileLogQ[n], e) /\ e.kind = "errors" /\ e.file = f

\* A post of f to q is still to be made.
Pending(n, f, q) ==
    \E t \in toPeers[n] : t.file = f /\ q \in t.todo /\ ~Has(t.peers, q)

\* What a node posts, it has.
PostsHaveFile == \A n \in Nodes : \A t \in toPeers[n] : t.file \in disk[n]

\* A post has done with a peer when the peer is in its list or the failure is
\* noted. So the list that it saves, whatever record it overwrites, lacks only
\* peers it still posts to.
Covered(n, t) == \A q \in Peers(n) :
    Has(t.peers, q) \/ q \in t.todo \/ ErrorKept(n, t.file)
PostsCovered == \A n \in Nodes : \A t \in toPeers[n] : Covered(n, t)

\* A file that was fetched is logged with a list that another node begins.
FetchedFromOther == \A n \in Nodes :
    /\ \A d \in fromPeers[n] : d.got => d.peers[1] # n
    /\ \A e \in Entry : Has(fileLogQ[n], e) /\ e.kind = "files" => e.peers[1] # n

\* A node that is down posts nothing.
DownPostsNothing == \A n \in Nodes : n \notin up => toPeers[n] = {}

\* NoPeerForgotten of all nodes, those that are down too.
RecordKeeps(n, f) ==
    ldb[n][f] # NoRecord /\ ldb[n][f][1] = n /\ f \notin unsent[n] =>
        \A q \in Peers(n) :
            Has(ldb[n][f], q) \/ Pending(n, f, q) \/ ErrorKept(n, f)
RecordsKeep == \A n \in Nodes, f \in Files : RecordKeeps(n, f)

NInv == PostsHaveFile /\ PostsCovered /\ FetchedFromOther /\ DownPostsNothing /\ RecordsKeep

\* The head of a queue and the rest are all there is in it.
LEMMA HasHeadOrTail ==
    ASSUME NEW S, NEW s \in Seq(S), s # <<>>, NEW x, Has(s, x)
    PROVE  x = Head(s) \/ Has(Tail(s), x)
<1>1. PICK i \in 1 .. Len(s) : s[i] = x
  BY DEF Has
<1>2. CASE i = 1
  BY <1>1, <1>2
<1>3. CASE i # 1
  <2>1. i - 1 \in 1 .. Len(Tail(s)) /\ Tail(s)[i - 1] = x
    BY <1>1, <1>3
  <2>. QED BY <2>1 DEF Has
<1>. QED BY <1>2, <1>3

\* An entry that is appended does not disturb those that are there.
LEMMA AppendKeeps ==
    ASSUME NEW Q \in [Nodes -> Seq(Entry)], NEW n \in Nodes, NEW x \in Entry,
           NEW m \in Nodes, NEW e, Has(Q[m], e)
    PROVE  Has([Q EXCEPT ![n] = Append(@, x)][m], e)
<1>1. CASE m = n
  <2>1. [Q EXCEPT ![n] = Append(@, x)][m] = Append(Q[m], x)
    BY <1>1
  <2>. QED BY <2>1, HasAppend
<1>2. CASE m # n
  BY <1>2
<1>. QED BY <1>1, <1>2

\* What a request that fails or goes unanswered puts into queueFileLog.
LEMMA PostFaultEntries ==
    ASSUME IInv, NEW n \in Nodes, NEW t \in toPeers[n], NEW q \in t.todo,
           PostFails(n, t, q) \/ PostUnanswered(n, t, q)
    PROVE  /\ \A m \in Nodes, e \in Entry : Has(fileLogQ[m], e) => Has(fileLogQ'[m], e)
           /\ \A m \in Nodes, e \in Entry :
                 Has(fileLogQ'[m], e) => Has(fileLogQ[m], e) \/ e.kind # "files"
           /\ ErrorKept(n, t.file)'
<1>1. t \in Posting /\ q \in Nodes /\ q # n
  BY DEF IInv, TInv, TypeOK, TodoIsPeers, Peers
<1>2. ErrorEntry(t) \in Entry /\ QueueEntry(t) \in Entry
  BY <1>1 DEF ErrorEntry, QueueEntry, Entry, Posting
<1>3. ErrorEntry(t).kind = "errors" /\ ErrorEntry(t).file = t.file /\ QueueEntry(t).kind = "queue"
  BY DEF ErrorEntry, QueueEntry
<1>. DEFINE Q == [fileLogQ EXCEPT ![n] = Append(@, ErrorEntry(t))]
<1>4. /\ fileLogQ \in [Nodes -> Seq(Entry)] /\ Q \in [Nodes -> Seq(Entry)]
      /\ Q[n] = Append(fileLogQ[n], ErrorEntry(t))
  BY <1>2 DEF IInv, TInv, TypeOK
<1>5. fileLogQ' = Q \/ fileLogQ' = [Q EXCEPT ![q] = Append(@, QueueEntry(t))]
  BY <1>1, <1>4 DEF PostFails, PostUnanswered
<1>6. \A m \in Nodes, e \in Entry : Has(fileLogQ[m], e) => Has(Q[m], e)
  BY <1>2, <1>4, AppendKeeps
<1>7. \A m \in Nodes, e \in Entry : Has(Q[m], e) => Has(fileLogQ[m], e) \/ e = ErrorEntry(t)
  BY <1>2, <1>4, AppendNamed
<1>8. Has(Q[n], ErrorEntry(t))
  BY <1>2, <1>4, HasAppend
<1>. HIDE DEF Q
<1>9. \A m \in Nodes, e \in Entry : Has(Q[m], e) => Has(fileLogQ'[m], e)
  BY <1>1, <1>2, <1>4, <1>5, AppendKeeps
<1>10. \A m \in Nodes, e \in Entry : Has(fileLogQ'[m], e) => Has(Q[m], e) \/ e = QueueEntry(t)
  BY <1>1, <1>2, <1>4, <1>5, AppendNamed
<1>. QED BY <1>2, <1>3, <1>6, <1>7, <1>8, <1>9, <1>10 DEF ErrorKept

\* What a request that is answered puts there.
LEMMA PostOkEntries ==
    ASSUME IInv, NEW n \in Nodes, NEW t \in toPeers[n], NEW q \in t.todo, PostOk(n, t, q)
    PROVE  /\ \A m \in Nodes, e \in Entry : Has(fileLogQ[m], e) => Has(fileLogQ'[m], e)
           /\ \A m \in Nodes, e \in Entry :
                 Has(fileLogQ'[m], e) => Has(fileLogQ[m], e) \/ e.kind # "files"
<1>1. t \in Posting /\ q \in Nodes
  BY DEF IInv, TInv, TypeOK, TodoIsPeers, Peers
<1>2. QueueEntry(t) \in Entry /\ QueueEntry(t).kind = "queue"
  BY <1>1 DEF QueueEntry, Entry, Posting
<1>3. /\ fileLogQ \in [Nodes -> Seq(Entry)]
      /\ fileLogQ' = [fileLogQ EXCEPT ![q] = Append(@, QueueEntry(t))]
  BY DEF PostOk, IInv, TInv, TypeOK
<1>. QED BY <1>1, <1>2, <1>3, AppendKeeps, AppendNamed

\* errors.md5 forgets nothing, and what is on its way to it arrives, unless the
\* node dies.
LEMMA ErrorStays ==
    ASSUME IInv, Next, NEW n \in Nodes, NEW f \in Files, ErrorKept(n, f), ~Crash(n)
    PROVE  ErrorKept(n, f)'
<1>. PICK m \in Nodes :
        \/ \E g \in Files : Upload(m, g)
        \/ PostStep(m) \/ PostFault(m)
        \/ DownloadStep(m) \/ DownloadFault(m)
        \/ LogStep(m)
        \/ Repair(m)
        \/ Crash(m) \/ Restart(m)
  BY DEF Next
<1>1. ASSUME errLog' = errLog,
             \A e \in Entry : Has(fileLogQ[n], e) => Has(fileLogQ'[n], e)
      PROVE  ErrorKept(n, f)'
  BY <1>1 DEF ErrorKept
<1>2. CASE (\E g \in Files : Upload(m, g)) \/ Repair(m) \/ Restart(m) \/ DownloadFault(m)
  <2>1. errLog' = errLog /\ fileLogQ' = fileLogQ
    BY <1>2 DEF Upload, Repair, Refresh, ByHand, AutoRepair, Exchange, SyncForced, Restart,
                DownloadFault, DownloadFails, logs
  <2>. QED BY <1>1, <2>1
<1>3. CASE PostStep(m)
  <2>1. errLog' = errLog
    BY <1>3 DEF PostStep, PostSkip, PostKnown, PostOk, PostDone, logs
  <2>2. fileLogQ' = fileLogQ \/ \E t \in toPeers[m] : \E q \in t.todo : PostOk(m, t, q)
    BY <1>3 DEF PostStep, PostSkip, PostKnown, PostDone
  <2>. QED BY <1>1, <2>1, <2>2, PostOkEntries
<1>4. CASE PostFault(m)
  <2>1. errLog' = errLog
    BY <1>4 DEF PostFault, PostFails, PostUnanswered, logs
  <2>. QED BY <1>1, <1>4, <2>1, PostFaultEntries DEF PostFault
<1>5. CASE DownloadStep(m)
  <2>1. errLog' = errLog
    BY <1>5 DEF DownloadStep, DownloadGivenUp, DownloadNeedless, DownloadFile, DownloadLogged, logs
  <2>2. \/ fileLogQ' = fileLogQ
        \/ \E d \in fromPeers[m] : fileLogQ' = [fileLogQ EXCEPT ![m] = Append(@, FilesEntry(d))]
    BY <1>5 DEF DownloadStep, DownloadGivenUp, DownloadNeedless, DownloadFile, DownloadLogged
  <2>3. \A d \in fromPeers[m] : FilesEntry(d) \in Entry
    BY DEF IInv, TInv, TypeOK, FilesEntry, Entry, Fetching
  <2>4. fileLogQ \in [Nodes -> Seq(Entry)]
    BY DEF IInv, TInv, TypeOK
  <2>. QED BY <1>1, <2>1, <2>2, <2>3, <2>4, AppendKeeps
<1>6. CASE LogStep(m)
  <2>1. fileLogQ[m] \in Seq(Entry) /\ fileLogQ[m] # <<>> /\ fileLogQ' = [fileLogQ EXCEPT ![m] = Tail(@)]
    BY <1>6 DEF LogStep, IInv, TInv, TypeOK
  <2>2. f \in errLog[n] => f \in errLog'[n]
    <3>. DEFINE e == Head(fileLogQ[m])
    <3>1. \/ UNCHANGED <<queueLog, errLog>>
          \/ UNCHANGED <<ldb, filesLog, errLog, counted>>
          \/ errLog' = [errLog EXCEPT ![m] = @ \cup {e.file}]
      BY <1>6 DEF LogStep, logs
    <3>. HIDE DEF e
    <3>. QED BY <3>1 DEF IInv, TInv, TypeOK
  <2>3. ASSUME NEW e \in Entry, Has(fileLogQ[n], e), e.kind = "errors", e.file = f
        PROVE  f \in errLog'[n] \/ Has(fileLogQ'[n], e)
    <3>1. CASE n # m
      BY <2>1, <2>3, <3>1 DEF IInv, TInv, TypeOK
    <3>2. CASE n = m /\ e = Head(fileLogQ[m])
      <4>1. errLog' = [errLog EXCEPT ![m] = @ \cup {f}]
        BY <1>6, <2>3, <3>2 DEF LogStep
      <4>. QED BY <3>2, <4>1 DEF IInv, TInv, TypeOK
    <3>3. CASE n = m /\ e # Head(fileLogQ[m])
      <4>1. Has(Tail(fileLogQ[m]), e)
        BY <2>1, <2>3, <3>3, HasHeadOrTail
      <4>. QED BY <2>1, <3>3, <4>1 DEF IInv, TInv, TypeOK
    <3>. QED BY <3>1, <3>2, <3>3
  <2>. QED BY <2>2, <2>3 DEF ErrorKept
<1>7. CASE Crash(m)
  <2>1. m # n /\ errLog' = errLog /\ fileLogQ' = [fileLogQ EXCEPT ![m] = <<>>]
    BY <1>7 DEF Crash, logs
  <2>2. fileLogQ'[n] = fileLogQ[n]
    BY <2>1 DEF IInv, TInv, TypeOK
  <2>. QED BY <1>1, <2>1, <2>2
<1>. QED BY <1>2, <1>3, <1>4, <1>5, <1>6, <1>7

\* What is left of a post after a peer, and what a repair or a restart posts.
PostAfter(n, t, q, u) ==
    /\ u.file = t.file /\ u.todo = t.todo \ {q}
    /\ \A p \in Nodes : Has(t.peers, p) => Has(u.peers, p)
    /\ Has(u.peers, q) \/ t.file \notin disk[n] \/ ErrorKept(n, t.file)'
NewPost(n, u) == u.todo = Peers(n) /\ u.file \in disk'[n]

LEMMA RetriedAfter ==
    ASSUME IInv, NEW n \in Nodes, NEW t \in toPeers[n], NEW q \in t.todo,
           t.file \in disk'[n], ErrorKept(n, t.file)'
    PROVE  \A u \in Retried(n, t, q) : PostAfter(n, t, q, u) \/ NewPost(n, u)
<1>1. t \in Posting
  BY DEF IInv, TInv, TypeOK
<1>2. PostAfter(n, t, q, [t EXCEPT !.retry = @ + 1, !.todo = @ \ {q}])
  BY <1>1 DEF PostAfter, Posting
<1>3. PostAfter(n, t, q, [t EXCEPT !.todo = @ \ {q}])
  BY <1>1 DEF PostAfter, Posting
<1>4. NewPost(n, Post(n, t.file, t.peers, t.retry + 1))
  BY DEF NewPost, Post
<1>. QED BY <1>2, <1>3, <1>4 DEF Retried

LEMMA RecordsNew ==
    ASSUME IInv, disk' = disk, NEW n \in Nodes, NEW f \in Files, ldb[n][f] # NoRecord,
           NEW peers, NEW r
    PROVE  NewPost(n, Post(n, f, peers, r))
BY DEF IInv, RecordHasFile, NewPost, Post

\* What a peer that is done leaves of t.
LEMMA PeerAdded ==
    ASSUME IInv, NEW n \in Nodes, NEW t \in toPeers[n], NEW q
    PROVE  LET u == [t EXCEPT !.peers = Append(@, q), !.todo = @ \ {q}]
           IN  u.file = t.file /\ u.peers = Append(t.peers, q) /\ u.todo = t.todo \ {q}
BY DEF IInv, TInv, TypeOK, Posting

\* Where the posts after a step come from.
LEMMA PostsAfter ==
    ASSUME IInv, Next, NEW m \in Nodes, NEW u \in toPeers'[m]
    PROVE  \/ u \in toPeers[m] /\ ~Crash(m)
           \/ \E t \in toPeers[m] : \E q \in t.todo : ~Crash(m) /\ PostAfter(m, t, q, u)
           \/ NewPost(m, u)
<1>. DEFINE Goal == \/ u \in toPeers[m]
                    \/ \E t \in toPeers[m] : \E q \in t.todo : PostAfter(m, t, q, u)
                    \/ NewPost(m, u)
<1>. PICK n \in Nodes :
        \/ \E g \in Files : Upload(n, g)
        \/ PostStep(n) \/ PostFault(n)
        \/ DownloadStep(n) \/ DownloadFault(n)
        \/ LogStep(n)
        \/ Repair(n)
        \/ Crash(n) \/ Restart(n)
  BY DEF Next
<1>1. ~Crash(m)
  BY DEF Crash, IInv, TInv, TypeOK
<1>2. CASE \E f \in Files : Upload(n, f)
  <2>1. PICK f \in Files : Upload(n, f)
    BY <1>2
  <2>2. toPeers' = [toPeers EXCEPT ![n] = @ \cup {Post(n, f, <<n>>, 0)}] /\ f \in disk'[n]
    BY <2>1 DEF Upload, IInv, TInv, TypeOK
  <2>3. NewPost(n, Post(n, f, <<n>>, 0))
    BY <2>2 DEF NewPost, Post
  <2>4. Goal
    BY <2>2, <2>3 DEF IInv, TInv, TypeOK
  <2>. QED BY <1>1, <2>4
<1>3. ASSUME NEW t \in toPeers[n], NEW s, NextPost(n, t, s),
             \A v \in s : \/ \E q \in t.todo : PostAfter(n, t, q, v)
                          \/ NewPost(n, v)
      PROVE  Goal
  BY <1>3 DEF NextPost, IInv, TInv, TypeOK
<1>4. CASE PostStep(n)
  <2>1. PICK t \in toPeers[n] :
          \/ \E q \in t.todo :
               PostSkip(n, t, q) \/ PostKnown(n, t, q) \/ PostOk(n, t, q)
          \/ PostDone(n, t)
    BY <1>4 DEF PostStep
  <2>2. t \in Posting /\ t.todo \subseteq Nodes
    BY DEF IInv, TInv, TypeOK, Posting
  <2>3. CASE PostDone(n, t)
    BY <1>1, <2>3 DEF PostDone, NextPost, IInv, TInv, TypeOK
  <2>4. ASSUME NEW q \in t.todo, PostSkip(n, t, q)
        PROVE  Goal
    <3>. DEFINE v == [t EXCEPT !.todo = @ \ {q}]
    <3>1. PostAfter(n, t, q, v) /\ NextPost(n, t, {v})
      BY <2>2, <2>4 DEF PostSkip, PostAfter, Posting
    <3>. HIDE DEF v
    <3>. QED BY <1>3, <3>1
  <2>5. ASSUME NEW q \in t.todo, PostKnown(n, t, q) \/ PostOk(n, t, q)
        PROVE  Goal
    <3>. DEFINE v == [t EXCEPT !.peers = Append(@, q), !.todo = @ \ {q}]
    <3>1. v.file = t.file /\ v.peers = Append(t.peers, q) /\ v.todo = t.todo \ {q}
      BY PeerAdded
    <3>2. NextPost(n, t, {v})
      BY <2>5 DEF PostKnown, PostOk
    <3>. HIDE DEF v
    <3>3. \A p : Has(v.peers, p) <=> Has(t.peers, p) \/ p = q
      BY <2>2, <3>1, HasAppend DEF Posting
    <3>4. PostAfter(n, t, q, v)
      BY <3>1, <3>3 DEF PostAfter
    <3>. QED BY <1>3, <3>2, <3>4
  <2>. QED BY <1>1, <2>1, <2>3, <2>4, <2>5
<1>5. CASE PostFault(n)
  <2>1. PICK t \in toPeers[n] : \E q \in t.todo : PostFails(n, t, q) \/ PostUnanswered(n, t, q)
    BY <1>5 DEF PostFault
  <2>2. PICK q \in t.todo : PostFails(n, t, q) \/ PostUnanswered(n, t, q)
    BY <2>1
  <2>3. NextPost(n, t, Retried(n, t, q)) /\ t.file \in disk'[n]
    BY <2>2 DEF PostFails, PostUnanswered, Postable
  <2>4. ErrorKept(n, t.file)'
    BY <2>2, PostFaultEntries
  <2>5. \A v \in Retried(n, t, q) : PostAfter(n, t, q, v) \/ NewPost(n, v)
    BY <2>3, <2>4, RetriedAfter
  <2>6. Goal
    BY <1>3, <2>3, <2>5
  <2>. QED BY <1>1, <2>6
<1>6. CASE DownloadStep(n) \/ DownloadFault(n) \/ LogStep(n)
  <2>1. toPeers' = toPeers
    BY <1>6 DEF DownloadStep, DownloadFault, DownloadGivenUp, DownloadNeedless, DownloadFile,
                DownloadLogged, DownloadFails, LogStep
  <2>. QED BY <1>1, <2>1
<1>7. CASE Crash(n)
  <2>1. toPeers' = [toPeers EXCEPT ![n] = {}]
    BY <1>7 DEF Crash
  <2>. QED BY <1>1, <2>1 DEF IInv, TInv, TypeOK
<1>8. \A k \in Nodes : \A v \in Resend(k) : disk' = disk => NewPost(k, v)
  BY RecordsNew DEF Resend, IInv, TInv, TypeOK
<1>9. \A k \in Nodes, s \in SUBSET Files : \A v \in Records(k, s) : disk' = disk => NewPost(k, v)
  BY RecordsNew DEF Records
<1>10. CASE Restart(n)
  <2>1. disk' = disk /\ toPeers' = [toPeers EXCEPT ![n] = Resend(n)]
    BY <1>10 DEF Restart
  <2>. QED BY <1>1, <1>8, <2>1 DEF IInv, TInv, TypeOK
<1>11. CASE Repair(n)
  <2>1. disk' = disk
    BY <1>11 DEF Repair, Refresh, ByHand, AutoRepair, Exchange, SyncForced
  <2>2. CASE Refresh(n)
    <3>1. toPeers' = [toPeers EXCEPT ![n] = @ \cup Resend(n)]
      BY <2>2 DEF Refresh
    <3>. QED BY <1>1, <1>8, <2>1, <3>1 DEF IInv, TInv, TypeOK
  <2>3. CASE SyncForced
    <3>1. u \in toPeers[m] \/ \E f \in filesLog[m] : ldb[m][f] # NoRecord /\ u = Post(m, f, <<m>>, 0)
      BY <2>3 DEF SyncForced
    <3>. QED BY <1>1, <2>1, <3>1, RecordsNew DEF IInv, TInv, TypeOK
  <2>4. ASSUME NEW q \in Peers(n), Exchange(n, q)
        PROVE  Goal
    <3>. DEFINE A == Records(n, filesLog[n] \ filesLog[q])
                B == Records(q, filesLog[q] \ filesLog[n])
    <3>1. /\ filesLog[n] \ filesLog[q] \in SUBSET Files
          /\ filesLog[q] \ filesLog[n] \in SUBSET Files /\ q \in Nodes /\ q # n
      BY DEF IInv, TInv, TypeOK, Peers
    <3>2. (\A v \in A : NewPost(n, v)) /\ (\A v \in B : NewPost(q, v))
      BY <1>9, <2>1, <3>1
    <3>3. toPeers' = [toPeers EXCEPT ![n] = @ \cup A, ![q] = @ \cup B]
      BY <2>4 DEF Exchange
    <3>. HIDE DEF A, B
    <3>. QED BY <3>1, <3>2, <3>3 DEF IInv, TInv, TypeOK
  <2>. QED BY <1>1, <1>11, <2>2, <2>3, <2>4 DEF Repair, ByHand, AutoRepair
<1>. QED BY <1>2, <1>4, <1>5, <1>6, <1>7, <1>10, <1>11

LEMMA PostsHaveFileStep == IInv /\ NInv /\ Next => PostsHaveFile'
<1>. SUFFICES ASSUME IInv, NInv, Next, NEW m \in Nodes, NEW u \in toPeers'[m]
     PROVE  u.file \in disk'[m]
  BY DEF PostsHaveFile
<1>1. disk[m] \subseteq disk'[m]
  BY StaysStep DEF Stays
<1>2. \A t \in toPeers[m] : t.file \in disk[m]
  BY DEF NInv, PostsHaveFile
<1>. QED BY <1>1, <1>2, PostsAfter DEF PostAfter, NewPost

LEMMA PostsCoveredStep == IInv /\ NInv /\ Next => PostsCovered'
<1>. SUFFICES ASSUME IInv, NInv, Next, NEW m \in Nodes, NEW u \in toPeers'[m],
                     NEW p \in Peers(m)
     PROVE  Has(u.peers, p) \/ p \in u.todo \/ ErrorKept(m, u.file)'
  BY DEF PostsCovered, Covered, Peers
<1>1. \A t \in toPeers[m] : t.file \in Files /\ t.file \in disk[m]
  BY DEF IInv, TInv, TypeOK, Posting, NInv, PostsHaveFile
<1>2. \A t \in toPeers[m] : ~Crash(m) =>
        Has(t.peers, p) \/ p \in t.todo \/ ErrorKept(m, t.file)'
  BY <1>1, ErrorStays DEF NInv, PostsCovered, Covered
<1>3. CASE u \in toPeers[m] /\ ~Crash(m)
  BY <1>2, <1>3
<1>4. ASSUME NEW t \in toPeers[m], NEW q \in t.todo, ~Crash(m), PostAfter(m, t, q, u)
      PROVE  Has(u.peers, p) \/ p \in u.todo \/ ErrorKept(m, u.file)'
  <2>1. u.file = t.file
    BY <1>4 DEF PostAfter
  <2>. QED BY <1>1, <1>2, <1>4, <2>1 DEF PostAfter, Peers
<1>5. CASE NewPost(m, u)
  BY <1>5 DEF NewPost
<1>. QED BY <1>3, <1>4, <1>5, PostsAfter

\* Where the downloads after a step come from that have arrived, and the entries
\* for files.md5.
Arrives(m, d) ==
    \/ d \in fromPeers[m] \/ ~d.got
    \/ \E c \in fromPeers[m] : d.file = c.file /\ d.peers = c.peers /\ Wanted(m, c)
Logs(m, e) ==
    \/ Has(fileLogQ[m], e) \/ e.kind # "files"
    \/ \E d \in fromPeers[m] : d.got /\ e.file = d.file /\ e.peers = d.peers

LEMMA FetchesAfter ==
    ASSUME IInv, Next
    PROVE  /\ \A m \in Nodes : \A d \in fromPeers'[m] : Arrives(m, d)
           /\ \A m \in Nodes, e \in Entry : Has(fileLogQ'[m], e) => Logs(m, e)
<1>. PICK n \in Nodes :
        \/ \E g \in Files : Upload(n, g)
        \/ PostStep(n) \/ PostFault(n)
        \/ DownloadStep(n) \/ DownloadFault(n)
        \/ LogStep(n)
        \/ Repair(n)
        \/ Crash(n) \/ Restart(n)
  BY DEF Next
<1>. DEFINE Goal == /\ \A m \in Nodes : \A d \in fromPeers'[m] : Arrives(m, d)
                    /\ \A m \in Nodes, e \in Entry : Has(fileLogQ'[m], e) => Logs(m, e)
<1>2. ASSUME \A m \in Nodes : \A d \in fromPeers'[m] :
                d \in fromPeers[m] \/ Arrives(m, d),
             \A m \in Nodes, e \in Entry : Has(fileLogQ'[m], e) =>
                Has(fileLogQ[m], e) \/ Logs(m, e)
      PROVE  Goal
  BY <1>2 DEF Arrives, Logs
<1>3. CASE (\E g \in Files : Upload(n, g)) \/ Repair(n)
  <2>1. fileLogQ' = fileLogQ /\ fromPeers' = fromPeers
    BY <1>3 DEF Upload, Repair, Refresh, ByHand, AutoRepair, Exchange, SyncForced
  <2>. QED BY <1>2, <2>1
<1>4. CASE PostStep(n) \/ PostFault(n)
  <2>1. fromPeers' = fromPeers \/ \E t \in toPeers[n] : \E q \in t.todo : SyncFileInfo(q, t)
    BY <1>4 DEF PostStep, PostFault, PostSkip, PostKnown, PostOk, PostDone, PostFails, PostUnanswered
  <2>2. \A m \in Nodes : \A d \in fromPeers'[m] : d \in fromPeers[m] \/ ~d.got
    <3>1. ASSUME NEW t, NEW q, SyncFileInfo(q, t)
          PROVE  \A m \in Nodes : \A d \in fromPeers'[m] :
                    d \in fromPeers[m] \/ d = Fetch(t.file, t.peers)
      BY <3>1 DEF SyncFileInfo, IInv, TInv, TypeOK
    <3>. QED BY <2>1, <3>1 DEF Fetch
  <2>3. \A m \in Nodes, e \in Entry :
           Has(fileLogQ'[m], e) => Has(fileLogQ[m], e) \/ e.kind # "files"
    <3>1. CASE PostFault(n)
      BY <3>1, PostFaultEntries DEF PostFault
    <3>2. CASE PostStep(n)
      <4>1. fileLogQ' = fileLogQ \/ \E t \in toPeers[n] : \E q \in t.todo : PostOk(n, t, q)
        BY <3>2 DEF PostStep, PostSkip, PostKnown, PostDone
      <4>. QED BY <4>1, PostOkEntries
    <3>. QED BY <1>4, <3>1, <3>2
  <2>. QED BY <1>2, <2>2, <2>3 DEF Arrives, Logs
<1>5. CASE DownloadStep(n) \/ DownloadFault(n)
  <2>1. PICK d \in fromPeers[n] :
          \/ DownloadGivenUp(n, d) \/ DownloadNeedless(n, d) \/ DownloadFile(n, d)
          \/ DownloadLogged(n, d) \/ DownloadFails(n, d)
    BY <1>5 DEF DownloadStep, DownloadFault
  <2>2. d \in Fetching /\ Named(d.file, d.peers)
    BY DEF IInv, TInv, TypeOK, ListsNamed, FetchesNamed
  <2>3. CASE DownloadGivenUp(n, d) \/ DownloadNeedless(n, d)
    <3>1. fileLogQ' = fileLogQ /\ fromPeers' = [fromPeers EXCEPT ![n] = @ \ {d}]
      BY <2>3 DEF DownloadGivenUp, DownloadNeedless, Drop
    <3>2. \A m \in Nodes : fromPeers'[m] \subseteq fromPeers[m]
      BY <3>1 DEF IInv, TInv, TypeOK
    <3>. QED BY <1>2, <3>1, <3>2
  <2>4. CASE DownloadFile(n, d)
    <3>. DEFINE c == [d EXCEPT !.got = TRUE]
    <3>1. fileLogQ' = fileLogQ /\ fromPeers' = [fromPeers EXCEPT ![n] = (@ \ {d}) \cup {c}]
      BY <2>4 DEF DownloadFile
    <3>2. c.file = d.file /\ c.peers = d.peers /\ Wanted(n, d)
      BY <2>2, <2>4 DEF DownloadFile, Fetching
    <3>. HIDE DEF c
    <3>3. \A m \in Nodes : \A x \in fromPeers'[m] : x \in fromPeers[m] \/ (m = n /\ x = c)
      BY <3>1 DEF IInv, TInv, TypeOK
    <3>. QED BY <1>2, <3>1, <3>2, <3>3 DEF Arrives
  <2>5. CASE DownloadLogged(n, d)
    <3>1. /\ fromPeers' = [fromPeers EXCEPT ![n] = @ \ {d}] /\ d.got
          /\ fileLogQ' = [fileLogQ EXCEPT ![n] = Append(@, FilesEntry(d))]
      BY <2>5 DEF DownloadLogged, Drop
    <3>2. FilesEntry(d) \in Entry /\ FilesEntry(d).peers = d.peers /\ FilesEntry(d).file = d.file
      BY <2>2 DEF FilesEntry, Entry, Fetching
    <3>3. \A m \in Nodes : fromPeers'[m] \subseteq fromPeers[m]
      BY <3>1 DEF IInv, TInv, TypeOK
    <3>4. \A m \in Nodes, e \in Entry :
            Has(fileLogQ'[m], e) => Has(fileLogQ[m], e) \/ Logs(m, e)
      <4>1. \A m \in Nodes, e \in Entry : Has(fileLogQ'[m], e) =>
              Has(fileLogQ[m], e) \/ (m = n /\ e = FilesEntry(d))
        <5>1. fileLogQ \in [Nodes -> Seq(Entry)]
          BY DEF IInv, TInv, TypeOK
        <5>2. \A m \in Nodes : m # n => fileLogQ'[m] = fileLogQ[m]
          BY <3>1, <5>1
        <5>. QED BY <3>1, <3>2, <5>1, <5>2, AppendNamed
      <4>. QED BY <3>1, <3>2, <4>1 DEF Logs
    <3>. QED BY <1>2, <3>3, <3>4
  <2>6. CASE DownloadFails(n, d)
    <3>. DEFINE c == [d EXCEPT !.retry = @ + 1]
    <3>1. fileLogQ' = fileLogQ /\ fromPeers' = [fromPeers EXCEPT ![n] = (@ \ {d}) \cup {c}]
      BY <2>6 DEF DownloadFails
    <3>2. ~c.got
      BY <2>2, <2>6 DEF DownloadFails, Wanted, Fetching
    <3>. HIDE DEF c
    <3>3. \A m \in Nodes : \A x \in fromPeers'[m] : x \in fromPeers[m] \/ x = c
      BY <3>1 DEF IInv, TInv, TypeOK
    <3>. QED BY <1>2, <3>1, <3>2, <3>3 DEF Arrives
  <2>. QED BY <2>1, <2>3, <2>4, <2>5, <2>6
<1>6. CASE LogStep(n)
  <2>1. /\ fromPeers' = fromPeers /\ fileLogQ' = [fileLogQ EXCEPT ![n] = Tail(@)]
        /\ fileLogQ[n] # <<>>
    BY <1>6 DEF LogStep
  <2>2. \A m \in Nodes, e \in Entry : Has(fileLogQ'[m], e) => Has(fileLogQ[m], e)
    BY <2>1, HasTail DEF IInv, TInv, TypeOK
  <2>. QED BY <1>2, <2>1, <2>2
<1>7. CASE Crash(n)
  <2>1. \A m \in Nodes, e \in Entry : Has(fileLogQ'[m], e) => Has(fileLogQ[m], e)
    BY <1>7 DEF Crash, Has, IInv, TInv, TypeOK
  <2>2. \A m \in Nodes : fromPeers'[m] \subseteq fromPeers[m]
    BY <1>7 DEF Crash, IInv, TInv, TypeOK
  <2>. QED BY <1>2, <2>1, <2>2
<1>8. CASE Restart(n)
  <2>1. fileLogQ' = fileLogQ
    BY <1>8 DEF Restart
  <2>2. \A m \in Nodes : \A d \in fromPeers'[m] : d \in fromPeers[m] \/ ~d.got
    BY <1>8 DEF Restart, Fetch, IInv, TInv, TypeOK
  <2>. QED BY <1>2, <2>1, <2>2 DEF Arrives
<1>. QED BY <1>3, <1>4, <1>5, <1>6, <1>7, <1>8

\* A node that fetches a file did not have it: the list it fetched with begins
\* with another node, which has it.
LEMMA FetchedFromOtherStep == IInv /\ NInv /\ Next => FetchedFromOther'
<1>. SUFFICES ASSUME IInv, NInv, Next PROVE FetchedFromOther'
  OBVIOUS
<1>1. /\ \A m \in Nodes : \A d \in fromPeers[m] : d.got => d.peers[1] # m
      /\ \A m \in Nodes, e \in Entry :
            Has(fileLogQ[m], e) /\ e.kind = "files" => e.peers[1] # m
  BY DEF NInv, FetchedFromOther
<1>2. ASSUME NEW m \in Nodes, NEW c \in fromPeers[m], Wanted(m, c) PROVE c.peers[1] # m
  <2>1. Named(c.file, c.peers) /\ c.file \notin disk[m]
    BY <1>2 DEF Wanted, IInv, ListsNamed, FetchesNamed
  <2>. QED BY <2>1 DEF Named
<1>. QED BY <1>1, <1>2, FetchesAfter DEF Arrives, Logs, FetchedFromOther

LEMMA DownPostsNothingStep == IInv /\ NInv /\ Next => DownPostsNothing'
<1>. SUFFICES ASSUME IInv, NInv, Next PROVE DownPostsNothing'
  OBVIOUS
<1>. PICK n \in Nodes :
        \/ \E g \in Files : Upload(n, g)
        \/ PostStep(n) \/ PostFault(n)
        \/ DownloadStep(n) \/ DownloadFault(n)
        \/ LogStep(n)
        \/ Repair(n)
        \/ Crash(n) \/ Restart(n)
  BY DEF Next
<1>1. \A m \in Nodes : m \notin up => toPeers[m] = {}
  BY DEF NInv, DownPostsNothing
<1>2. CASE (\E g \in Files : Upload(n, g)) \/ PostStep(n) \/ PostFault(n) \/ Refresh(n)
  <2>1. up' = up /\ n \in up /\ \A m \in Nodes : m # n => toPeers'[m] = toPeers[m]
    BY <1>2 DEF Upload, PostStep, PostFault, PostSkip, PostKnown, PostOk, PostDone, PostFails,
                PostUnanswered, NextPost, Refresh, IInv, TInv, TypeOK
  <2>. QED BY <1>1, <2>1 DEF DownPostsNothing
<1>3. CASE DownloadStep(n) \/ DownloadFault(n) \/ LogStep(n)
  <2>1. up' = up /\ toPeers' = toPeers
    BY <1>3 DEF DownloadStep, DownloadFault, DownloadGivenUp, DownloadNeedless, DownloadFile,
                DownloadLogged, DownloadFails, LogStep
  <2>. QED BY <1>1, <2>1 DEF DownPostsNothing
<1>4. CASE SyncForced
  BY <1>1, <1>4 DEF SyncForced, DownPostsNothing
<1>5. ASSUME NEW q \in Peers(n), n \in up, q \in up, Exchange(n, q)
      PROVE  DownPostsNothing'
  <2>1. up' = up /\ \A m \in Nodes : m # n /\ m # q => toPeers'[m] = toPeers[m]
    BY <1>5 DEF Exchange, IInv, TInv, TypeOK
  <2>. QED BY <1>1, <1>5, <2>1 DEF DownPostsNothing
<1>6. CASE Repair(n)
  BY <1>2, <1>4, <1>5, <1>6 DEF Repair, ByHand, AutoRepair, Comparable
<1>7. CASE Crash(n) \/ Restart(n)
  BY <1>1, <1>7 DEF Crash, Restart, DownPostsNothing, IInv, TInv, TypeOK
<1>. QED BY <1>2, <1>3, <1>6, <1>7

\* A record that is not saved, by a node that does not die, loses no peer that
\* is still posted to.
LEMMA RecordSame ==
    ASSUME IInv, NInv, Next, NEW n \in Nodes, NEW f \in Files, ~Crash(n),
           ldb'[n][f] = ldb[n][f], unsent'[n] = unsent[n],
           \A q \in Peers(n) : Pending(n, f, q) => Pending(n, f, q)' \/ ErrorKept(n, f)'
    PROVE  RecordKeeps(n, f)'
BY ErrorStays DEF NInv, RecordsKeep, RecordKeeps, Peers

\* Posts that stay are as pending as they were.
LEMMA PendingStays ==
    ASSUME IInv, NEW n \in Nodes, toPeers[n] \subseteq toPeers'[n]
    PROVE  \A f \in Files, q \in Nodes : Pending(n, f, q) => Pending(n, f, q)'
BY DEF Pending

\* A step of a post leaves the posts of other files, and of other nodes, alone.
LEMMA PendingOthers ==
    ASSUME IInv, NEW n \in Nodes, NEW t \in toPeers[n], NEW s, NextPost(n, t, s)
    PROVE  \A m \in Nodes, f \in Files, q \in Nodes :
              m # n \/ f # t.file => (Pending(m, f, q) => Pending(m, f, q)')
<1>1. /\ \A m \in Nodes : m # n => toPeers'[m] = toPeers[m]
      /\ toPeers'[n] = (toPeers[n] \ {t}) \cup s
  BY DEF NextPost, IInv, TInv, TypeOK
<1>. QED BY <1>1 DEF Pending

\* The record that a post saves lacks only peers that this post has still to
\* reach, or whose failure is noted.
LEMMA SaveKeeps ==
    ASSUME IInv, NInv, Next, NEW n \in Nodes, NEW t \in toPeers[n], NEW q \in t.todo,
           PostKnown(n, t, q) \/ PostOk(n, t, q)
    PROVE  RecordKeeps(n, t.file)'
<1>. DEFINE u == [t EXCEPT !.peers = Append(@, q), !.todo = @ \ {q}]
<1>1. u.file = t.file /\ u.peers = Append(t.peers, q) /\ u.todo = t.todo \ {q}
  BY PeerAdded
<1>2. t \in Posting /\ q \in Nodes /\ t.file \in Files
  BY DEF IInv, TInv, TypeOK, TodoIsPeers, Peers, Posting
<1>3. NextPost(n, t, {u}) /\ SaveRecord(n, t.file, Append(t.peers, q)) /\ ~Crash(n)
  BY DEF PostKnown, PostOk, Crash
<1>. HIDE DEF u
<1>4. u \in toPeers'[n] /\ ldb'[n][t.file] = Append(t.peers, q)
  BY <1>2, <1>3 DEF NextPost, SaveRecord, IInv, TInv, TypeOK
<1>5. \A p : Has(Append(t.peers, q), p) <=> Has(t.peers, p) \/ p = q
  BY <1>2, HasAppend DEF Posting
<1>6. \A p \in Peers(n) : Has(t.peers, p) \/ p \in t.todo \/ ErrorKept(n, t.file)'
  BY <1>2, <1>3, ErrorStays DEF NInv, PostsCovered, Covered
<1>7. \A p \in Peers(n) :
        \/ Has(ldb'[n][t.file], p)
        \/ p \in u.todo /\ ~Has(u.peers, p)
        \/ ErrorKept(n, t.file)'
  BY <1>1, <1>4, <1>5, <1>6
<1>8. \A p \in Peers(n) : p \in u.todo /\ ~Has(u.peers, p) => Pending(n, t.file, p)'
  BY <1>1, <1>4 DEF Pending
<1>. QED BY <1>7, <1>8 DEF RecordKeeps, Peers

LEMMA RecordsKeepPost ==
    ASSUME IInv, NInv, Next, NEW n \in Nodes, PostStep(n) \/ PostFault(n)
    PROVE  RecordsKeep'
<1>. SUFFICES ASSUME NEW m \in Nodes, NEW f \in Files PROVE RecordKeeps(m, f)'
  BY DEF RecordsKeep
<1>1. PICK t \in toPeers[n] :
        \/ PostDone(n, t)
        \/ \E q \in t.todo : \/ PostSkip(n, t, q) \/ PostKnown(n, t, q) \/ PostOk(n, t, q)
                             \/ PostFails(n, t, q) \/ PostUnanswered(n, t, q)
  BY DEF PostStep, PostFault
<1>2. unsent' = unsent /\ ~Crash(m) /\ t \in Posting /\ t.file \in Files
  <2>1. up' = up /\ unsent' = unsent
    BY <1>1 DEF PostDone, PostSkip, PostKnown, PostOk, PostFails, PostUnanswered, history
  <2>. QED BY <2>1 DEF Crash, IInv, TInv, TypeOK, Posting
\* Only the record of t's file, here, can change.
<1>3. CASE m # n \/ f # t.file
  <2>1. ldb'[m][f] = ldb[m][f]
    <3>1. ldb' = ldb \/ \E L : ldb' = [ldb EXCEPT ![n][t.file] = L]
      BY <1>1 DEF PostDone, PostSkip, PostKnown, PostOk, PostFails, PostUnanswered, SaveRecord
    <3>. QED BY <1>3, <3>1 DEF IInv, TInv, TypeOK
  <2>2. \E s : NextPost(n, t, s)
    BY <1>1 DEF PostDone, PostSkip, PostKnown, PostOk, PostFails, PostUnanswered
  <2>3. \A q \in Peers(m) : Pending(m, f, q) => Pending(m, f, q)'
    BY <1>3, <2>2, PendingOthers DEF Peers
  <2>. QED BY <1>2, <2>1, <2>3, RecordSame
<1>4. CASE m = n /\ f = t.file
  <2>1. ASSUME NEW q \in t.todo, PostKnown(n, t, q) \/ PostOk(n, t, q)
        PROVE  RecordKeeps(m, f)'
    BY <1>4, <2>1, SaveKeeps
  <2>2. ASSUME NEW q \in t.todo, PostFails(n, t, q) \/ PostUnanswered(n, t, q)
        PROVE  RecordKeeps(m, f)'
    BY <1>4, <2>2, PostFaultEntries DEF RecordKeeps
  <2>3. CASE PostDone(n, t)
    <3>1. toPeers'[n] = toPeers[n] \ {t} /\ t.todo = {} /\ ldb' = ldb
      BY <2>3 DEF PostDone, NextPost, IInv, TInv, TypeOK
    <3>2. \A q \in Peers(m) : Pending(m, f, q) => Pending(m, f, q)'
      BY <1>4, <3>1 DEF Pending
    <3>. QED BY <1>2, <3>1, <3>2, RecordSame
  <2>4. ASSUME NEW q \in t.todo, PostSkip(n, t, q)
        PROVE  RecordKeeps(m, f)'
    <3>. DEFINE u == [t EXCEPT !.todo = @ \ {q}]
    <3>1. toPeers'[n] = (toPeers[n] \ {t}) \cup {u} /\ ldb' = ldb
      BY <2>4 DEF PostSkip, NextPost, IInv, TInv, TypeOK
    <3>2. u.file = t.file /\ u.peers = t.peers /\ u.todo = t.todo \ {q}
      BY <1>2 DEF Posting
    <3>3. Has(t.peers, q)
      BY <2>4 DEF PostSkip, NInv, PostsHaveFile
    <3>. HIDE DEF u
    <3>4. \A p \in Peers(m) : Pending(m, f, p) => Pending(m, f, p)'
      BY <1>4, <3>1, <3>2, <3>3 DEF Pending
    <3>. QED BY <1>2, <3>1, <3>4, RecordSame
  <2>. QED BY <1>1, <2>1, <2>2, <2>3, <2>4
<1>. QED BY <1>3, <1>4

\* A node that dies: what it had still to post or to note is in unsent.
LEMMA RecordsKeepCrash ==
    ASSUME IInv, NInv, Next, NEW n \in Nodes, Crash(n)
    PROVE  RecordsKeep'
<1>. SUFFICES ASSUME NEW m \in Nodes, NEW f \in Files PROVE RecordKeeps(m, f)'
  BY DEF RecordsKeep
<1>1. /\ ldb' = ldb /\ errLog' = errLog
      /\ toPeers' = [toPeers EXCEPT ![n] = {}]
      /\ unsent' = [unsent EXCEPT ![n] = @ \cup {t.file : t \in toPeers[n]}
                                           \cup {e.file : e \in Entries(n, "errors")}]
  BY DEF Crash, logs
<1>2. CASE m # n
  <2>1. toPeers'[m] = toPeers[m] /\ unsent'[m] = unsent[m]
    BY <1>1, <1>2 DEF IInv, TInv, TypeOK
  <2>2. ~Crash(m)
    BY <1>2 DEF Crash, IInv, TInv, TypeOK
  <2>3. \A q \in Peers(m) : Pending(m, f, q) => Pending(m, f, q)'
    BY <2>1, PendingStays DEF Peers
  <2>. QED BY <1>1, <2>1, <2>2, <2>3, RecordSame
<1>3. CASE m = n
  <2>. SUFFICES ASSUME ldb[n][f] # NoRecord, ldb[n][f][1] = n, f \notin unsent'[n],
                       NEW q \in Peers(n)
       PROVE  Has(ldb[n][f], q) \/ ErrorKept(n, f)'
    BY <1>1, <1>3 DEF RecordKeeps, Peers
  <2>1. /\ f \notin unsent[n]
        /\ \A t \in toPeers[n] : t.file # f
        /\ \A e \in Entries(n, "errors") : e.file # f
    BY <1>1 DEF IInv, TInv, TypeOK
  <2>2. ErrorKept(n, f) => f \in errLog[n]
    BY <2>1 DEF ErrorKept, Entries, Has
  <2>3. Has(ldb[n][f], q) \/ Pending(n, f, q) \/ ErrorKept(n, f)
    BY <2>1 DEF NInv, RecordsKeep, RecordKeeps
  <2>. QED BY <1>1, <2>1, <2>2, <2>3 DEF Pending, ErrorKept
<1>. QED BY <1>2, <1>3

LEMMA RecordsKeepStep == IInv /\ NInv /\ Next => RecordsKeep'
<1>. SUFFICES ASSUME IInv, NInv, Next, NEW m \in Nodes, NEW f \in Files
     PROVE  RecordKeeps(m, f)'
  BY DEF RecordsKeep
<1>. PICK n \in Nodes :
        \/ \E g \in Files : Upload(n, g)
        \/ PostStep(n) \/ PostFault(n)
        \/ DownloadStep(n) \/ DownloadFault(n)
        \/ LogStep(n)
        \/ Repair(n)
        \/ Crash(n) \/ Restart(n)
  BY DEF Next
<1>1. ASSUME ldb'[m][f] = ldb[m][f], unsent' = unsent, toPeers[m] \subseteq toPeers'[m], ~Crash(m)
      PROVE  RecordKeeps(m, f)'
  <2>1. \A q \in Peers(m) : Pending(m, f, q) => Pending(m, f, q)'
    BY <1>1, PendingStays DEF Peers
  <2>. QED BY <1>1, <2>1, RecordSame
<1>2. ASSUME NEW g \in Files, Upload(n, g)
      PROVE  RecordKeeps(m, f)'
  <2>. DEFINE t == Post(n, g, <<n>>, 0)
  <2>1. /\ ldb' = [ldb EXCEPT ![n][g] = <<n>>] /\ unsent' = unsent /\ up' = up
        /\ toPeers' = [toPeers EXCEPT ![n] = @ \cup {t}]
    BY <1>2 DEF Upload, SaveRecord
  <2>2. ~Crash(m)
    BY <2>1 DEF Crash, IInv, TInv, TypeOK
  <2>3. t.file = g /\ t.peers = <<n>> /\ t.todo = Peers(n)
    BY DEF Post
  <2>. HIDE DEF t
  <2>4. CASE m = n /\ f = g
    <3>1. t \in toPeers'[n]
      BY <2>1 DEF IInv, TInv, TypeOK
    <3>2. \A q \in Peers(n) : ~Has(t.peers, q)
      BY <2>3 DEF Has, Peers
    <3>3. \A q \in Peers(n) : Pending(n, g, q)'
      BY <2>3, <3>1, <3>2 DEF Pending
    <3>. QED BY <2>4, <3>3 DEF RecordKeeps, Peers
  <2>5. CASE m # n \/ f # g
    BY <1>1, <2>1, <2>2, <2>5 DEF IInv, TInv, TypeOK
  <2>. QED BY <2>4, <2>5
<1>3. CASE DownloadStep(n) \/ DownloadFault(n)
  <2>1. ldb' = ldb /\ unsent' = unsent /\ toPeers' = toPeers /\ up' = up
    BY <1>3 DEF DownloadStep, DownloadFault, DownloadGivenUp, DownloadNeedless, DownloadFile,
                DownloadLogged, DownloadFails, history
  <2>. QED BY <1>1, <2>1 DEF Crash, IInv, TInv, TypeOK
<1>4. CASE LogStep(n)
  <2>1. unsent' = unsent /\ toPeers' = toPeers /\ ~Crash(m)
    BY <1>4 DEF LogStep, history, Crash, IInv, TInv, TypeOK
  <2>2. fileLogQ[n] \in Seq(Entry) /\ fileLogQ[n] # <<>>
    BY <1>4 DEF IInv, TInv, TypeOK, LogStep
  <2>3. PICK e \in Entry : e = Head(fileLogQ[n]) /\ Has(fileLogQ[n], e)
    BY <2>2, HasHead
  <2>4. ldb' = ldb \/ (e.kind = "files" /\ ldb' = [ldb EXCEPT ![n][e.file] = e.peers])
    BY <1>4, <2>3 DEF LogStep, SaveRecord
  <2>5. CASE ldb'[m][f] = ldb[m][f]
    BY <1>1, <2>1, <2>5
  <2>6. CASE ldb'[m][f] # ldb[m][f]
    <3>1. m = n /\ e.kind = "files" /\ ldb'[m][f] = e.peers
      BY <2>4, <2>6 DEF IInv, TInv, TypeOK
    <3>2. e.peers[1] # n
      BY <2>3, <3>1 DEF NInv, FetchedFromOther
    <3>. QED BY <3>1, <3>2 DEF RecordKeeps
  <2>. QED BY <2>5, <2>6
<1>5. CASE Repair(n)
  <2>1. ldb' = ldb /\ unsent' = unsent /\ up' = up
    BY <1>5 DEF Repair, Refresh, ByHand, AutoRepair, Exchange, SyncForced, history
  <2>2. toPeers[m] \subseteq toPeers'[m]
    <3>1. ASSUME NEW q \in Peers(n), Exchange(n, q)
          PROVE  toPeers[m] \subseteq toPeers'[m]
      BY <3>1 DEF Exchange, IInv, TInv, TypeOK, Peers
    <3>2. Refresh(n) \/ SyncForced => toPeers[m] \subseteq toPeers'[m]
      BY DEF Refresh, SyncForced, IInv, TInv, TypeOK
    <3>. QED BY <1>5, <3>1, <3>2 DEF Repair, ByHand, AutoRepair
  <2>. QED BY <1>1, <2>1, <2>2 DEF Crash, IInv, TInv, TypeOK
<1>6. CASE Restart(n)
  <2>1. /\ ldb' = ldb /\ unsent' = unsent /\ up' = up \cup {n} /\ n \notin up
        /\ toPeers' = [toPeers EXCEPT ![n] = Resend(n)]
    BY <1>6 DEF Restart, history
  <2>2. toPeers[n] = {}
    BY <2>1 DEF NInv, DownPostsNothing
  <2>3. toPeers[m] \subseteq toPeers'[m]
    BY <2>1, <2>2 DEF IInv, TInv, TypeOK
  <2>. QED BY <1>1, <2>1, <2>3 DEF Crash, IInv, TInv, TypeOK
<1>. QED BY <1>2, <1>3, <1>4, <1>5, <1>6, RecordsKeepPost, RecordsKeepCrash DEF RecordsKeep

LEMMA KeepsInvariance == Spec => []NInv
<1>1. Init => NInv
  BY DEF Init, NInv, PostsHaveFile, PostsCovered, FetchedFromOther, DownPostsNothing,
         RecordsKeep, RecordKeeps, Has
<1>2. IInv /\ NInv /\ [Next]_vars => NInv'
  <2>. SUFFICES ASSUME IInv, NInv, [Next]_vars PROVE NInv'
    OBVIOUS
  <2>1. CASE UNCHANGED vars
    BY <2>1 DEF vars, NInv, PostsHaveFile, PostsCovered, Covered, FetchedFromOther,
                DownPostsNothing, RecordsKeep, RecordKeeps, Pending, ErrorKept, Peers
  <2>2. CASE Next
    BY <2>2, PostsHaveFileStep, PostsCoveredStep, FetchedFromOtherStep,
       DownPostsNothingStep, RecordsKeepStep DEF NInv
  <2>. QED BY <2>1, <2>2
<1>. QED BY <1>1, <1>2, Invariance, PTL DEF Spec

\* Between retries, lost updates of Peers, crashes, restarts and repairs, the
\* uploader's record lacks no peer that nobody will post to again.
THEOREM PeersRemembered == Spec => []NoPeerForgotten
<1>1. IInv /\ NInv => NoPeerForgotten
  <2>. SUFFICES ASSUME IInv, NInv, NEW n \in up, NEW f \in Files, ldb[n][f] # NoRecord,
                       ldb[n][f][1] = n, f \notin unsent[n], NEW q \in Peers(n)
       PROVE  \/ Has(ldb[n][f], q)
              \/ \E t \in toPeers[n] : t.file = f /\ q \in t.todo /\ ~Has(t.peers, q)
              \/ f \in errLog[n]
              \/ \E e \in Entries(n, "errors") : e.file = f
    BY DEF NoPeerForgotten
  <2>1. n \in Nodes
    BY DEF IInv, TInv, TypeOK
  <2>2. Has(ldb[n][f], q) \/ Pending(n, f, q) \/ ErrorKept(n, f)
    BY <2>1 DEF NInv, RecordsKeep, RecordKeeps
  <2>. QED BY <2>2 DEF Pending, ErrorKept, Entries, Has
<1>. QED BY <1>1, Invariance, KeepsInvariance, PTL

-----------------------------------------------------------------------------
(* The end of replication. A node owns a file when its record of it begins *)
(* with itself, and nothing it has to do will save another one: the        *)
(* uploader does, over its crashes.                                        *)

Owns(n, f) ==
    /\ f \in disk[n] /\ ldb[n][f] # NoRecord /\ ldb[n][f][1] = n
    /\ \A t \in toPeers[n] : t.file = f => t.peers[1] = n
    /\ \A d \in fromPeers[n] : d.file = f => ~d.got
    /\ \A e \in Entry : Has(fileLogQ[n], e) => ~(e.kind = "files" /\ e.file = f)

Owned == \A f \in uploaded : \E n \in Nodes : Owns(n, f)

\* A list that got longer begins as it did.
LEMMA FirstStays ==
    ASSUME NEW s \in Seq(Nodes), s # <<>>, NEW q \in Nodes
    PROVE  Append(s, q)[1] = s[1] /\ With(s, q)[1] = s[1]
BY DEF With

\* A post begins with the node itself, or as a post or the record before it.
LEMMA PostsBegin ==
    ASSUME IInv, Next, NEW m \in Nodes, NEW u \in toPeers'[m]
    PROVE  \/ u.peers[1] = m
           \/ \E t \in toPeers[m] : t.file = u.file /\ t.peers[1] = u.peers[1]
           \/ ldb[m][u.file] # NoRecord /\ u.peers[1] = ldb[m][u.file][1]
<1>. DEFINE Begins(k, v) ==
              \/ v.peers[1] = k
              \/ \E t \in toPeers[k] : t.file = v.file /\ t.peers[1] = v.peers[1]
              \/ ldb[k][v.file] # NoRecord /\ v.peers[1] = ldb[k][v.file][1]
<1>. SUFFICES Begins(m, u)
  OBVIOUS
<1>. PICK n \in Nodes :
        \/ \E g \in Files : Upload(n, g)
        \/ PostStep(n) \/ PostFault(n)
        \/ DownloadStep(n) \/ DownloadFault(n)
        \/ LogStep(n)
        \/ Repair(n)
        \/ Crash(n) \/ Restart(n)
  BY DEF Next
<1>1. \A v \in toPeers[m] : Begins(m, v)
  OBVIOUS
<1>2. CASE \E f \in Files : Upload(n, f)
  <2>1. PICK f \in Files : toPeers' = [toPeers EXCEPT ![n] = @ \cup {Post(n, f, <<n>>, 0)}]
    BY <1>2 DEF Upload
  <2>2. Begins(n, Post(n, f, <<n>>, 0))
    BY DEF Post
  <2>. HIDE DEF Begins
  <2>. QED BY <1>1, <2>1, <2>2 DEF IInv, TInv, TypeOK
<1>3. ASSUME NEW t \in toPeers[n], NEW s, NextPost(n, t, s), \A v \in s : Begins(n, v)
      PROVE  Begins(m, u)
  <2>. HIDE DEF Begins
  <2>. QED BY <1>1, <1>3 DEF NextPost, IInv, TInv, TypeOK
<1>4. CASE PostStep(n) \/ PostFault(n)
  <2>1. PICK t \in toPeers[n] :
          \/ \E q \in t.todo :
               \/ PostSkip(n, t, q) \/ PostKnown(n, t, q) \/ PostOk(n, t, q)
               \/ PostFails(n, t, q) \/ PostUnanswered(n, t, q)
          \/ PostDone(n, t)
    BY <1>4 DEF PostStep, PostFault
  <2>2. t \in Posting /\ t.todo \subseteq Nodes /\ t.peers \in Seq(Nodes) /\ t.peers # <<>>
    BY DEF IInv, TInv, TypeOK, Posting, ListsNamed, PostsNamed, Named
  <2>3. CASE PostDone(n, t)
    BY <1>3, <2>3 DEF PostDone
  <2>4. ASSUME NEW q \in t.todo, PostSkip(n, t, q)
        PROVE  Begins(m, u)
    <3>. DEFINE v == [t EXCEPT !.todo = @ \ {q}]
    <3>1. v.file = t.file /\ v.peers = t.peers /\ NextPost(n, t, {v})
      BY <2>2, <2>4 DEF PostSkip, Posting
    <3>. HIDE DEF v
    <3>. QED BY <1>3, <3>1
  <2>5. ASSUME NEW q \in t.todo, PostKnown(n, t, q) \/ PostOk(n, t, q)
        PROVE  Begins(m, u)
    <3>. DEFINE v == [t EXCEPT !.peers = Append(@, q), !.todo = @ \ {q}]
    <3>1. v.file = t.file /\ v.peers = Append(t.peers, q) /\ NextPost(n, t, {v})
      BY <2>5, PeerAdded DEF PostKnown, PostOk
    <3>2. v.peers[1] = t.peers[1]
      BY <2>2, <3>1, FirstStays
    <3>. HIDE DEF v
    <3>. QED BY <1>3, <3>1, <3>2
  <2>6. ASSUME NEW q \in t.todo, PostFails(n, t, q) \/ PostUnanswered(n, t, q)
        PROVE  Begins(m, u)
    <3>1. NextPost(n, t, Retried(n, t, q))
      BY <2>6 DEF PostFails, PostUnanswered
    <3>2. \A v \in Retried(n, t, q) : v.file = t.file /\ v.peers = t.peers
      BY <2>2, RetriedIs
    <3>. QED BY <1>3, <3>1, <3>2
  <2>. QED BY <2>1, <2>3, <2>4, <2>5, <2>6
<1>5. CASE DownloadStep(n) \/ DownloadFault(n) \/ LogStep(n)
  <2>1. toPeers' = toPeers
    BY <1>5 DEF DownloadStep, DownloadFault, DownloadGivenUp, DownloadNeedless, DownloadFile,
                DownloadLogged, DownloadFails, LogStep
  <2>. QED BY <1>1, <2>1
<1>6. CASE Crash(n)
  <2>1. toPeers' = [toPeers EXCEPT ![n] = {}]
    BY <1>6 DEF Crash
  <2>. QED BY <1>1, <2>1 DEF IInv, TInv, TypeOK
<1>7. \A k \in Nodes : \A v \in Resend(k) : Begins(k, v)
  <2>. SUFFICES ASSUME NEW k \in Nodes, NEW v \in Resend(k) PROVE Begins(k, v)
    OBVIOUS
  <2>1. PICK f \in errLog[k] : ldb[k][f] # NoRecord /\ v = Post(k, f, With(ldb[k][f], k), 0)
    BY DEF Resend
  <2>2. f \in Files /\ ldb[k][f] \in Seq(Nodes) /\ ldb[k][f] # <<>>
    BY <2>1 DEF IInv, TInv, TypeOK, ListsNamed, RecordsNamed, Named
  <2>3. With(ldb[k][f], k)[1] = ldb[k][f][1]
    BY <2>2, FirstStays
  <2>4. v.file = f /\ v.peers = With(ldb[k][f], k)
    BY <2>1 DEF Post
  <2>. QED BY <2>1, <2>3, <2>4
<1>8. \A k \in Nodes, s \in SUBSET Files : \A v \in Records(k, s) : Begins(k, v)
  BY DEF Records, Post
<1>9. CASE Restart(n)
  <2>1. toPeers' = [toPeers EXCEPT ![n] = Resend(n)]
    BY <1>9 DEF Restart
  <2>. HIDE DEF Begins
  <2>. QED BY <1>1, <1>7, <2>1 DEF IInv, TInv, TypeOK
<1>10. CASE Repair(n)
  <2>1. CASE Refresh(n)
    <3>1. toPeers' = [toPeers EXCEPT ![n] = @ \cup Resend(n)]
      BY <2>1 DEF Refresh
    <3>. HIDE DEF Begins
    <3>. QED BY <1>1, <1>7, <3>1 DEF IInv, TInv, TypeOK
  <2>2. CASE SyncForced
    <3>1. u \in toPeers[m] \/ \E f \in filesLog[m] : u = Post(m, f, <<m>>, 0)
      BY <2>2 DEF SyncForced
    <3>2. \A f : Begins(m, Post(m, f, <<m>>, 0))
      BY DEF Post
    <3>. HIDE DEF Begins
    <3>. QED BY <1>1, <3>1, <3>2
  <2>3. ASSUME NEW q \in Peers(n), Exchange(n, q)
        PROVE  Begins(m, u)
    <3>. DEFINE A == Records(n, filesLog[n] \ filesLog[q])
                B == Records(q, filesLog[q] \ filesLog[n])
    <3>1. /\ filesLog[n] \ filesLog[q] \in SUBSET Files
          /\ filesLog[q] \ filesLog[n] \in SUBSET Files /\ q \in Nodes /\ q # n
      BY DEF IInv, TInv, TypeOK, Peers
    <3>. HIDE DEF Begins
    <3>2. (\A v \in A : Begins(n, v)) /\ (\A v \in B : Begins(q, v))
      BY <1>8, <3>1
    <3>3. toPeers' = [toPeers EXCEPT ![n] = @ \cup A, ![q] = @ \cup B]
      BY <2>3 DEF Exchange
    <3>. HIDE DEF A, B
    <3>. QED BY <1>1, <3>1, <3>2, <3>3 DEF IInv, TInv, TypeOK
  <2>. QED BY <1>10, <2>1, <2>2, <2>3 DEF Repair, ByHand, AutoRepair
<1>. QED BY <1>2, <1>4, <1>5, <1>6, <1>9, <1>10

\* Who owns a file owns it for ever.
LEMMA OwnsStays ==
    ASSUME IInv, Next, NEW n \in Nodes, NEW f \in Files, Owns(n, f)
    PROVE  Owns(n, f)'
<1>. PICK m \in Nodes :
        \/ \E g \in Files : Upload(m, g)
        \/ PostStep(m) \/ PostFault(m)
        \/ DownloadStep(m) \/ DownloadFault(m)
        \/ LogStep(m)
        \/ Repair(m)
        \/ Crash(m) \/ Restart(m)
  BY DEF Next
<1>1. f \in disk'[n]
  BY StaysStep DEF Owns, Stays
<1>2. \A u \in toPeers'[n] : u.file = f => u.peers[1] = n
  BY PostsBegin DEF Owns
<1>3. ldb'[n][f] # NoRecord /\ ldb'[n][f][1] = n
  <2>1. CASE \E g \in Files : Upload(m, g)
    <3>1. PICK g \in Files : Upload(m, g)
      BY <2>1
    <3>2. g # f
      BY <3>1 DEF Upload, Owns, IInv, OnDiskUploaded
    <3>3. ldb'[n][f] = ldb[n][f]
      BY <3>1, <3>2 DEF Upload, SaveRecord, IInv, TInv, TypeOK
    <3>. QED BY <3>3 DEF Owns
  <2>2. CASE PostStep(m)
    <3>1. PICK t \in toPeers[m] :
            \/ \E q \in t.todo : PostSkip(m, t, q) \/ PostKnown(m, t, q) \/ PostOk(m, t, q)
            \/ PostDone(m, t)
      BY <2>2 DEF PostStep
    <3>2. t \in Posting /\ t.todo \subseteq Nodes /\ t.peers \in Seq(Nodes) /\ t.peers # <<>> /\ t.file \in Files
      BY DEF IInv, TInv, TypeOK, Posting, ListsNamed, PostsNamed, Named
    <3>3. CASE ldb' = ldb
      BY <3>3 DEF Owns
    <3>4. ASSUME NEW q \in t.todo, PostKnown(m, t, q) \/ PostOk(m, t, q)
          PROVE  ldb'[n][f] # NoRecord /\ ldb'[n][f][1] = n
      <4>1. ldb' = [ldb EXCEPT ![m][t.file] = Append(t.peers, q)]
        BY <3>4 DEF PostKnown, PostOk, SaveRecord
      <4>2. CASE m = n /\ t.file = f
        <5>1. ldb'[n][f] = Append(t.peers, q)
          BY <3>2, <4>1, <4>2 DEF IInv, TInv, TypeOK
        <5>2. Append(t.peers, q) \in Seq(Nodes) /\ Append(t.peers, q)[1] = t.peers[1]
          BY <3>2, FirstStays
        <5>. QED BY <4>2, <5>1, <5>2, ReplicationAssumption DEF Owns
      <4>3. CASE m # n \/ t.file # f
        BY <3>2, <4>1, <4>3 DEF Owns, IInv, TInv, TypeOK
      <4>. QED BY <4>2, <4>3
    <3>. QED BY <3>1, <3>3, <3>4 DEF PostSkip, PostDone
  <2>3. CASE LogStep(m)
    <3>1. fileLogQ[m] \in Seq(Entry) /\ fileLogQ[m] # <<>>
      BY <2>3 DEF IInv, TInv, TypeOK, LogStep
    <3>2. PICK e \in Entry : e = Head(fileLogQ[m]) /\ Has(fileLogQ[m], e)
      BY <3>1, HasHead
    <3>3. ldb' = ldb \/ (e.kind = "files" /\ ldb' = [ldb EXCEPT ![m][e.file] = e.peers])
      BY <2>3, <3>2 DEF LogStep, SaveRecord
    <3>4. m # n \/ e.file # f \/ e.kind # "files"
      BY <3>2 DEF Owns
    <3>5. e.file \in Files
      BY DEF Entry
    <3>6. ldb'[n][f] = ldb[n][f]
      BY <3>3, <3>4, <3>5 DEF IInv, TInv, TypeOK
    <3>. QED BY <3>6 DEF Owns
  <2>4. CASE \/ PostFault(m) \/ DownloadStep(m) \/ DownloadFault(m)
             \/ Repair(m) \/ Crash(m) \/ Restart(m)
    <3>1. ldb' = ldb
      BY <2>4 DEF PostFault, PostFails, PostUnanswered, DownloadStep, DownloadFault,
         DownloadGivenUp, DownloadNeedless, DownloadFile, DownloadLogged, DownloadFails,
         Repair, Refresh, ByHand, AutoRepair, Exchange, SyncForced, Crash, Restart
    <3>. QED BY <3>1 DEF Owns
  <2>. QED BY <2>1, <2>2, <2>3, <2>4
<1>4. \A d \in fromPeers'[n] : d.file = f => ~d.got
  BY FetchesAfter DEF Arrives, Wanted, Owns
<1>5. \A e \in Entry : Has(fileLogQ'[n], e) => ~(e.kind = "files" /\ e.file = f)
  BY FetchesAfter DEF Logs, Owns
<1>. QED BY <1>1, <1>2, <1>3, <1>4, <1>5 DEF Owns

\* An upload owns its file.
LEMMA UploadOwns ==
    ASSUME IInv, NInv, NEW n \in Nodes, NEW f \in Files, Upload(n, f)
    PROVE  Owns(n, f)'
<1>1. f \notin uploaded /\ \A m \in Nodes : f \notin disk[m]
  BY DEF Upload, IInv, OnDiskUploaded
<1>2. /\ disk' = [disk EXCEPT ![n] = @ \cup {f}] /\ ldb' = [ldb EXCEPT ![n][f] = <<n>>]
      /\ toPeers' = [toPeers EXCEPT ![n] = @ \cup {Post(n, f, <<n>>, 0)}]
      /\ fromPeers' = fromPeers /\ fileLogQ' = fileLogQ
  BY DEF Upload, SaveRecord
<1>3. f \in disk'[n] /\ ldb'[n][f] = <<n>> /\ <<n>> # NoRecord
  <2>1. f \in disk'[n] /\ ldb'[n][f] = <<n>>
    BY <1>2 DEF IInv, TInv, TypeOK
  <2>2. <<n>> \in Seq(Nodes)
    OBVIOUS
  <2>. QED BY <2>1, <2>2, ReplicationAssumption
<1>4. \A t \in toPeers'[n] : t.file = f => t.peers[1] = n
  BY <1>1, <1>2 DEF Post, NInv, PostsHaveFile, IInv, TInv, TypeOK
<1>5. \A d \in fromPeers[n] : d.got => d.file \in disk[n]
  BY DEF IInv, ListsNamed, FetchesNamed
<1>6. \A e \in Entry : Has(fileLogQ[n], e) /\ e.kind = "files" => e.file \in disk[n]
  BY DEF IInv, ListsNamed, EntriesNamed
<1>. QED BY <1>1, <1>2, <1>3, <1>4, <1>5, <1>6 DEF Owns

LEMMA OwnedStep == IInv /\ NInv /\ Next /\ Owned => Owned'
<1>. SUFFICES ASSUME IInv, NInv, Next, Owned, NEW f \in uploaded'
     PROVE  \E n \in Nodes : Owns(n, f)'
  BY DEF Owned
<1>1. CASE f \in uploaded
  BY <1>1, OwnsStays DEF Owned, IInv, TInv, TypeOK
<1>2. CASE f \notin uploaded
  <2>1. PICK n \in Nodes, g \in Files : Upload(n, g)
    <3>1. \/ \E n \in Nodes, g \in Files : Upload(n, g)
          \/ \E n \in Nodes : PostStep(n) \/ PostFault(n) \/ LogStep(n) \/ Crash(n) \/ Restart(n)
          \/ \E n \in Nodes : DownloadStep(n) \/ DownloadFault(n)
          \/ \E n \in Nodes : Repair(n)
      BY DEF Next
    <3>2. ASSUME NEW n \in Nodes,
                 PostStep(n) \/ PostFault(n) \/ LogStep(n) \/ Crash(n) \/ Restart(n)
          PROVE  uploaded' = uploaded
      BY <3>2 DEF PostStep, PostFault, PostSkip, PostKnown, PostOk, PostDone, PostFails,
         PostUnanswered, LogStep, Crash, Restart, history
    <3>3. ASSUME NEW n \in Nodes, DownloadStep(n) \/ DownloadFault(n)
          PROVE  uploaded' = uploaded
      BY <3>3 DEF DownloadStep, DownloadFault, DownloadGivenUp, DownloadNeedless, DownloadFile,
         DownloadLogged, DownloadFails, history
    <3>4. ASSUME NEW n \in Nodes, Repair(n) PROVE uploaded' = uploaded
      BY <3>4 DEF Repair, Refresh, ByHand, AutoRepair, Exchange, SyncForced, history
    <3>. QED BY <1>2, <3>1, <3>2, <3>3, <3>4
  <2>2. Upload(n, g) /\ g = f
    BY <1>2, <2>1 DEF Upload
  <2>. QED BY <2>2, UploadOwns
<1>. QED BY <1>1, <1>2

\* A list that is longer than the list of peers names every node: what
\* CheckFileAndSendToPeer takes its length for.
LEMMA FullNamesAll ==
    ASSUME NEW L \in Seq(Nodes), Once(L), NEW n \in Nodes, Len(L) > Cardinality(Peers(n))
    PROVE  \A q \in Nodes : Has(L, q)
<1>1. IsFiniteSet(Nodes) /\ Cardinality(Nodes) \in Nat /\ Cardinality(Peers(n)) = Cardinality(Nodes) - 1
  BY ReplicationAssumption, FS_CardinalityType, FS_RemoveElement DEF Peers
<1>. DEFINE I == 1 .. Len(L)
<1>2. Len(L) \in Nat /\ L \in [I -> Nodes]
  OBVIOUS
<1>3. L \in Injection(I, Nodes)
  BY <1>2 DEF Injection, IsInjective, Once
<1>4. Cardinality(I) = Len(L)
  BY <1>2, FS_Interval
<1>. HIDE DEF I
<1>5. Cardinality(I) <= Cardinality(Nodes) /\ (Cardinality(I) = Cardinality(Nodes) <=> L \in Surjection(I, Nodes))
  BY <1>1, <1>3, FS_Injection
<1>6. L \in Surjection(I, Nodes)
  BY <1>1, <1>2, <1>4, <1>5
<1>. QED BY <1>6 DEF Surjection, Has, I

\* Nothing is under way, or to come, of f at n.
Quiet(n, f) ==
    /\ \A t \in toPeers[n] \cup Resend(n) : t.file # f
    /\ \A d \in fromPeers[n] : d.file # f
    /\ \A e \in Entries(n, "errors") : e.file # f

Replicated(f) ==
    (\A n \in Nodes : Quiet(n, f) /\ n \in up /\ f \notin unsent[n]) =>
        \A q \in Nodes : f \in disk[q] \/ f \in lost[q]

LEMMA QuietIsReplicated ==
    ASSUME IInv, NInv, Owned, NEW f \in uploaded PROVE Replicated(f)
<1>. SUFFICES ASSUME \A n \in Nodes : Quiet(n, f) /\ n \in up /\ f \notin unsent[n], NEW q \in Nodes
     PROVE  f \in disk[q] \/ f \in lost[q]
  BY DEF Replicated
<1>1. PICK n \in Nodes : Owns(n, f)
  BY DEF Owned
<1>2. f \in Files /\ ldb[n][f] # NoRecord /\ ldb[n][f] \in Seq(Nodes) /\ Named(f, ldb[n][f])
  BY <1>1 DEF Owns, IInv, TInv, TypeOK, ListsNamed, RecordsNamed
<1>3. CASE q = n
  BY <1>1, <1>3 DEF Owns
<1>4. CASE q # n
  <2>1. Has(ldb[n][f], q) \/ Pending(n, f, q) \/ ErrorKept(n, f)
    BY <1>1, <1>2, <1>4 DEF Owns, NInv, RecordsKeep, RecordKeeps, Peers
  <2>2. ~Pending(n, f, q) /\ (ErrorKept(n, f) => f \in errLog[n])
    BY DEF Quiet, Pending, ErrorKept, Entries, Has
  <2>3. f \in errLog[n] => Len(ldb[n][f]) > Cardinality(Peers(n))
    <3>1. SUFFICES ASSUME f \in errLog[n], ~(Len(ldb[n][f]) > Cardinality(Peers(n))) PROVE FALSE
      OBVIOUS
    <3>2. Cardinality(Peers(n)) \in Nat /\ Len(ldb[n][f]) \in Nat
      BY <1>2, ReplicationAssumption, FS_RemoveElement, FS_CardinalityType DEF Peers
    <3>3. Len(ldb[n][f]) <= Cardinality(Peers(n))
      BY <3>1, <3>2
    <3>4. Post(n, f, With(ldb[n][f], n), 0) \in Resend(n)
      BY <1>2, <3>1, <3>3 DEF Resend
    <3>5. Post(n, f, With(ldb[n][f], n), 0).file = f
      BY DEF Post
    <3>. QED BY <3>4, <3>5 DEF Quiet
  <2>4. Has(ldb[n][f], q)
    BY <1>2, <2>1, <2>2, <2>3, FullNamesAll DEF Named
  <2>5. Served(q, f)
    BY <1>2, <2>4 DEF Named
  <2>. QED BY <2>5 DEF Served, Downloading, Quiet
<1>. QED BY <1>3, <1>4

\* As long as no node died, a download was tried again no more often than downloads
\* broke in all, and fewer breaks than RetryCount cost no file.
NothingLost ==
    faults.crash = 0 =>
        /\ up = Nodes
        /\ \A n \in Nodes :
             /\ unsent[n] = {}
             /\ \A d \in fromPeers[n] : d.retry <= faults.download
             /\ faults.download < RetryCount => lost[n] = {}

LEMMA NothingLostStep ==
    ASSUME IInv, Next, NothingLost
    PROVE  NothingLost'
<1>. PICK n \in Nodes :
        \/ \E g \in Files : Upload(n, g)
        \/ PostStep(n) \/ PostFault(n)
        \/ DownloadStep(n) \/ DownloadFault(n)
        \/ LogStep(n)
        \/ Repair(n)
        \/ Crash(n) \/ Restart(n)
  BY DEF Next
<1>0. /\ faults \in [post : Nat, download : Nat, crash : Nat, repair : Nat]
      /\ \A m \in Nodes : \A d \in fromPeers[m] : d.retry \in Nat
  BY DEF IInv, TInv, TypeOK, Fetching
<1>1. CASE \/ (\E g \in Files : Upload(n, g)) \/ LogStep(n) \/ Repair(n)
  <2>1. /\ up' = up /\ lost' = lost /\ unsent' = unsent /\ fromPeers' = fromPeers
        /\ faults'.crash = faults.crash /\ faults'.download = faults.download
    BY <1>0, <1>1 DEF Upload, LogStep, Repair, Refresh, ByHand, AutoRepair, Exchange, SyncForced, history
  <2>. QED BY <2>1 DEF NothingLost
<1>2. CASE PostStep(n) \/ PostFault(n)
  <2>1. /\ up' = up /\ lost' = lost /\ unsent' = unsent
        /\ faults'.crash = faults.crash /\ faults'.download = faults.download
        /\ fromPeers' = fromPeers \/ \E t, q : SyncFileInfo(q, t)
    BY <1>0, <1>2 DEF PostStep, PostFault, PostSkip, PostKnown, PostOk, PostDone, PostFails,
       PostUnanswered, history
  <2>2. ASSUME NEW t, NEW q, SyncFileInfo(q, t)
        PROVE  \A m \in Nodes : \A d \in fromPeers'[m] : d \in fromPeers[m] \/ d.retry = 0
    BY <2>2 DEF SyncFileInfo, Fetch, IInv, TInv, TypeOK
  <2>3. faults.download \in Nat
    BY <1>0
  <2>. QED BY <2>1, <2>2, <2>3 DEF NothingLost
<1>3. CASE DownloadStep(n) \/ DownloadFault(n)
  <2>1. PICK d \in fromPeers[n] :
          \/ DownloadGivenUp(n, d) \/ DownloadNeedless(n, d) \/ DownloadFile(n, d)
          \/ DownloadLogged(n, d) \/ DownloadFails(n, d)
    BY <1>3 DEF DownloadStep, DownloadFault
  <2>2. d \in Fetching /\ d.retry \in Nat /\ d.peers \in Seq(Nodes) /\ RetryCount \in Nat
    BY ReplicationAssumption DEF IInv, TInv, TypeOK, Fetching
  <2>3. CASE DownloadGivenUp(n, d)
    <3>1. /\ up' = up /\ unsent' = unsent /\ faults' = faults /\ d.retry >= RetryCount
          /\ lost' = [lost EXCEPT ![n] = @ \cup {d.file}]
          /\ fromPeers' = [fromPeers EXCEPT ![n] = @ \ {d}]
      BY <2>3 DEF DownloadGivenUp, Drop
    <3>2. faults.crash = 0 => ~(faults.download < RetryCount)
      BY <1>0, <2>2, <3>1 DEF NothingLost
    <3>. QED BY <3>1, <3>2 DEF NothingLost, IInv, TInv, TypeOK
  <2>4. CASE DownloadFails(n, d)
    <3>. DEFINE c == [d EXCEPT !.retry = @ + 1]
    <3>1. /\ up' = up /\ unsent' = unsent /\ lost' = lost
          /\ faults' = IF Source(n, d) \in up THEN [faults EXCEPT !.download = @ + 1] ELSE faults
          /\ fromPeers' = [fromPeers EXCEPT ![n] = (@ \ {d}) \cup {c}]
          /\ c.retry = d.retry + 1
      BY <2>2, <2>4 DEF DownloadFails, history, Fetching
    <3>2. Source(n, d) \in Nodes
      <4>1. Named(d.file, d.peers) /\ d.file \notin disk[n]
        BY <2>4 DEF DownloadFails, Wanted, IInv, ListsNamed, FetchesNamed
      <4>. QED BY <2>2, <4>1, SourceIsFirst
    <3>3. faults'.crash = faults.crash
      BY <1>0, <3>1
    <3>4. SUFFICES ASSUME faults.crash = 0 PROVE NothingLost'
      BY <3>3 DEF NothingLost
    <3>5. up = Nodes /\ faults'.download = faults.download + 1
      BY <1>0, <3>1, <3>2, <3>4 DEF NothingLost
    <3>6. \A m \in Nodes : \A e \in fromPeers'[m] :
             e \in fromPeers[m] \/ (e.retry = d.retry + 1 /\ d \in fromPeers[m])
      <4>. HIDE DEF c
      <4>. QED BY <3>1 DEF IInv, TInv, TypeOK
    <3>7. \A m \in Nodes : \A e \in fromPeers'[m] : e.retry <= faults'.download
      BY <1>0, <3>4, <3>5, <3>6 DEF NothingLost
    <3>8. faults'.download < RetryCount => faults.download < RetryCount
      BY <1>0, <2>2, <3>5
    <3>. QED BY <3>1, <3>4, <3>5, <3>7, <3>8 DEF NothingLost
  <2>5. CASE DownloadNeedless(n, d) \/ DownloadLogged(n, d)
    <3>1. /\ fromPeers' = [fromPeers EXCEPT ![n] = @ \ {d}]
          /\ up' = up /\ lost' = lost /\ unsent' = unsent /\ faults' = faults
      BY <2>5 DEF DownloadNeedless, DownloadLogged, Drop, history
    <3>. QED BY <3>1 DEF NothingLost, IInv, TInv, TypeOK
  <2>6. CASE DownloadFile(n, d)
    <3>. DEFINE c == [d EXCEPT !.got = TRUE]
    <3>1. /\ fromPeers' = [fromPeers EXCEPT ![n] = (@ \ {d}) \cup {c}] /\ c.retry = d.retry
          /\ up' = up /\ lost' = lost /\ unsent' = unsent /\ faults' = faults
      BY <2>2, <2>6 DEF DownloadFile, Fetching, history
    <3>. HIDE DEF c
    <3>. QED BY <3>1 DEF NothingLost, IInv, TInv, TypeOK
  <2>. QED BY <2>1, <2>3, <2>4, <2>5, <2>6
<1>4. CASE Crash(n)
  <2>1. faults'.crash = faults.crash + 1
    BY <1>0, <1>4 DEF Crash
  <2>. QED BY <1>0, <2>1 DEF NothingLost
<1>5. CASE Restart(n)
  <2>1. n \notin up /\ faults' = faults
    BY <1>5 DEF Restart
  <2>. QED BY <2>1 DEF NothingLost
<1>. QED BY <1>1, <1>2, <1>3, <1>4, <1>5

\* What CheckFileAndSendToPeer takes a long list for: a record with more entries
\* than the node has peers names every node of the cluster, because no
\* interleaving of posts, downloads and repairs enters a node twice.
THEOREM FullRecords ==
    Spec => [](\A n \in Nodes, f \in Files :
                 ldb[n][f] # NoRecord =>
                     /\ Once(ldb[n][f])
                     /\ Len(ldb[n][f]) > Cardinality(Peers(n)) =>
                            \A q \in Nodes : Has(ldb[n][f], q))
<1>1. IInv => \A n \in Nodes, f \in Files :
                 ldb[n][f] # NoRecord =>
                     /\ Once(ldb[n][f])
                     /\ Len(ldb[n][f]) > Cardinality(Peers(n)) =>
                            \A q \in Nodes : Has(ldb[n][f], q)
  BY FullNamesAll DEF IInv, TInv, TypeOK, ListsNamed, RecordsNamed, Named
<1>. QED BY Invariance, <1>1, PTL

\* Every uploaded file has a node that has it and whose record, that node
\* first, no post or log entry in hand will replace by another's.
THEOREM FilesOwned == Spec => []Owned
<1>1. Init => Owned
  BY DEF Init, Owned
<1>2. IInv /\ NInv /\ Owned /\ [Next]_vars => Owned'
  <2>1. CASE UNCHANGED vars
    BY <2>1 DEF vars, Owned, Owns
  <2>. QED BY <2>1, OwnedStep
<1>. QED BY <1>1, <1>2, Invariance, KeepsInvariance, PTL DEF Spec

\* Replication does not stop half-way: when every node is up and none has a
\* post, a download or an errors.md5 entry of an uploaded file in hand or to
\* resend, every node has the file, but for those that gave its download up or
\* died with it, whatever posts failed, went unanswered or were sent twice. (A
\* node that died before it posted is excepted: AutoRepair is for it.)
THEOREM QuietMeansReplicated == Spec => [](\A f \in uploaded : Replicated(f))
<1>1. IInv /\ NInv /\ Owned => \A f \in uploaded : Replicated(f)
  BY QuietIsReplicated
<1>. QED BY <1>1, Invariance, KeepsInvariance, FilesOwned, PTL

\* What the end of replication means before the first crash, and as long as fewer
\* downloads broke than one entry has retries: the file is everywhere. Posts may have
\* failed, gone unanswered or been made twice as often as you like.
THEOREM QuietMeansEverywhere ==
    Spec => [](faults.crash = 0 /\ faults.download < RetryCount =>
                 \A f \in uploaded :
                     (\A n \in Nodes : Quiet(n, f)) => \A q \in Nodes : f \in disk[q])
<1>1. Init => NothingLost
  BY DEF Init, NothingLost
<1>2. IInv /\ NothingLost /\ [Next]_vars => NothingLost'
  <2>1. CASE UNCHANGED vars
    BY <2>1 DEF vars, NothingLost
  <2>. QED BY <2>1, NothingLostStep
<1>3. Spec => []NothingLost
  BY <1>1, <1>2, Invariance, PTL DEF Spec
<1>4. NothingLost /\ (\A f \in uploaded : Replicated(f)) =>
        (faults.crash = 0 /\ faults.download < RetryCount =>
            \A f \in uploaded :
                (\A n \in Nodes : Quiet(n, f)) => \A q \in Nodes : f \in disk[q])
  BY DEF NothingLost, Replicated
<1>. QED BY <1>3, <1>4, QuietMeansReplicated, PTL
=============================================================================

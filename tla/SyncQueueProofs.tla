-------------------------- MODULE SyncQueueProofs --------------------------
(***************************************************************************)
(* What the reserve of AppendToQueue guarantees, and that its jams are     *)
(* final, for any channel size, number of goroutines, retries and peers.   *)
(***************************************************************************)
EXTENDS SyncQueue, FiniteSetTheorems, TLAPS

\* Entries and senders together overrun the reserve by at most one place for
\* each goroutine: when the last sender looked, the others were on their way.
RoomLeft == Len(queue) + Cardinality(Sending) <= Size - Reserve + Cardinality(Procs)

IInv == TypeOK /\ RoomLeft

-----------------------------------------------------------------------------

LEMMA ProcsFinite == IsFiniteSet(Procs) /\ Cardinality(Procs) \in Nat
<1>1. IsFiniteSet({Watch})
  BY FS_Singleton
<1>2. IsFiniteSet(Workers \cup Feeders)
  BY FS_Union, ProcsAssumption
<1>3. IsFiniteSet(Procs)
  BY <1>1, <1>2, FS_Union DEF Procs
<1>. QED BY <1>3, FS_CardinalityType

LEMMA SendingFinite ==
    /\ IsFiniteSet(Sending) /\ Cardinality(Sending) \in Nat
    /\ Cardinality(Sending) <= Cardinality(Procs)
<1>1. Sending \in SUBSET Procs
  BY DEF Sending
<1>2. IsFiniteSet(Sending) /\ Cardinality(Sending) <= Cardinality(Procs)
  BY <1>1, FS_Subset, ProcsFinite
<1>. QED BY <1>2, FS_CardinalityType

LEMMA SendingFiniteNext ==
    /\ IsFiniteSet(Sending') /\ Cardinality(Sending') \in Nat
    /\ Cardinality(Sending') <= Cardinality(Procs)
<1>1. Sending' \in SUBSET Procs
  BY DEF Sending
<1>2. IsFiniteSet(Sending') /\ Cardinality(Sending') <= Cardinality(Procs)
  BY <1>1, FS_Subset, ProcsFinite
<1>. QED BY <1>2, FS_CardinalityType

-----------------------------------------------------------------------------

LEMMA TypeInductive == TypeOK /\ [Next]_vars => TypeOK'
<1>. SUFFICES ASSUME TypeOK, [Next]_vars PROVE TypeOK'
  OBVIOUS
<1>. USE SizesAssumption
<1>1. CASE UNCHANGED vars
  BY <1>1 DEF vars, TypeOK
<1>2. ASSUME NEW p \in Procs, Look(p) PROVE TypeOK'
  BY <1>2 DEF Look, TypeOK
<1>3. ASSUME NEW p \in Procs, Put(p) PROVE TypeOK'
  <2>1. queue' \in Seq(0 .. Tries) /\ Len(queue') <= Size
    BY <1>3 DEF Put, TypeOK
  <2>. QED BY <1>3, <2>1 DEF Put, TypeOK
<1>4. ASSUME NEW p \in Feeders, Offer(p) PROVE TypeOK'
  <2>1. p \in Procs
    BY DEF Procs
  <2>2. PICK r \in 0 .. 1 : r <= Tries /\ retry' = [retry EXCEPT ![p] = r]
    BY <1>4 DEF Offer
  <2>. QED BY <1>4, <2>1, <2>2 DEF Offer, TypeOK
<1>5. ASSUME NEW w \in Workers, Take(w) PROVE TypeOK'
  <2>1. /\ queue' \in Seq(0 .. Tries) /\ Len(queue') <= Size
        /\ Head(queue) \in 0 .. Tries
    BY <1>5 DEF Take, TypeOK
  <2>2. retry' \in [Procs -> 0 .. Tries]
    BY <1>5, <2>1 DEF Take, TypeOK
  <2>3. todo' \in [Procs -> 0 .. Posts]
    <3>1. Posts \in 0 .. Posts
      OBVIOUS
    <3>2. todo' = [todo EXCEPT ![w] = Posts] /\ todo \in [Procs -> 0 .. Posts]
      BY <1>5 DEF Take, TypeOK
    <3>. QED BY <3>1, <3>2, Zenon
  <2>4. pc' \in [Procs -> {"idle", "post", "append", "send", "putback"}]
    BY <1>5 DEF Take, TypeOK
  <2>. QED BY <1>5, <2>1, <2>2, <2>3, <2>4 DEF Take, TypeOK
<1>6. ASSUME NEW w \in Workers, PostDone(w) PROVE TypeOK'
  BY <1>6 DEF PostDone, TypeOK, Procs
<1>7. ASSUME NEW w \in Workers, PostFails(w) PROVE TypeOK'
  BY <1>7 DEF PostFails, TypeOK, Procs
<1>8. ASSUME NEW w \in Workers, Return(w) PROVE TypeOK'
  BY <1>8 DEF Return, TypeOK
<1>9. ASSUME Event PROVE TypeOK'
  <2>1. PICK age \in {"young", "ripe"} : qchan' = Append(qchan, age)
    BY <1>9 DEF Event
  <2>2. qchan' \in Seq({"young", "ripe"}) /\ Len(qchan') <= WatchSize
    BY <1>9, <2>1 DEF Event, TypeOK
  <2>. QED BY <1>9, <2>2 DEF Event, TypeOK
<1>10. ASSUME Ripen PROVE TypeOK'
  <2>1. PICK i \in 1 .. Len(qchan) : qchan' = [qchan EXCEPT ![i] = "ripe"]
    BY <1>10 DEF Ripen
  <2>2. qchan' \in Seq({"young", "ripe"}) /\ Len(qchan') <= WatchSize
    BY <2>1 DEF TypeOK
  <2>. QED BY <1>10, <2>2 DEF Ripen, TypeOK
<1>11. ASSUME TakeWatched PROVE TypeOK'
  <2>1. qchan' \in Seq({"young", "ripe"}) /\ Len(qchan') <= WatchSize
    BY <1>11 DEF TakeWatched, TypeOK
  <2>. QED BY <1>11, <2>1 DEF TakeWatched, TypeOK
<1>12. ASSUME PutBack PROVE TypeOK'
  <2>1. qchan' \in Seq({"young", "ripe"}) /\ Len(qchan') <= WatchSize
    BY <1>12 DEF PutBack, TypeOK
  <2>. QED BY <1>12, <2>1 DEF PutBack, TypeOK
<1>. QED BY <1>1, <1>2, <1>3, <1>4, <1>5, <1>6, <1>7, <1>8, <1>9, <1>10, <1>11, <1>12
         DEF Next, AppendToQueue, Work, WatchFilesChange

LEMMA InitIInv == Init => IInv
<1>. SUFFICES ASSUME Init PROVE IInv
  OBVIOUS
<1>1. TypeOK
  BY SizesAssumption DEF Init, TypeOK
<1>2. RoomLeft
  <2>1. Len(queue) = 0
    BY DEF Init
  <2>. QED BY <2>1, SendingFinite, ProcsFinite, SizesAssumption DEF RoomLeft
<1>. QED BY <1>1, <1>2 DEF IInv

\* A step that lets nobody into "send" and does not lengthen the channel.
LEMMA RoomKept ==
    ASSUME IInv, Sending' \subseteq Sending,
           Len(queue') \in Nat, Len(queue') <= Len(queue)
    PROVE  RoomLeft'
<1>1. Cardinality(Sending') <= Cardinality(Sending)
  <2>1. Sending' \in SUBSET Sending
    OBVIOUS
  <2>. QED BY <2>1, SendingFinite, FS_Subset
<1>2. Len(queue) \in Nat
  BY DEF IInv, TypeOK
<1>. QED
  BY <1>1, <1>2, SendingFinite, SendingFiniteNext, ProcsFinite, SizesAssumption
     DEF IInv, RoomLeft

LEMMA RoomInductive == IInv /\ [Next]_vars => RoomLeft'
<1>. SUFFICES ASSUME IInv, [Next]_vars PROVE RoomLeft'
  OBVIOUS
<1>0. queue \in Seq(0 .. Tries) /\ Len(queue) \in Nat /\ pc \in [Procs -> {"idle", "post", "append", "send", "putback"}]
  BY DEF IInv, TypeOK
<1>1. CASE UNCHANGED vars
  BY <1>0, <1>1, RoomKept DEF vars, Sending
<1>2. ASSUME NEW p \in Procs, Look(p) PROVE RoomLeft'
  BY <1>0, <1>2, SendingFiniteNext, ProcsFinite, SizesAssumption DEF Look, RoomLeft
<1>3. ASSUME NEW p \in Procs, Put(p) PROVE RoomLeft'
  <2>1. Sending' = Sending \ {p} /\ p \in Sending
    BY <1>0, <1>3 DEF Put, Sending
  <2>2. Cardinality(Sending') = Cardinality(Sending) - 1
    BY <2>1, SendingFinite, FS_RemoveElement
  <2>3. Len(queue') = Len(queue) + 1
    BY <1>0, <1>3 DEF Put
  <2>. QED BY <1>0, <2>2, <2>3, SendingFinite, ProcsFinite, SizesAssumption DEF IInv, RoomLeft
<1>4. ASSUME NEW p \in Feeders, Offer(p) PROVE RoomLeft'
  BY <1>0, <1>4, RoomKept DEF Offer, Sending
<1>5. ASSUME NEW w \in Workers, Take(w) PROVE RoomLeft'
  <2>1. Len(queue') \in Nat /\ Len(queue') <= Len(queue)
    BY <1>0, <1>5 DEF Take
  <2>2. Sending' \subseteq Sending
    BY <1>0, <1>5 DEF Take, Sending
  <2>. QED BY <2>1, <2>2, RoomKept
<1>6. ASSUME NEW w \in Workers, PostDone(w) PROVE RoomLeft'
  BY <1>0, <1>6, RoomKept DEF PostDone, Sending
<1>7. ASSUME NEW w \in Workers, PostFails(w) PROVE RoomLeft'
  BY <1>0, <1>7, RoomKept DEF PostFails, Sending
<1>8. ASSUME NEW w \in Workers, Return(w) PROVE RoomLeft'
  BY <1>0, <1>8, RoomKept DEF Return, Sending
<1>9. ASSUME Event \/ Ripen PROVE RoomLeft'
  BY <1>0, <1>9, RoomKept DEF Event, Ripen, Sending
<1>10. ASSUME WatchFilesChange PROVE RoomLeft'
  BY <1>0, <1>10, RoomKept DEF WatchFilesChange, TakeWatched, PutBack, Sending
<1>. QED BY <1>1, <1>2, <1>3, <1>4, <1>5, <1>6, <1>7, <1>8, <1>9, <1>10
         DEF Next, AppendToQueue, Work

\* The types of SyncQueue's variables, and no more entries than the channels hold.
THEOREM TypeCorrect == Spec => []TypeOK
<1>1. Init => TypeOK
  BY InitIInv DEF IInv
<1>. QED BY <1>1, TypeInductive, PTL DEF Spec

LEMMA Invariance == Spec => []IInv
<1>1. IInv /\ [Next]_vars => IInv'
  BY TypeInductive, RoomInductive DEF IInv
<1>. QED BY InitIInv, <1>1, PTL DEF Spec

\* With no more goroutines than the reserve has places, AppendToQueue never waits
\* in the send: the loop before it is the only place where it waits.
THEOREM SendsFindRoom == Spec => []SendFindsRoom
<1>1. IInv => SendFindsRoom
  <2>. SUFFICES ASSUME IInv, Cardinality(Procs) <= Reserve, NEW p \in Sending
                PROVE  Len(queue) < Size
    BY DEF SendFindsRoom
  <2>1. Cardinality(Sending) # 0
    BY SendingFinite, FS_EmptySet
  <2>. QED BY <2>1, SendingFinite, ProcsFinite, SizesAssumption DEF IInv, RoomLeft, TypeOK
<1>. QED BY Invariance, <1>1, PTL

-----------------------------------------------------------------------------

\* Workers that all poll for room, and a consumer that waits for room in its own
\* channel, do so for ever, however many others use the channels.
THEOREM JamsAreForever == Spec => JamForever
<1>1. TypeOK /\ [Next]_vars => (Jam => Jam') /\ (WatchJam => WatchJam')
  <2>. SUFFICES ASSUME TypeOK, [Next]_vars PROVE (Jam => Jam') /\ (WatchJam => WatchJam')
    OBVIOUS
  <2>. USE ProcsAssumption, SizesAssumption DEF Jam, WatchJam
  <2>0. /\ pc \in [Procs -> {"idle", "post", "append", "send", "putback"}]
        /\ Watch \in Procs /\ Workers \subseteq Procs /\ Feeders \subseteq Procs
        /\ Len(queue) \in Nat /\ Len(qchan) \in Nat
    BY DEF TypeOK, Procs
  <2>1. CASE UNCHANGED vars
    BY <2>1 DEF vars
  <2>2. ASSUME NEW p \in Procs, Look(p) PROVE (Jam => Jam') /\ (WatchJam => WatchJam')
    BY <2>0, <2>2 DEF Look
  <2>3. ASSUME NEW p \in Procs, Put(p) PROVE (Jam => Jam') /\ (WatchJam => WatchJam')
    <3>1. Len(queue') = Len(queue) + 1
      BY <2>3 DEF Put, TypeOK
    <3>2. pc[p] = "send" /\ qchan' = qchan
      BY <2>3 DEF Put
    <3>3. \A q \in Procs \ {p} : pc'[q] = pc[q]
      BY <2>0, <2>3 DEF Put
    <3>. QED BY <2>0, <3>1, <3>2, <3>3
  <2>4. ASSUME NEW p \in Feeders, Offer(p) PROVE (Jam => Jam') /\ (WatchJam => WatchJam')
    BY <2>0, <2>4 DEF Offer
  <2>5. ASSUME NEW w \in Workers, Work(w) PROVE (Jam => Jam') /\ (WatchJam => WatchJam')
    <3>1. pc[w] # "append" /\ qchan' = qchan
      BY <2>5 DEF Work, Take, PostDone, PostFails, Return
    <3>2. pc'[Watch] = pc[Watch]
      BY <2>0, <2>5 DEF Work, Take, PostDone, PostFails, Return
    <3>. QED BY <3>1, <3>2
  <2>6. ASSUME Event PROVE (Jam => Jam') /\ (WatchJam => WatchJam')
    BY <2>6 DEF Event
  <2>7. ASSUME Ripen PROVE (Jam => Jam') /\ (WatchJam => WatchJam')
    <3>1. Len(qchan') = Len(qchan) /\ pc' = pc /\ queue' = queue
      BY <2>7 DEF Ripen, TypeOK
    <3>. QED BY <3>1
  <2>8. ASSUME WatchFilesChange PROVE (Jam => Jam') /\ (WatchJam => WatchJam')
    <3>1. ~WatchJam /\ queue' = queue
      BY <2>8 DEF WatchFilesChange, TakeWatched, PutBack
    <3>2. \A w \in Workers : pc'[w] = pc[w]
      BY <2>0, <2>8 DEF WatchFilesChange, TakeWatched, PutBack
    <3>. QED BY <3>1, <3>2
  <2>. QED BY <2>1, <2>2, <2>3, <2>4, <2>5, <2>6, <2>7, <2>8 DEF Next, AppendToQueue
<1>. QED BY <1>1, TypeCorrect, PTL DEF Spec, JamForever

-----------------------------------------------------------------------------
(* The jams are the only ways to stand still.                              *)

\* Workers post, and only the consumer of qchan puts back.
Roles ==
    /\ \A w \in Workers : pc[w] # "putback"
    /\ \A p \in Procs \ Workers : pc[p] # "post"

\* The guards of AppendToQueue, of a worker and of the consumer of qchan.
CanAppend(p) ==
    \/ pc[p] = "append" /\ Len(queue) + Reserve <= Size
    \/ pc[p] = "send" /\ Len(queue) < Size
CanWork(w) == pc[w] = "post" \/ (pc[w] = "idle" /\ queue # <<>>)
CanWatch ==
    \/ pc[Watch] = "idle" /\ qchan # <<>>
    \/ pc[Watch] = "putback" /\ Len(qchan) < WatchSize

Goes == (\E p \in Procs : CanAppend(p)) \/ \E w \in Workers : CanWork(w)

LEMMA RolesKept == Spec => []Roles
<1>1. Init => Roles
  BY DEF Init, Roles, Procs
<1>2. TypeOK /\ Roles /\ [Next]_vars => Roles'
  <2>. SUFFICES ASSUME TypeOK, Roles, [Next]_vars PROVE Roles'
    OBVIOUS
  <2>. USE ProcsAssumption DEF Procs
  <2>1. CASE UNCHANGED vars
    BY <2>1 DEF vars, Roles
  <2>2. ASSUME NEW p \in Procs, AppendToQueue(p) PROVE Roles'
    BY <2>2 DEF AppendToQueue, Look, Put, TypeOK, Roles
  <2>3. ASSUME NEW p \in Feeders, Offer(p) PROVE Roles'
    BY <2>3 DEF Offer, TypeOK, Roles
  <2>4. ASSUME NEW w \in Workers, Work(w) PROVE Roles'
    BY <2>4 DEF Work, Take, PostDone, PostFails, Return, TypeOK, Roles
  <2>5. CASE Event \/ Ripen
    BY <2>5 DEF Event, Ripen, Roles
  <2>6. CASE WatchFilesChange
    BY <2>6 DEF WatchFilesChange, TakeWatched, PutBack, TypeOK, Roles
  <2>. QED BY <2>1, <2>2, <2>3, <2>4, <2>5, <2>6 DEF Next
<1>. QED BY <1>1, <1>2, TypeCorrect, PTL DEF Spec

\* With fewer goroutines than the reserve has places: as long as the channel holds
\* an entry, or anybody has one in hand, some worker or append can go on, unless
\* the workers jam; as long as qchan holds a file, or its consumer has one in hand,
\* the consumer can go on too, unless it jams.
THEOREM JamsAreTheOnlyStops ==
    ASSUME Workers # {}, Cardinality(Procs) <= Reserve
    PROVE  Spec => [](/\ queue # <<>> \/ (\E p \in Procs : pc[p] \notin {"idle", "putback"})
                            => Goes \/ Jam
                      /\ qchan # <<>> \/ pc[Watch] # "idle"
                            => Goes \/ CanWatch \/ Jam \/ WatchJam)
<1>. DEFINE QueueGoes == queue # <<>> \/ (\E p \in Procs : pc[p] \notin {"idle", "putback"})
                            => Goes \/ Jam
            WatchGoes == qchan # <<>> \/ pc[Watch] # "idle"
                            => Goes \/ CanWatch \/ Jam \/ WatchJam
<1>1. TypeOK /\ Roles /\ SendFindsRoom => QueueGoes
  <2>. SUFFICES ASSUME TypeOK, Roles, SendFindsRoom, ~Jam,
                       queue # <<>> \/ (\E p \in Procs : pc[p] \notin {"idle", "putback"})
       PROVE  Goes
    OBVIOUS
  <2>1. Len(queue) \in Nat /\ Size \in Nat /\ Reserve \in 1 .. Size /\ (queue = <<>> <=> Len(queue) = 0)
    BY SizesAssumption DEF TypeOK
  <2>2. \A p \in Procs : pc[p] = "send" => CanAppend(p)
    BY DEF SendFindsRoom, Sending, CanAppend
  <2>3. CASE Len(queue) + Reserve <= Size
    <3>1. CASE \E p \in Procs : pc[p] \notin {"idle", "putback"}
      <4>1. PICK p \in Procs : pc[p] \in {"append", "send", "post"}
        BY <3>1 DEF TypeOK
      <4>2. pc[p] = "post" => p \in Workers
        BY DEF Roles
      <4>. QED BY <2>2, <2>3, <4>1, <4>2 DEF Goes, CanAppend, CanWork
    <3>2. CASE queue # <<>> /\ \A p \in Procs : pc[p] \in {"idle", "putback"}
      BY <3>2 DEF Goes, CanWork, Roles, Procs
    <3>. QED BY <3>1, <3>2
  <2>4. CASE ~(Len(queue) + Reserve <= Size)
    <3>1. Len(queue) + Reserve > Size /\ queue # <<>>
      BY <2>1, <2>4
    <3>2. PICK w \in Workers : pc[w] # "append"
      BY <3>1 DEF Jam
    <3>3. w \in Procs /\ pc[w] \in {"idle", "post", "send"}
      BY <3>2 DEF TypeOK, Roles, Procs
    <3>. QED BY <2>2, <3>1, <3>3 DEF Goes, CanWork
  <2>. QED BY <2>3, <2>4
<1>2. TypeOK /\ QueueGoes => WatchGoes
  <2>. SUFFICES ASSUME TypeOK, QueueGoes, qchan # <<>> \/ pc[Watch] # "idle",
                       ~Goes, ~CanWatch, ~Jam, ~WatchJam
       PROVE  FALSE
    OBVIOUS
  <2>1. Watch \in Procs /\ pc[Watch] \notin {"append", "send", "post"}
    BY DEF Procs
  <2>2. pc[Watch] = "putback" /\ ~(Len(qchan) < WatchSize)
    BY <2>1 DEF TypeOK, CanWatch
  <2>3. Len(qchan) \in Nat /\ WatchSize \in Nat /\ Len(qchan) <= WatchSize
    BY SizesAssumption DEF TypeOK
  <2>. QED BY <2>2, <2>3 DEF WatchJam
<1>. QED BY <1>1, <1>2, TypeCorrect, RolesKept, SendsFindRoom, PTL
=============================================================================

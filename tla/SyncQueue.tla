----------------------------- MODULE SyncQueue -----------------------------
(***************************************************************************)
(* The bounded channels between those who find files to replicate and the  *)
(* SyncWorker goroutines.  AppendToQueue keeps a reserve of a tenth of the *)
(* channel: it polls until the channel is that far from full, then sends.  *)
(* The workers that drain the channel call it too, for the posts that      *)
(* failed, and so does the consumer of WatchFilesChange's own channel.     *)
(*                                                                         *)
(* queueToPeers is read here as Tries = RetryCount + 1 and Posts = number  *)
(* of peers; queueFromPeers, drained by ConsumerDownLoad, has Posts = 1.   *)
(***************************************************************************)
EXTENDS Naturals, Sequences, FiniteSets

CONSTANTS
    Workers,    \* SyncWorker goroutines of ConsumerPostToPeer
    Feeders,    \* goroutines that append: repairs, syncs, direct posts, handlers
    Watch,      \* the goroutine that drains qchan
    Size,       \* CONST_QUEUE_SIZE, the capacity of the channel
    Reserve,    \* CONST_QUEUE_SIZE / 10
    Tries,      \* how often an entry is appended again
    Posts,      \* posts in one pass over an entry
    WatchSize,  \* WatchChanSize, the capacity of qchan
    MaxFeed,    \* bound of the model: entries the feeders offer
    MaxEvents   \* bound of the model: files the watcher reports

Procs == Workers \cup Feeders \cup {Watch}

ASSUME ProcsAssumption ==
    /\ IsFiniteSet(Workers) /\ IsFiniteSet(Feeders)
    /\ Workers \cap Feeders = {}
    /\ Watch \notin Workers \cup Feeders
ASSUME SizesAssumption ==
    /\ Size \in Nat /\ Reserve \in 1 .. Size
    /\ Tries \in Nat /\ Posts \in Nat /\ WatchSize \in Nat
    /\ MaxFeed \in Nat /\ MaxEvents \in Nat

VARIABLES
    queue,      \* the channel: for each entry how often it was appended again
    qchan,      \* WatchFilesChange's channel: "young" (SyncDelay) or "ripe" files
    pc,         \* "idle"; "post" (a worker in postFileToPeer); "append" (polling
                \* in AppendToQueue); "send" (past the loop); "putback" (qchan <- ch)
    retry,      \* retry[p]: fileInfo.retry of the entry p has in hand
    todo,       \* todo[p]: posts left in the pass of a worker
    fed, seen   \* entries offered, files reported so far

vars == <<queue, qchan, pc, retry, todo, fed, seen>>

Init ==
    /\ queue = <<>>
    /\ qchan = <<>>
    /\ pc = [p \in Procs |-> "idle"]
    /\ retry = [p \in Procs |-> 0]
    /\ todo = [p \in Procs |-> 0]
    /\ fed = 0
    /\ seen = 0

-----------------------------------------------------------------------------
\* Mutated forms of the actions below; each breaks a property of a run.

\* The loop waits for a full channel only.
LookNoReserve(p) ==
    /\ pc[p] = "append"
    /\ Len(queue) < Size
    /\ pc' = [pc EXCEPT ![p] = "send"]
    /\ UNCHANGED <<queue, qchan, retry, todo, fed, seen>>

\* The retry is counted in a copy.
PostFailsUncounted(w) ==
    /\ pc[w] = "post" /\ todo[w] > 0
    /\ retry[w] < Tries
    /\ pc' = [pc EXCEPT ![w] = "append"]
    /\ todo' = [todo EXCEPT ![w] = @ - 1]
    /\ UNCHANGED <<queue, qchan, retry, fed, seen>>

\* More failures are counted than are sent again.
PostFailsOnceMore(w) ==
    /\ pc[w] = "post" /\ todo[w] > 0
    /\ todo' = [todo EXCEPT ![w] = @ - 1]
    /\ retry' = [retry EXCEPT ![w] = @ + 1]
    /\ pc' = [pc EXCEPT ![w] = "append"]
    /\ UNCHANGED <<queue, qchan, fed, seen>>

\* The comparison with SyncDelay is the wrong way round.
TakeWatchedReversed ==
    /\ pc[Watch] = "idle" /\ qchan # <<>>
    /\ qchan' = Tail(qchan)
    /\ pc' = [pc EXCEPT ![Watch] = IF Head(qchan) = "ripe" THEN "putback" ELSE "append"]
    /\ UNCHANGED <<queue, retry, todo, fed, seen>>

-----------------------------------------------------------------------------
(* AppendToQueue.                                                          *)

\* A goroutine of CheckFileAndSendToPeer, ReceiveMd5s, AutoRepair, ... begins an
\* append; a direct postFileToPeer that failed offers its entry with one retry.
Offer(p) ==
    /\ pc[p] = "idle"
    /\ fed < MaxFeed
    /\ fed' = fed + 1
    /\ \E r \in 0 .. 1 : r <= Tries /\ retry' = [retry EXCEPT ![p] = r]
    /\ pc' = [pc EXCEPT ![p] = "append"]
    /\ UNCHANGED <<queue, qchan, todo, seen>>

\* The loop ends: len(queueToPeers) + CONST_QUEUE_SIZE/10 is in the size.
Look(p) ==
    /\ pc[p] = "append"
    /\ Len(queue) + Reserve <= Size
    /\ pc' = [pc EXCEPT ![p] = "send"]
    /\ UNCHANGED <<queue, qchan, retry, todo, fed, seen>>

\* queueToPeers <- *fileInfo, which waits while the channel is full; a worker
\* goes on with its pass.
Put(p) ==
    /\ pc[p] = "send"
    /\ Len(queue) < Size
    /\ queue' = Append(queue, retry[p])
    /\ pc' = [pc EXCEPT ![p] = IF p \in Workers THEN "post" ELSE "idle"]
    /\ UNCHANGED <<qchan, retry, todo, fed, seen>>

-----------------------------------------------------------------------------
(* ConsumerPostToPeer and postFileToPeer.                                  *)

Take(w) ==
    /\ pc[w] = "idle" /\ queue # <<>>
    /\ queue' = Tail(queue)
    /\ retry' = [retry EXCEPT ![w] = Head(queue)]
    /\ todo' = [todo EXCEPT ![w] = Posts]
    /\ pc' = [pc EXCEPT ![w] = "post"]
    /\ UNCHANGED <<qchan, fed, seen>>

\* A peer that has the file, took the post, or failed for good.
PostDone(w) ==
    /\ pc[w] = "post" /\ todo[w] > 0
    /\ todo' = [todo EXCEPT ![w] = @ - 1]
    /\ UNCHANGED <<queue, qchan, pc, retry, fed, seen>>

\* A failed post is appended again, from within the pass.
PostFails(w) ==
    /\ pc[w] = "post" /\ todo[w] > 0
    /\ retry[w] < Tries
    /\ retry' = [retry EXCEPT ![w] = @ + 1]
    /\ todo' = [todo EXCEPT ![w] = @ - 1]
    /\ pc' = [pc EXCEPT ![w] = "append"]
    /\ UNCHANGED <<queue, qchan, fed, seen>>

\* The pass is over.
Return(w) ==
    /\ pc[w] = "post" /\ todo[w] = 0
    /\ pc' = [pc EXCEPT ![w] = "idle"]
    /\ UNCHANGED <<queue, qchan, retry, todo, fed, seen>>

-----------------------------------------------------------------------------
(* WatchFilesChange.                                                       *)

\* The watcher reports a file; its goroutine waits while qchan is full.
Event ==
    /\ seen < MaxEvents
    /\ Len(qchan) < WatchSize
    /\ seen' = seen + 1
    /\ \E age \in {"young", "ripe"} : qchan' = Append(qchan, age)
    /\ UNCHANGED <<queue, pc, retry, todo, fed>>

\* SyncDelay passes for a file in qchan.
Ripen ==
    /\ \E i \in 1 .. Len(qchan) :
         qchan[i] = "young" /\ qchan' = [qchan EXCEPT ![i] = "ripe"]
    /\ UNCHANGED <<queue, pc, retry, todo, fed, seen>>

\* The consumer takes a file: a young one goes back, a ripe one to the queue.
TakeWatched ==
    /\ pc[Watch] = "idle" /\ qchan # <<>>
    /\ qchan' = Tail(qchan)
    /\ pc' = [pc EXCEPT ![Watch] = IF Head(qchan) = "young" THEN "putback" ELSE "append"]
    /\ UNCHANGED <<queue, retry, todo, fed, seen>>

\* qchan <- ch, in the goroutine that is the only one to make room.
PutBack ==
    /\ pc[Watch] = "putback"
    /\ Len(qchan) < WatchSize
    /\ qchan' = Append(qchan, "young")
    /\ pc' = [pc EXCEPT ![Watch] = "idle"]
    /\ UNCHANGED <<queue, retry, todo, fed, seen>>

-----------------------------------------------------------------------------

Work(w) == Take(w) \/ PostDone(w) \/ PostFails(w) \/ Return(w)
AppendToQueue(p) == Look(p) \/ Put(p)
WatchFilesChange == TakeWatched \/ PutBack

Next ==
    \/ \E p \in Procs : AppendToQueue(p)
    \/ \E p \in Feeders : Offer(p)
    \/ \E w \in Workers : Work(w)
    \/ Event \/ Ripen \/ WatchFilesChange

Spec == Init /\ [][Next]_vars

\* Goroutines run: a worker takes entries and its posts end (their timeouts are
\* finite), a poll or send that stays possible is made.  Files grow older, also
\* while they go round: SyncDelay passes whatever the consumer does (SF).
FairSpec ==
    /\ Spec
    /\ \A p \in Procs : WF_vars(AppendToQueue(p))
    /\ \A w \in Workers : WF_vars(Work(w))
    /\ SF_vars(Ripen) /\ WF_vars(WatchFilesChange)

-----------------------------------------------------------------------------

TypeOK ==
    /\ queue \in Seq(0 .. Tries) /\ Len(queue) <= Size
    /\ qchan \in Seq({"young", "ripe"}) /\ Len(qchan) <= WatchSize
    /\ pc \in [Procs -> {"idle", "post", "append", "send", "putback"}]
    /\ retry \in [Procs -> 0 .. Tries]
    /\ todo \in [Procs -> 0 .. Posts]
    /\ fed \in 0 .. MaxFeed
    /\ seen \in 0 .. MaxEvents

Sending == {p \in Procs : pc[p] = "send"}

\* The reserve does its work: no more goroutines than the reserve has places,
\* and whoever left AppendToQueue's loop finds room and sends at once, although
\* others send between its look at the length and its own send.
SendFindsRoom ==
    Cardinality(Procs) <= Reserve => \A p \in Sending : Len(queue) < Size

\* Every worker polls for room and none is left to make it.
Jam ==
    /\ Workers # {}
    /\ \A w \in Workers : pc[w] = "append"
    /\ Len(queue) + Reserve > Size

\* The consumer of qchan waits for room in the channel that only it drains.
WatchJam == pc[Watch] = "putback" /\ Len(qchan) = WatchSize

\* The two ways to stand still are final: replication from this node (or, for
\* qchan, of files found by the watcher) is over until the process is restarted.
JamForever == [][(Jam => Jam') /\ (WatchJam => WatchJam')]_vars

QueueDrained ==
    queue # <<>> \/ (\E w \in Workers : pc[w] # "idle")
        ~> (queue = <<>> /\ \A w \in Workers : pc[w] = "idle") \/ Jam

WatchDrained ==
    qchan # <<>> \/ pc[Watch] # "idle"
        ~> (qchan = <<>> /\ pc[Watch] = "idle") \/ WatchJam \/ Jam

\* They are the only ones: everything offered has been dealt with in the end,
\* retries included, unless the workers jam; and every file the watcher found gets
\* out of qchan and into the queue, however young it was and however often it went
\* round.
AllDrained == QueueDrained /\ WatchDrained
=============================================================================

----------------------------- MODULE SmallFile -----------------------------
(***************************************************************************)
(* Small-file merging (EnableMergeSmallFile): SaveSmallFile appends the    *)
(* content of an upload to one of the haystack files of the node, under    *)
(* LockKey(destPath); the URL carries haystack, offset and length.         *)
(*                                                                         *)
(* Composed with KeyLock: Procs are the upload workers, Keys the haystack  *)
(* files. A second node copies records in any order (DownloadFromPeer,     *)
(* WriteFileByOffSet) and serves reads by the same rule.                   *)
(*                                                                         *)
(* A haystack is a sequence of cells; a content is SizeOf[m] cells. One    *)
(* action is one Seek or one write(2) of the handler.                      *)
(***************************************************************************)
EXTENDS KeyLock, Naturals, Sequences

CONSTANTS
    Contents,       \* contents of small files
    SizeOf,         \* SizeOf[m]: cells of m, below CONST_SMALL_FILE_SIZE
    MaxSize,        \* the largest SizeOf[m]
    MaxCells        \* bound of the model: cells of a haystack (none in the code)

ASSUME SizeAssumption ==
    /\ MaxSize \in Nat /\ MaxCells \in Nat
    /\ SizeOf \in [Contents -> 0 .. MaxSize]

VARIABLES
    hay,            \* hay[k]: the cells of haystack k on the uploading node
    up,             \* up[p]: the upload that worker p serves
    records,        \* records of finished uploads: [key, off, size, md5]
    rep,            \* rep[k]: the copy of haystack k on the other node
    repKnown        \* md5s with a record on the other node

smallVars == <<hay, up, records, rep, repKnown>>
allVars == <<vars, smallVars>>

Flag == <<"flag", 0>>     \* the byte '1' that precedes every content
Hole == <<"hole", 0>>     \* what a cell never written reads as
Cells(m) == [i \in 1 .. SizeOf[m] |-> <<m, i>>]

NoUpload == [step |-> "none", md5 |-> "none", pos |-> 0, off |-> 0, done |-> 0]

-----------------------------------------------------------------------------
(* write(2) and pread(2) at an offset.                                     *)

\* s with cell c at offset pos, which is at most the length.
WriteCell(s, pos, c) == IF pos = Len(s) THEN Append(s, c) ELSE [s EXCEPT ![pos + 1] = c]

\* WriteFileByOffSet: data at offset off; a gap before it reads as holes.
WriteFileByOffSet(s, off, data) ==
    LET end == off + Len(data)
        size == IF end > Len(s) THEN end ELSE Len(s)
    IN [i \in 1 .. size |->
          IF i > off /\ i <= end THEN data[i - off]
          ELSE IF i <= Len(s) THEN s[i] ELSE Hole]

NotFound == << <<"notfound", 0>> >>

\* GetSmallFileByURI and DownloadSmallFileByURI: the whole range must be in the
\* file and start with the flag; the flag is not served.
\* Mutated: the flag is not looked at.
ServeNoFlag(s, r) ==
    IF Len(s) < r.off + r.size THEN NotFound
    ELSE SubSeq(s, r.off + 2, r.off + r.size)

Serve(s, r) ==
    IF Len(s) < r.off + r.size \/ s[r.off + 1] # Flag THEN NotFound
    ELSE SubSeq(s, r.off + 2, r.off + r.size)

-----------------------------------------------------------------------------

SmallInit ==
    /\ Init
    /\ hay = [k \in Keys |-> <<>>]
    /\ up = [p \in Procs |-> NoUpload]
    /\ records = {}
    /\ rep = [k \in Keys |-> <<>>]
    /\ repKnown = {}

\* Room for one more upload besides those on their way into haystack k.
Room(k) == Len(hay[k]) + (Cardinality({q \in Procs : key[q] = k}) + 1) * (MaxSize + 1)
             <= MaxCells

\* SaveSmallFile: a haystack at random, LockKey(destPath).
Start(p) ==
    \E k \in Keys, m \in Contents :
        /\ Room(k)
        /\ LockNew(p, k) \/ LockFound(p, k)
        /\ up' = [up EXCEPT ![p] = [NoUpload EXCEPT !.step = "open", !.md5 = m]]
        /\ UNCHANGED <<hay, records, rep, repKnown>>

\* mutex.Lock() returns in LockKey.
Enter(p) == Acquire(p) /\ UNCHANGED smallVars

\* Mutated: no Seek after the open.
OpenAtStart(p) ==
    /\ pc[p] = "crit" /\ up[p].step = "open"
    /\ up' = [up EXCEPT ![p].step = "mark", ![p].pos = 0]
    /\ UNCHANGED <<vars, hay, records, rep, repKnown>>

\* Open the haystack, Seek(0, 2).
Open(p) ==
    /\ pc[p] = "crit" /\ up[p].step = "open"
    /\ up' = [up EXCEPT ![p].step = "mark", ![p].pos = Len(hay[key[p]])]
    /\ UNCHANGED <<vars, hay, records, rep, repKnown>>

\* Write([]byte("1")) at the position of this descriptor.
Mark(p) ==
    /\ up[p].step = "mark"
    /\ hay' = [hay EXCEPT ![key[p]] = WriteCell(@, up[p].pos, Flag)]
    /\ up' = [up EXCEPT ![p].step = "seek", ![p].pos = @ + 1]
    /\ UNCHANGED <<vars, records, rep, repKnown>>

\* Mutated: the offset is the end of the file, not the place of the flag.
SeekEndNoMinus(p) ==
    /\ up[p].step = "seek"
    /\ up' = [up EXCEPT ![p].step = "copy", ![p].pos = Len(hay[key[p]]),
                        ![p].off = Len(hay[key[p]])]
    /\ UNCHANGED <<vars, hay, records, rep, repKnown>>

\* Seek(0, 2) again: the offset of the record is one cell before the end.
SeekEnd(p) ==
    /\ up[p].step = "seek"
    /\ up' = [up EXCEPT ![p].step = "copy", ![p].pos = Len(hay[key[p]]),
                        ![p].off = Len(hay[key[p]]) - 1]
    /\ UNCHANGED <<vars, hay, records, rep, repKnown>>

\* io.Copy, one chunk.
CopyChunk(p) ==
    /\ up[p].step = "copy" /\ up[p].done < SizeOf[up[p].md5]
    /\ hay' = [hay EXCEPT ![key[p]] =
                 WriteCell(@, up[p].pos, <<up[p].md5, up[p].done + 1>>)]
    /\ up' = [up EXCEPT ![p].pos = @ + 1, ![p].done = @ + 1]
    /\ UNCHANGED <<vars, records, rep, repKnown>>

\* Mutated: the worker goes on holding the upload.
FinishNoReset(p) ==
    LET u == up[p] IN
    /\ u.step = "copy" /\ u.done = SizeOf[u.md5]
    /\ UnLockKey(p)
    /\ records' = records \cup
         {[key |-> key[p], off |-> u.off, size |-> SizeOf[u.md5] + 1, md5 |-> u.md5]}
    /\ UNCHANGED <<up, hay, rep, repKnown>>

\* Return nil: UnLockKey is deferred; the record has one cell more than the
\* content. ConsumerUpload then writes to done.
Finish(p) ==
    LET u == up[p] IN
    /\ u.step = "copy" /\ u.done = SizeOf[u.md5]
    /\ UnLockKey(p)
    /\ records' = records \cup
         {[key |-> key[p], off |-> u.off, size |-> SizeOf[u.md5] + 1, md5 |-> u.md5]}
    /\ up' = [up EXCEPT ![p] = NoUpload]
    /\ UNCHANGED <<hay, rep, repKnown>>

\* A Seek or a write fails: return err. What was written stays.
Fail(p) ==
    /\ pc[p] = "crit"
    /\ UnLockKey(p)
    /\ up' = [up EXCEPT ![p] = NoUpload]
    /\ UNCHANGED <<hay, records, rep, repKnown>>

\* DownloadFromPeer on the other node, small-file branch: skipped when the md5
\* is known; the flag is put back and the length must be that of the record.
Replicate(r) ==
    LET data == Serve(hay[r.key], r) IN
    /\ r \in records
    /\ r.md5 \notin repKnown
    /\ data # NotFound /\ Len(data) + 1 = r.size
    /\ rep' = [rep EXCEPT ![r.key] = WriteFileByOffSet(@, r.off, <<Flag>> \o data)]
    /\ repKnown' = repKnown \cup {r.md5}
    /\ UNCHANGED <<vars, hay, up, records>>

\* The uploading process dies: the haystacks stay, the locks are gone.
Crash ==
    /\ slot' = [k \in Keys |-> NoMutex]
    /\ flag' = [k \in Keys |-> FALSE]
    /\ locked' = {}
    /\ pc' = [p \in Procs |-> "idle"]
    /\ key' = [p \in Procs |-> NoKey]
    /\ mtx' = [p \in Procs |-> NoMutex]
    /\ up' = [p \in Procs |-> NoUpload]
    /\ UNCHANGED <<handoff, hay, records, rep, repKnown>>

Work(p) == Open(p) \/ Mark(p) \/ SeekEnd(p) \/ CopyChunk(p) \/ Finish(p)

SmallNext ==
    \/ \E p \in Procs : Start(p) \/ Enter(p) \/ Work(p) \/ Fail(p)
    \/ \E r \in records : Replicate(r)
    \/ Crash

SmallSpec == SmallInit /\ [][SmallNext]_allVars

-----------------------------------------------------------------------------

SmallTypeOK ==
    /\ TypeOK
    /\ \A k \in Keys : Len(hay[k]) <= MaxCells /\ Len(rep[k]) <= Len(hay[k])
    /\ \A r \in records : r.key \in Keys /\ r.off \in Nat /\ r.md5 \in Contents
    /\ \A p \in Procs : up[p].step = "none" <=> pc[p] = "idle"
    /\ repKnown \subseteq Contents

Reads(r) == Serve(hay[r.key], r) = Cells(r.md5)

\* Until an UnLockKey of the haystack meets a waiting call, every finished
\* upload reads back what was uploaded: also after failed uploads and crashes
\* left fragments in between.
ReadsBackUntilHandoff == \A r \in records : ~handoff[r.key] => Reads(r)

\* ... no two records of the haystack share a cell ...
DisjointUntilHandoff ==
    \A r, s \in records : r # s /\ r.key = s.key /\ ~handoff[r.key] =>
        r.off + r.size <= s.off \/ s.off + s.size <= r.off

\* ... and the other node, wherever its copy has holes, serves the content or
\* nothing at all.
CopyNeverWrong ==
    \A r \in records : ~handoff[r.key] =>
        Serve(rep[r.key], r) \in {NotFound, Cells(r.md5)}
=============================================================================

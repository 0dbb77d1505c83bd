-------------------------- MODULE LockUsersProofs --------------------------
(***************************************************************************)
(* Proofs about the two components that work under the key lock, small-    *)
(* file merging and the download from a peer, for any number of workers,   *)
(* paths and contents. The invariant of KeyLock holds of both              *)
(* compositions: while a path has seen no handoff, one worker at a time    *)
(* works on it. What it says about the files in between is the rest of the *)
(* two invariants, SInv and FInv.                                          *)
(***************************************************************************)
EXTENDS SmallFile, PeerDownload, KeyLockProofs, FiniteSetTheorems, SequenceTheorems

-----------------------------------------------------------------------------
(* Small-file merging: until a handoff a haystack has one writer, which    *)
(* writes at the end, behind every record.                                 *)

Cell == (Contents \cup {"flag", "hole"}) \X Nat

Uploads ==
    [step : {"none", "open", "mark", "seek", "copy"}, md5 : Contents \cup {"none"},
     pos : Nat, off : Nat, done : Nat]

Recorded == [key : Keys, off : Nat, size : Nat \ {0}, md5 : Contents]

Typed ==
    /\ hay \in [Keys -> Seq(Cell)]
    /\ up \in [Procs -> Uploads]
    /\ records \subseteq Recorded
    /\ rep \in [Keys -> Seq(Cell)]

Writing(p) == up[p].step \in {"mark", "seek", "copy"}

\* What a worker is doing goes with its call of LockKey; it never writes past
\* the end of the haystack.
UpOK(p) ==
    /\ up[p].step = "none" <=> pc[p] = "idle"
    /\ Writing(p) => pc[p] = "crit" /\ up[p].pos <= Len(hay[key[p]])
    /\ up[p].step = "seek" => up[p].pos > 0
    /\ up[p].step # "none" => up[p].md5 \in Contents
    /\ up[p].step # "copy" => up[p].done = 0

UpState == \A p \in Procs : UpOK(p)

\* s has the flag at offset off, and n cells of content m behind it.
Written(s, off, m, n) ==
    /\ off + 1 + n <= Len(s)
    /\ s[off + 1] = Flag
    /\ \A i \in off + 2 .. off + 1 + n : s[i] = <<m, i - off - 1>>

\* The records of haystack k end at or before offset end.
Before(k, end) == \A r \in records : r.key = k => r.off + r.size <= end

\* The writer of a haystack is at its end, and its upload is behind the records.
WriterOK(p) == Writing(p) /\ ~handoff[key[p]] =>
    /\ up[p].pos = Len(hay[key[p]])
    /\ up[p].step = "seek" =>
         /\ hay[key[p]][up[p].pos] = Flag
         /\ Before(key[p], up[p].pos - 1)
    /\ up[p].step = "copy" =>
         /\ up[p].pos = up[p].off + 1 + up[p].done
         /\ up[p].done <= SizeOf[up[p].md5]
         /\ Written(hay[key[p]], up[p].off, up[p].md5, up[p].done)
         /\ Before(key[p], up[p].off)

WriterInv == \A p \in Procs : WriterOK(p)

RecordInv ==
    \A r \in records : ~handoff[r.key] =>
        /\ r.size = SizeOf[r.md5] + 1
        /\ Written(hay[r.key], r.off, r.md5, SizeOf[r.md5])

\* The copy has holes but where records are, and a flag stands for its record.
CopyInv ==
    \A k \in Keys : ~handoff[k] =>
        /\ \A i \in 1 .. Len(rep[k]) : rep[k][i] # Hole =>
             \E r \in records : r.key = k /\ r.off < i /\ i <= r.off + r.size
        /\ \A r \in records :
             r.key = k /\ r.off + 1 <= Len(rep[k]) /\ rep[k][r.off + 1] = Flag
               => Written(rep[k], r.off, r.md5, SizeOf[r.md5])

SInv ==
    /\ IInv
    /\ Typed /\ UpState /\ WriterInv /\ RecordInv /\ DisjointUntilHandoff /\ CopyInv

-----------------------------------------------------------------------------
(* What a write, a read and a copy do to the cells of a file.              *)

\* A write at or before the end gives a file that is no shorter.
LEMMA WriteCellType ==
    ASSUME NEW s \in Seq(Cell), NEW pos \in Nat, pos <= Len(s), NEW c \in Cell
    PROVE  /\ WriteCell(s, pos, c) \in Seq(Cell)
           /\ Len(WriteCell(s, pos, c)) >= Len(s)
           /\ Len(WriteCell(s, pos, c)) >= pos + 1
<1>1. CASE pos = Len(s)
  BY <1>1 DEF WriteCell
<1>2. CASE pos # Len(s)
  BY <1>2 DEF WriteCell
<1>. QED BY <1>1, <1>2

\* A write at the end adds one cell and keeps the others.
LEMMA WriteAtEnd ==
    ASSUME NEW s \in Seq(Cell), NEW c \in Cell
    PROVE  /\ Len(WriteCell(s, Len(s), c)) = Len(s) + 1
           /\ WriteCell(s, Len(s), c)[Len(s) + 1] = c
           /\ \A i \in 1 .. Len(s) : WriteCell(s, Len(s), c)[i] = s[i]
BY DEF WriteCell

LEMMA WrittenKept ==
    ASSUME NEW s \in Seq(Cell), NEW t \in Seq(Cell), NEW off \in Nat, NEW n \in Nat, NEW m,
           Written(s, off, m, n), Len(t) >= Len(s),
           \A i \in 1 .. Len(s) : t[i] = s[i]
    PROVE  Written(t, off, m, n)
<1>1. off + 1 + n <= Len(t)
  BY DEF Written
<1>2. t[off + 1] = Flag
  <2>1. off + 1 \in 1 .. Len(s)
    BY DEF Written
  <2>. QED BY <2>1 DEF Written
<1>3. ASSUME NEW i \in off + 2 .. off + 1 + n PROVE t[i] = <<m, i - off - 1>>
  <2>1. i \in 1 .. Len(s)
    BY DEF Written
  <2>. QED BY <2>1 DEF Written
<1>. QED BY <1>1, <1>2, <1>3 DEF Written

\* A read of a range in the file gives as many cells as were asked for.
LEMMA ServeType ==
    ASSUME NEW s \in Seq(Cell), NEW r \in Recorded, Serve(s, r) # NotFound
    PROVE  /\ Serve(s, r) \in Seq(Cell)
           /\ Len(Serve(s, r)) = r.size - 1
<1>1. r.off \in Nat /\ r.size \in Nat \ {0}
  BY DEF Recorded
<1>2. Serve(s, r) = SubSeq(s, r.off + 2, r.off + r.size) /\ r.off + r.size <= Len(s)
  <2>1. ~(Len(s) < r.off + r.size \/ s[r.off + 1] # Flag)
    BY DEF Serve
  <2>2. ~(Len(s) < r.off + r.size)
    BY <2>1
  <2>3. r.off + r.size <= Len(s)
    BY <1>1, <2>2
  <2>. QED BY <2>1, <2>3 DEF Serve
<1>3. \A i \in r.off + 2 .. r.off + r.size : s[i] \in Cell
  BY <1>1, <1>2
<1>. QED BY <1>1, <1>2, <1>3, SubSeqProperties

LEMMA CellsAfterFlag ==
    ASSUME NEW s \in Seq(Cell), NEW off \in Nat, NEW m, NEW n \in Nat,
           n = SizeOf[m], Written(s, off, m, n)
    PROVE  SubSeq(s, off + 2, off + 1 + n) = Cells(m)
<1>. DEFINE t == SubSeq(s, off + 2, off + 1 + n)
<1>1. off + 1 + n <= Len(s)
  BY DEF Written
<1>2. t \in Seq(Cell) /\ Len(t) = n /\ \A i \in 1 .. n : t[i] = s[off + 1 + i]
  <2>1. \A i \in off + 2 .. off + 1 + n : s[i] \in Cell
    BY <1>1
  <2>2. /\ t \in Seq(Cell)
        /\ Len(t) = IF off + 2 <= off + 1 + n THEN off + 1 + n - (off + 2) + 1 ELSE 0
        /\ \A i \in 1 .. off + 1 + n - (off + 2) + 1 : t[i] = s[off + 2 + i - 1]
    BY <2>1, SubSeqProperties
  <2>. HIDE DEF t
  <2>. QED BY <2>2
<1>3. ASSUME NEW i \in 1 .. n PROVE t[i] = <<m, i>>
  <2>1. off + 1 + i \in off + 2 .. off + 1 + n /\ (off + 1 + i) - off - 1 = i
    OBVIOUS
  <2>2. s[off + 1 + i] = <<m, (off + 1 + i) - off - 1>>
    BY <2>1 DEF Written
  <2>3. t[i] = s[off + 1 + i]
    BY <1>2
  <2>. QED BY <2>1, <2>2, <2>3
<1>. HIDE DEF t
<1>4. t = [i \in 1 .. n |-> <<m, i>>]
  <2>1. t \in [1 .. n -> Cell]
    BY <1>2, LenProperties
  <2>. QED BY <2>1, <1>3
<1>. QED BY <1>4 DEF t, Cells

LEMMA ServeWritten ==
    ASSUME NEW s \in Seq(Cell), NEW r \in Recorded,
           SizeOf[r.md5] \in Nat, r.size = SizeOf[r.md5] + 1,
           Written(s, r.off, r.md5, SizeOf[r.md5])
    PROVE  Serve(s, r) = Cells(r.md5)
<1>1. r.off \in Nat
  BY DEF Recorded
<1>2. r.off + r.size = r.off + 1 + SizeOf[r.md5]
  BY <1>1
<1>3. ~(Len(s) < r.off + r.size \/ s[r.off + 1] # Flag)
  BY <1>1, <1>2 DEF Written
<1>4. Serve(s, r) = SubSeq(s, r.off + 2, r.off + r.size)
  BY <1>3 DEF Serve
<1>5. SubSeq(s, r.off + 2, r.off + 1 + SizeOf[r.md5]) = Cells(r.md5)
  <2>1. ASSUME NEW n \in Nat, NEW off \in Nat, NEW m, n = SizeOf[m], Written(s, off, m, n)
        PROVE  SubSeq(s, off + 2, off + 1 + n) = Cells(m)
    BY <2>1, CellsAfterFlag
  <2>2. \A n \in Nat : n = SizeOf[r.md5] => Written(s, r.off, r.md5, n)
    OBVIOUS
  <2>. QED BY <1>1, <2>1, <2>2
<1>. QED BY <1>2, <1>4, <1>5

\* t is s after the flag and n cells of data were put at offset off: the other
\* cells are as they were, or holes.
CopyOf(t, s, off, data, n) ==
    /\ t \in Seq(Cell)
    /\ off + 1 + n <= Len(t) /\ Len(s) <= Len(t)
    /\ t[off + 1] = Flag
    /\ \A i \in off + 2 .. off + 1 + n : t[i] = data[i - off - 1]
    /\ \A i \in 1 .. Len(t) : i <= off \/ off + 1 + n < i =>
         t[i] = IF i <= Len(s) THEN s[i] ELSE Hole

LEMMA CopyWritten ==
    ASSUME NEW s \in Seq(Cell), NEW off \in Nat, NEW n \in Nat, NEW data \in Seq(Cell),
           Len(data) = n, NEW t, t = WriteFileByOffSet(s, off, <<Flag>> \o data)
    PROVE  CopyOf(t, s, off, data, n)
<1>. DEFINE d == <<Flag>> \o data
            size == IF off + 1 + n > Len(s) THEN off + 1 + n ELSE Len(s)
            c(i) == IF i > off /\ i <= off + 1 + n THEN d[i - off]
                    ELSE IF i <= Len(s) THEN s[i] ELSE Hole
<1>1. Flag \in Cell /\ Hole \in Cell
  BY DEF Flag, Hole, Cell
<1>2. /\ d \in Seq(Cell) /\ Len(d) = n + 1 /\ d[1] = Flag
      /\ \A i \in 2 .. n + 1 : d[i] = data[i - 1]
  BY <1>1
<1>. HIDE DEF d
<1>3. size \in Nat /\ off + 1 + n <= size /\ Len(s) <= size
  OBVIOUS
<1>4. t = [i \in 1 .. size |-> c(i)]
  BY <1>2 DEF WriteFileByOffSet, d
<1>5. \A i \in 1 .. size : c(i) \in Cell
  <2>1. TAKE i \in 1 .. size
  <2>2. CASE i > off /\ i <= off + 1 + n
    BY <1>2, <2>2
  <2>3. CASE ~(i > off /\ i <= off + 1 + n)
    BY <1>1, <2>3
  <2>. QED BY <2>2, <2>3
<1>6. t \in [1 .. size -> Cell]
  BY <1>4, <1>5
<1>8. \A i \in 1 .. size : t[i] = c(i)
  BY <1>4
<1>. HIDE DEF size
<1>7. t \in Seq(Cell) /\ Len(t) = size
  <2>1. t \in Seq(Cell)
    BY <1>3, <1>6, SeqDef
  <2>2. 1 .. Len(t) = 1 .. size /\ Len(t) \in Nat
    BY <1>6, <2>1, LenProperties
  <2>. QED BY <1>3, <2>1, <2>2
<1>9. t[off + 1] = Flag
  <2>1. off + 1 \in 1 .. size /\ (off + 1) - off = 1
    BY <1>3
  <2>2. c(off + 1) = d[1]
    BY <2>1
  <2>. QED BY <1>2, <1>8, <2>1, <2>2
<1>10. \A i \in off + 2 .. off + 1 + n : t[i] = data[i - off - 1]
  <2>1. TAKE i \in off + 2 .. off + 1 + n
  <2>2. t[i] = d[i - off] /\ i - off \in 2 .. n + 1
    BY <1>3, <1>8
  <2>. QED BY <1>2, <2>2
<1>11. \A i \in 1 .. Len(t) : i <= off \/ off + 1 + n < i =>
         t[i] = IF i <= Len(s) THEN s[i] ELSE Hole
  BY <1>3, <1>7, <1>8
<1>. QED BY <1>3, <1>7, <1>9, <1>10, <1>11 DEF CopyOf

-----------------------------------------------------------------------------
(* The invariant, action by action.                                        *)

LEMMA SizeType == \A m \in Contents : SizeOf[m] \in Nat
BY SizeAssumption

LEMMA InitSInv == SmallInit => SInv
<1>1. SUFFICES ASSUME SmallInit PROVE SInv
  OBVIOUS
<1>2. IInv
  BY <1>1, InitIInv DEF SmallInit
<1>3. Typed
  BY <1>1 DEF SmallInit, Typed, Uploads, NoUpload
<1>4. UpState /\ WriterInv
  BY <1>1 DEF SmallInit, Init, UpState, UpOK, WriterInv, WriterOK, Writing, NoUpload
<1>5. RecordInv /\ DisjointUntilHandoff /\ CopyInv
  BY <1>1 DEF SmallInit, RecordInv, DisjointUntilHandoff, CopyInv
<1>. QED BY <1>2, <1>3, <1>4, <1>5 DEF SInv

\* A worker in a critical section has a haystack.
LEMMA CritHasKey ==
    ASSUME SInv, NEW p \in Procs, pc[p] # "idle"
    PROVE  key[p] \in Keys
BY DEF SInv, IInv, TypeOK, CallState

\* What is said of the records stays as long as no cell is written.
LEMMA RecordsKept ==
    ASSUME SInv, UNCHANGED <<hay, records, rep>>,
           \A k \in Keys : handoff[k] => handoff'[k]
    PROVE  RecordInv' /\ DisjointUntilHandoff' /\ CopyInv'
<1>1. \A r \in records : r.key \in Keys
  BY DEF SInv, Typed, Recorded
<1>2. RecordInv'
  BY <1>1 DEF SInv, RecordInv
<1>3. DisjointUntilHandoff'
  BY <1>1 DEF SInv, DisjointUntilHandoff
<1>4. CopyInv'
  BY <1>1 DEF SInv, CopyInv
<1>. QED BY <1>2, <1>3, <1>4

\* A worker that does nothing keeps its part, as long as no cell is written.
LEMMA OthersKept ==
    ASSUME SInv, UNCHANGED <<hay, records>>, NEW q \in Procs,
           up'[q] = up[q], key'[q] = key[q], pc'[q] = pc[q],
           \A k \in Keys : handoff[k] => handoff'[k]
    PROVE  UpOK(q)' /\ WriterOK(q)'
<1>1. UpOK(q) /\ WriterOK(q)
  BY DEF SInv, UpState, WriterInv
<1>2. UpOK(q)'
  BY <1>1 DEF UpOK, Writing
<1>3. WriterOK(q)'
  <2>1. Writing(q)' => Writing(q) /\ key[q] \in Keys
    BY <1>1, CritHasKey DEF Writing, UpOK
  <2>2. Writing(q)' /\ ~handoff'[key'[q]] => ~handoff[key[q]]
    BY <2>1
  <2>. QED BY <1>1, <2>1, <2>2 DEF WriterOK, Writing, Before
<1>. QED BY <1>2, <1>3

LEMMA StartSInv ==
    ASSUME SInv, NEW p \in Procs, Start(p)
    PROVE  SInv'
<1>1. PICK k \in Keys, m \in Contents :
        /\ LockNew(p, k) \/ LockFound(p, k)
        /\ up' = [up EXCEPT ![p] = [NoUpload EXCEPT !.step = "open", !.md5 = m]]
        /\ UNCHANGED <<hay, records, rep>>
  BY DEF Start
<1>2. /\ pc[p] = "idle" /\ pc'[p] # "idle"
      /\ UNCHANGED handoff
      /\ \A q \in Procs \ {p} : key'[q] = key[q] /\ pc'[q] = pc[q] /\ up'[q] = up[q]
  BY <1>1 DEF LockNew, LockFound, SInv, IInv, TypeOK, Typed
<1>3. IInv'
  BY <1>1, LockNewIInv, LockFoundIInv DEF SInv
<1>4. Typed'
  BY <1>1 DEF SInv, Typed, Uploads, NoUpload
<1>5. UpOK(p)' /\ WriterOK(p)'
  BY <1>1, <1>2 DEF SInv, Typed, UpOK, WriterOK, Writing, NoUpload
<1>6. \A q \in Procs \ {p} : UpOK(q)' /\ WriterOK(q)'
  BY <1>1, <1>2, OthersKept
<1>7. RecordInv' /\ DisjointUntilHandoff' /\ CopyInv'
  BY <1>1, <1>2, RecordsKept
<1>. QED BY <1>3, <1>4, <1>5, <1>6, <1>7 DEF SInv, UpState, WriterInv

LEMMA EnterSInv ==
    ASSUME SInv, NEW p \in Procs, Enter(p)
    PROVE  SInv'
<1>1. Acquire(p) /\ UNCHANGED smallVars
  BY DEF Enter
<1>2. /\ pc[p] = "wait" /\ pc'[p] = "crit"
      /\ UNCHANGED <<handoff, hay, up, records, rep>>
      /\ \A q \in Procs \ {p} : key'[q] = key[q] /\ pc'[q] = pc[q] /\ up'[q] = up[q]
  BY <1>1 DEF Acquire, smallVars, SInv, IInv, TypeOK
<1>3. IInv'
  BY <1>1, AcquireIInv DEF SInv
<1>4. Typed'
  BY <1>2 DEF SInv, Typed
<1>5. UpOK(p)' /\ WriterOK(p)'
  BY <1>2 DEF SInv, UpState, UpOK, WriterOK, Writing
<1>6. \A q \in Procs \ {p} : UpOK(q)' /\ WriterOK(q)'
  BY <1>2, OthersKept
<1>7. RecordInv' /\ DisjointUntilHandoff' /\ CopyInv'
  BY <1>2, RecordsKept
<1>. QED BY <1>3, <1>4, <1>5, <1>6, <1>7 DEF SInv, UpState, WriterInv

\* The invariant of the lock does not look at anything else.
LEMMA OpenSInv ==
    ASSUME SInv, NEW p \in Procs, Open(p)
    PROVE  SInv'
<1>1. key[p] \in Keys /\ Len(hay[key[p]]) \in Nat
  BY CritHasKey DEF Open, SInv, Typed
<1>2. /\ UNCHANGED <<pc, key, handoff, hay, records, rep>>
      /\ \A q \in Procs \ {p} : up'[q] = up[q]
  BY DEF Open, vars, SInv, Typed
<1>3. IInv'
  BY KeptIInv DEF Open, SInv
<1>4. Typed'
  BY <1>1 DEF Open, SInv, Typed, Uploads
<1>5. UpOK(p)' /\ WriterOK(p)'
  <2>1. up'[p].step = "mark" /\ up'[p].pos = Len(hay[key[p]])
       /\ up'[p].md5 = up[p].md5 /\ up'[p].done = up[p].done
    BY DEF Open, SInv, Typed, Uploads
  <2>2. pc[p] = "crit" /\ up[p].md5 \in Contents /\ up[p].done = 0
    BY DEF Open, SInv, UpState, UpOK
  <2>. QED BY <1>1, <1>2, <2>1, <2>2 DEF UpOK, WriterOK, Writing
<1>6. \A q \in Procs \ {p} : UpOK(q)' /\ WriterOK(q)'
  BY <1>2, OthersKept
<1>7. RecordInv' /\ DisjointUntilHandoff' /\ CopyInv'
  BY <1>2, RecordsKept
<1>. QED BY <1>3, <1>4, <1>5, <1>6, <1>7 DEF SInv, UpState, WriterInv

LEMMA SeekEndSInv ==
    ASSUME SInv, NEW p \in Procs, SeekEnd(p)
    PROVE  SInv'
<1>. DEFINE s == hay[key[p]]
<1>1. /\ pc[p] = "crit" /\ up[p].md5 \in Contents /\ up[p].done = 0
      /\ up[p].pos > 0 /\ up[p].pos <= Len(s)
  BY DEF SeekEnd, SInv, UpState, UpOK, Writing
<1>2. key[p] \in Keys /\ s \in Seq(Cell) /\ up[p].pos \in Nat /\ Len(s) - 1 \in Nat
  BY <1>1, CritHasKey DEF SInv, Typed, Uploads
<1>3. /\ UNCHANGED <<pc, key, handoff, hay, records, rep>>
      /\ \A q \in Procs \ {p} : up'[q] = up[q]
      /\ up[p].step = "seek"
  BY DEF SeekEnd, vars, SInv, Typed
<1>4. /\ up'[p].step = "copy" /\ up'[p].pos = Len(s) /\ up'[p].off = Len(s) - 1
      /\ up'[p].md5 = up[p].md5 /\ up'[p].done = 0
  BY <1>1 DEF SeekEnd, SInv, Typed, Uploads
<1>5. IInv'
  BY KeptIInv DEF SeekEnd, SInv
<1>6. Typed'
  <2>1. ASSUME NEW n \in Nat, NEW off \in Nat,
               up' = [up EXCEPT ![p].step = "copy", ![p].pos = n, ![p].off = off]
        PROVE  up' \in [Procs -> Uploads]
    BY <2>1 DEF SInv, Typed, Uploads
  <2>2. Len(s) \in Nat
    BY <1>2
  <2>. QED BY <1>2, <1>3, <2>1, <2>2 DEF SeekEnd, SInv, Typed
<1>7. UpOK(p)'
  BY <1>1, <1>2, <1>3, <1>4 DEF UpOK, Writing
<1>8. WriterOK(p)'
  <2>1. SUFFICES ASSUME ~handoff[key[p]] PROVE WriterOK(p)'
    BY <1>3 DEF WriterOK
  <2>2. up[p].pos = Len(s) /\ s[up[p].pos] = Flag /\ Before(key[p], up[p].pos - 1)
    BY <1>3, <2>1 DEF SInv, WriterInv, WriterOK, Writing
  <2>3. Written(s, Len(s) - 1, up[p].md5, 0)
    BY <1>2, <2>2 DEF Written
  <2>4. Before(key[p], Len(s) - 1)
    BY <2>2
  <2>5. 0 <= SizeOf[up[p].md5]
    BY <1>1, SizeType
  <2>. QED BY <1>2, <1>3, <1>4, <2>3, <2>4, <2>5 DEF WriterOK, Before
<1>9. \A q \in Procs \ {p} : UpOK(q)' /\ WriterOK(q)'
  BY <1>3, OthersKept
<1>10. RecordInv' /\ DisjointUntilHandoff' /\ CopyInv'
  BY <1>3, RecordsKept
<1>. QED BY <1>5, <1>6, <1>7, <1>8, <1>9, <1>10 DEF SInv, UpState, WriterInv

\* A write of worker p. While its haystack has seen no handoff it is the only
\* writer there and writes at the end: every cell before stays.
LEMMA WriteKeeps ==
    ASSUME SInv, NEW p \in Procs, NEW c \in Cell, Writing(p),
           hay' = [hay EXCEPT ![key[p]] = WriteCell(@, up[p].pos, c)],
           UNCHANGED <<pc, key, handoff, records, rep>>,
           \A q \in Procs \ {p} : up'[q] = up[q]
    PROVE  /\ key[p] \in Keys /\ up[p].pos \in Nat
           /\ hay' \in [Keys -> Seq(Cell)]
           /\ up[p].pos + 1 <= Len(hay'[key[p]])
           /\ ~handoff[key[p]] =>
                /\ up[p].pos = Len(hay[key[p]])
                /\ Len(hay'[key[p]]) = up[p].pos + 1
                /\ hay'[key[p]][up[p].pos + 1] = c
                /\ \A i \in 1 .. up[p].pos : hay'[key[p]][i] = hay[key[p]][i]
           /\ RecordInv' /\ DisjointUntilHandoff' /\ CopyInv'
           /\ \A q \in Procs \ {p} : UpOK(q)' /\ WriterOK(q)'
<1>. DEFINE h == key[p]
            pos == up[p].pos
<1>1. pc[p] = "crit" /\ pos <= Len(hay[h])
  BY DEF SInv, UpState, UpOK
<1>2. h \in Keys /\ pos \in Nat /\ hay[h] \in Seq(Cell)
  BY <1>1, CritHasKey DEF SInv, Typed, Uploads
<1>3. /\ hay'[h] = WriteCell(hay[h], pos, c)
      /\ \A k \in Keys \ {h} : hay'[k] = hay[k]
  BY <1>2 DEF SInv, Typed
<1>4. /\ hay'[h] \in Seq(Cell) /\ Len(hay'[h]) >= Len(hay[h])
      /\ Len(hay'[h]) >= pos + 1
  BY <1>1, <1>2, <1>3, WriteCellType
<1>5. hay' \in [Keys -> Seq(Cell)]
  BY <1>2, <1>3, <1>4 DEF SInv, Typed
<1>6. ASSUME ~handoff[h]
      PROVE  /\ pos = Len(hay[h]) /\ Len(hay'[h]) = pos + 1 /\ hay'[h][pos + 1] = c
             /\ \A i \in 1 .. pos : hay'[h][i] = hay[h][i]
  <2>1. pos = Len(hay[h])
    BY <1>6 DEF SInv, WriterInv, WriterOK
  <2>. QED BY <1>2, <1>3, <2>1, WriteAtEnd
<1>7. RecordInv'
  <2>1. SUFFICES ASSUME NEW r \in records, ~handoff[r.key]
                 PROVE  /\ r.size = SizeOf[r.md5] + 1
                        /\ Written(hay'[r.key], r.off, r.md5, SizeOf[r.md5])
    BY DEF RecordInv
  <2>2. /\ r.size = SizeOf[r.md5] + 1
        /\ Written(hay[r.key], r.off, r.md5, SizeOf[r.md5])
    BY <2>1 DEF SInv, RecordInv
  <2>3. r.key \in Keys /\ r.off \in Nat /\ r.md5 \in Contents
    BY DEF SInv, Typed, Recorded
  <2>4. CASE r.key # h
    BY <1>3, <2>2, <2>3, <2>4
  <2>5. CASE r.key = h
    <3>1. SizeOf[r.md5] \in Nat
      BY <2>3, SizeType
    <3>2. /\ Len(hay'[h]) >= Len(hay[h])
          /\ \A i \in 1 .. Len(hay[h]) : hay'[h][i] = hay[h][i]
      BY <1>4, <1>6, <2>1, <2>5
    <3>3. Written(hay'[h], r.off, r.md5, SizeOf[r.md5])
      BY <1>2, <1>4, <2>2, <2>3, <2>5, <3>1, <3>2, WrittenKept
    <3>. QED BY <2>2, <2>5, <3>3
  <2>. QED BY <2>4, <2>5
<1>8. DisjointUntilHandoff' /\ CopyInv'
  BY DEF SInv, DisjointUntilHandoff, CopyInv
<1>9. ASSUME NEW q \in Procs \ {p} PROVE UpOK(q)' /\ WriterOK(q)'
  <2>1. UpOK(q) /\ WriterOK(q) /\ up'[q] = up[q]
    BY <1>9 DEF SInv, UpState, WriterInv
  <2>2. ASSUME Writing(q)
        PROVE  /\ key[q] \in Keys /\ up[q].pos \in Nat /\ up[q].pos <= Len(hay'[key[q]])
               /\ ~handoff[key[q]] => key[q] # h
    <3>1. pc[q] = "crit" /\ up[q].pos <= Len(hay[key[q]])
      BY <2>1, <2>2 DEF UpOK
    <3>2. key[q] \in Keys /\ up[q].pos \in Nat
      BY <3>1, CritHasKey DEF SInv, Typed, Uploads
    <3>3. up[q].pos <= Len(hay'[key[q]])
      <4>1. hay[key[q]] \in Seq(Cell) /\ hay'[key[q]] \in Seq(Cell)
        BY <1>5, <3>2 DEF SInv, Typed
      <4>2. Len(hay[key[q]]) <= Len(hay'[key[q]])
        BY <1>3, <1>4, <3>2, <4>1
      <4>. QED BY <3>1, <3>2, <4>1, <4>2
    <3>4. ~handoff[key[q]] => key[q] # h
      BY <1>1, <1>2, <1>9, <3>1, <3>2 DEF SInv, IInv, OneMutexUntilHandoff, Holds
    <3>. QED BY <3>2, <3>3, <3>4
  <2>3. UpOK(q)'
    BY <2>1, <2>2 DEF UpOK, Writing
  <2>4. WriterOK(q)'
    <3>1. SUFFICES ASSUME Writing(q), ~handoff[key[q]] PROVE WriterOK(q)'
      BY <2>1 DEF WriterOK, Writing
    <3>2. hay'[key[q]] = hay[key[q]]
      BY <1>3, <2>2, <3>1
    <3>. QED BY <2>1, <3>1, <3>2 DEF WriterOK, Before, Writing
  <2>. QED BY <2>3, <2>4
<1>. QED BY <1>2, <1>4, <1>5, <1>6, <1>7, <1>8, <1>9

LEMMA MarkSInv ==
    ASSUME SInv, NEW p \in Procs, Mark(p)
    PROVE  SInv'
<1>. DEFINE h == key[p]
            pos == up[p].pos
<1>1. /\ up[p].step = "mark" /\ Writing(p) /\ Flag \in Cell
      /\ hay' = [hay EXCEPT ![h] = WriteCell(@, pos, Flag)]
      /\ UNCHANGED <<pc, key, handoff, records, rep>>
      /\ \A q \in Procs \ {p} : up'[q] = up[q]
  BY DEF Mark, vars, SInv, Typed, Writing, Flag, Cell
<1>2. /\ h \in Keys /\ pos \in Nat
      /\ hay' \in [Keys -> Seq(Cell)]
      /\ pos + 1 <= Len(hay'[h])
      /\ ~handoff[h] =>
           /\ pos = Len(hay[h])
           /\ Len(hay'[h]) = pos + 1
           /\ hay'[h][pos + 1] = Flag
           /\ \A i \in 1 .. pos : hay'[h][i] = hay[h][i]
      /\ RecordInv' /\ DisjointUntilHandoff' /\ CopyInv'
      /\ \A q \in Procs \ {p} : UpOK(q)' /\ WriterOK(q)'
  BY <1>1, WriteKeeps
<1>3. /\ up'[p].step = "seek" /\ up'[p].pos = pos + 1
      /\ up'[p].md5 = up[p].md5 /\ up'[p].done = up[p].done
  BY DEF Mark, SInv, Typed, Uploads
<1>4. pc[p] = "crit" /\ up[p].md5 \in Contents /\ up[p].done = 0
  BY <1>1 DEF SInv, UpState, UpOK
<1>5. IInv'
  BY KeptIInv DEF Mark, SInv
<1>6. Typed'
  <2>1. ASSUME NEW n \in Nat, up' = [up EXCEPT ![p].step = "seek", ![p].pos = n]
        PROVE  up' \in [Procs -> Uploads]
    BY <2>1 DEF SInv, Typed, Uploads
  <2>2. pos + 1 \in Nat
    BY <1>2
  <2>. QED BY <1>1, <1>2, <2>1, <2>2 DEF Mark, SInv, Typed
<1>7. UpOK(p)'
  BY <1>1, <1>2, <1>3, <1>4 DEF UpOK, Writing
<1>8. WriterOK(p)'
  <2>1. SUFFICES ASSUME ~handoff[h] PROVE WriterOK(p)'
    BY <1>1 DEF WriterOK
  \* A record of the haystack ends where the file ended before the write.
  <2>2. ASSUME NEW r \in records, r.key = h PROVE r.off + r.size <= pos
    <3>1. /\ r.size = SizeOf[r.md5] + 1
          /\ Written(hay[h], r.off, r.md5, SizeOf[r.md5])
      BY <2>1, <2>2 DEF SInv, RecordInv
    <3>2. r.off \in Nat /\ SizeOf[r.md5] \in Nat
      BY SizeType DEF SInv, Typed, Recorded
    <3>3. r.off + 1 + SizeOf[r.md5] <= pos
      BY <1>2, <2>1, <3>1 DEF Written
    <3>. QED BY <1>2, <3>1, <3>2, <3>3
  <2>3. Before(h, pos)
    BY <2>2 DEF Before
  <2>. QED BY <1>1, <1>2, <1>3, <2>1, <2>3 DEF WriterOK, Writing, Before
<1>. QED BY <1>2, <1>5, <1>6, <1>7, <1>8 DEF SInv, UpState, WriterInv

LEMMA CopyChunkSInv ==
    ASSUME SInv, NEW p \in Procs, CopyChunk(p)
    PROVE  SInv'
<1>. DEFINE h == key[p]
            pos == up[p].pos
            c == <<up[p].md5, up[p].done + 1>>
<1>1. up[p].step = "copy" /\ Writing(p)
  BY DEF CopyChunk, Writing
<1>2. /\ pc[p] = "crit" /\ up[p].md5 \in Contents
      /\ up[p].done \in Nat /\ up[p].off \in Nat /\ c \in Cell
  BY <1>1 DEF SInv, UpState, UpOK, Typed, Uploads, Cell
<1>3. /\ hay' = [hay EXCEPT ![h] = WriteCell(@, pos, c)]
      /\ UNCHANGED <<pc, key, handoff, records, rep>>
      /\ \A q \in Procs \ {p} : up'[q] = up[q]
  BY DEF CopyChunk, vars, SInv, Typed
<1>4. /\ h \in Keys /\ pos \in Nat
      /\ hay' \in [Keys -> Seq(Cell)]
      /\ pos + 1 <= Len(hay'[h])
      /\ ~handoff[h] =>
           /\ pos = Len(hay[h])
           /\ Len(hay'[h]) = pos + 1
           /\ hay'[h][pos + 1] = c
           /\ \A i \in 1 .. pos : hay'[h][i] = hay[h][i]
      /\ RecordInv' /\ DisjointUntilHandoff' /\ CopyInv'
      /\ \A q \in Procs \ {p} : UpOK(q)' /\ WriterOK(q)'
  BY <1>1, <1>2, <1>3, WriteKeeps
<1>5. /\ up'[p].step = "copy" /\ up'[p].pos = pos + 1 /\ up'[p].off = up[p].off
      /\ up'[p].md5 = up[p].md5 /\ up'[p].done = up[p].done + 1
  BY <1>1 DEF CopyChunk, SInv, Typed, Uploads
<1>6. IInv'
  BY KeptIInv DEF CopyChunk, SInv
<1>7. Typed'
  <2>1. ASSUME NEW n \in Nat, NEW d \in Nat,
               up' = [up EXCEPT ![p].pos = n, ![p].done = d]
        PROVE  up' \in [Procs -> Uploads]
    BY <2>1 DEF SInv, Typed, Uploads
  <2>2. pos + 1 \in Nat /\ up[p].done + 1 \in Nat
    BY <1>2, <1>4
  <2>. QED BY <1>3, <1>4, <2>1, <2>2 DEF CopyChunk, SInv, Typed
<1>8. UpOK(p)'
  BY <1>2, <1>3, <1>4, <1>5 DEF UpOK, Writing
<1>9. WriterOK(p)'
  <2>. DEFINE off == up[p].off
              m == up[p].md5
              n == up[p].done
  <2>1. SUFFICES ASSUME ~handoff[h] PROVE WriterOK(p)'
    BY <1>3 DEF WriterOK
  <2>2. pos = off + 1 + n /\ Written(hay[h], off, m, n) /\ Before(h, off)
    BY <1>1, <2>1 DEF SInv, WriterInv, WriterOK
  <2>3. n + 1 <= SizeOf[m]
    BY <1>2, SizeType DEF CopyChunk
  <2>4. Written(hay'[h], off, m, n + 1)
    <3>1. off + 1 + (n + 1) <= Len(hay'[h])
      BY <1>2, <1>4, <2>1, <2>2
    <3>2. hay'[h][off + 1] = Flag
      <4>1. off + 1 \in 1 .. pos
        BY <1>2, <2>2
      <4>2. hay[h][off + 1] = Flag
        BY <2>2 DEF Written
      <4>. QED BY <1>4, <2>1, <4>1, <4>2
    <3>3. ASSUME NEW i \in off + 2 .. off + 1 + (n + 1)
          PROVE  hay'[h][i] = <<m, i - off - 1>>
      <4>1. CASE i = pos + 1
        <5>1. i - off - 1 = n + 1
          BY <1>2, <2>2, <4>1
        <5>. QED BY <1>4, <2>1, <4>1, <5>1
      <4>2. CASE i # pos + 1
        <5>1. i \in off + 2 .. off + 1 + n /\ i \in 1 .. pos
          BY <1>2, <2>2, <4>2
        <5>. QED BY <1>4, <2>1, <2>2, <5>1 DEF Written
      <4>. QED BY <4>1, <4>2
    <3>. QED BY <3>1, <3>2, <3>3 DEF Written
  <2>5. pos + 1 = off + 1 + (n + 1)
    BY <1>2, <2>2
  <2>. QED BY <1>3, <1>4, <1>5, <2>1, <2>2, <2>3, <2>4, <2>5 DEF WriterOK, Before
<1>. QED BY <1>4, <1>6, <1>7, <1>8, <1>9 DEF SInv, UpState, WriterInv

\* UnLockKey ends the call of its worker only; a handoff is never forgotten.
LEMMA UnLockKeyKeeps ==
    ASSUME SInv, NEW p \in Procs, UnLockKey(p)
    PROVE  /\ pc[p] = "crit" /\ pc'[p] = "idle" /\ key[p] \in Keys
           /\ \A k \in Keys : handoff[k] => handoff'[k]
           /\ \A q \in Procs \ {p} : key'[q] = key[q] /\ pc'[q] = pc[q]
           /\ IInv'
<1>1. pc[p] = "crit" /\ pc'[p] = "idle"
  BY DEF UnLockKey, SInv, IInv, TypeOK
<1>2. key[p] \in Keys
  BY <1>1, CritHasKey
<1>3. \A k \in Keys : handoff[k] => handoff'[k]
  BY <1>2 DEF UnLockKey, SInv, IInv, TypeOK
<1>4. \A q \in Procs \ {p} : key'[q] = key[q] /\ pc'[q] = pc[q]
  BY DEF UnLockKey, SInv, IInv, TypeOK
<1>5. IInv'
  BY UnLockKeyIInv DEF SInv
<1>. QED BY <1>1, <1>2, <1>3, <1>4, <1>5

LEMMA FailSInv ==
    ASSUME SInv, NEW p \in Procs, Fail(p)
    PROVE  SInv'
<1>1. /\ UnLockKey(p) /\ UNCHANGED <<hay, records, rep>>
      /\ up' = [up EXCEPT ![p] = NoUpload]
  BY DEF Fail
<1>2. /\ pc[p] = "crit" /\ pc'[p] = "idle" /\ key[p] \in Keys
      /\ \A k \in Keys : handoff[k] => handoff'[k]
      /\ \A q \in Procs \ {p} : key'[q] = key[q] /\ pc'[q] = pc[q]
      /\ IInv'
  BY <1>1, UnLockKeyKeeps
<1>3. Typed' /\ up'[p] = NoUpload /\ \A q \in Procs \ {p} : up'[q] = up[q]
  BY <1>1 DEF SInv, Typed, Uploads, NoUpload
<1>4. UpOK(p)' /\ WriterOK(p)'
  BY <1>2, <1>3 DEF UpOK, WriterOK, Writing, NoUpload
<1>5. \A q \in Procs \ {p} : UpOK(q)' /\ WriterOK(q)'
  BY <1>1, <1>2, <1>3, OthersKept
<1>6. RecordInv' /\ DisjointUntilHandoff' /\ CopyInv'
  BY <1>1, <1>2, RecordsKept
<1>. QED BY <1>2, <1>3, <1>4, <1>5, <1>6 DEF SInv, UpState, WriterInv

LEMMA FinishSInv ==
    ASSUME SInv, NEW p \in Procs, Finish(p)
    PROVE  SInv'
<1>. DEFINE h == key[p]
            m == up[p].md5
            off == up[p].off
            new == [key |-> h, off |-> off, size |-> SizeOf[m] + 1, md5 |-> m]
<1>1. /\ UnLockKey(p) /\ UNCHANGED <<hay, rep>>
      /\ up' = [up EXCEPT ![p] = NoUpload]
      /\ records' = records \cup {new}
      /\ up[p].step = "copy" /\ up[p].done = SizeOf[m] /\ Writing(p)
  BY DEF Finish, Writing
<1>2. /\ pc[p] = "crit" /\ pc'[p] = "idle" /\ h \in Keys
      /\ \A k \in Keys : handoff[k] => handoff'[k]
      /\ \A q \in Procs \ {p} : key'[q] = key[q] /\ pc'[q] = pc[q]
      /\ IInv'
  BY <1>1, UnLockKeyKeeps
<1>3. m \in Contents /\ SizeOf[m] \in Nat /\ off \in Nat
  BY <1>1, SizeType DEF SInv, UpState, UpOK, Typed, Uploads
<1>4. new \in Recorded
  BY <1>2, <1>3 DEF Recorded
<1>5. Typed' /\ up'[p] = NoUpload /\ \A q \in Procs \ {p} : up'[q] = up[q]
  <2>1. up' \in [Procs -> Uploads]
    BY <1>1 DEF SInv, Typed, Uploads, NoUpload
  <2>. QED BY <1>1, <1>4, <2>1 DEF SInv, Typed
<1>6. ~handoff[h] => Written(hay[h], off, m, SizeOf[m]) /\ Before(h, off)
  BY <1>1 DEF SInv, WriterInv, WriterOK
<1>7. UpOK(p)' /\ WriterOK(p)'
  BY <1>2, <1>5 DEF UpOK, WriterOK, Writing, NoUpload
<1>8. ASSUME NEW q \in Procs \ {p} PROVE UpOK(q)' /\ WriterOK(q)'
  <2>1. UpOK(q) /\ WriterOK(q) /\ up'[q] = up[q] /\ pc'[q] = pc[q] /\ key'[q] = key[q]
    BY <1>2, <1>5, <1>8 DEF SInv, UpState, WriterInv
  <2>2. UpOK(q)'
    BY <1>1, <2>1 DEF UpOK, Writing
  <2>3. WriterOK(q)'
    <3>1. SUFFICES ASSUME Writing(q), ~handoff'[key[q]] PROVE WriterOK(q)'
      BY <2>1 DEF WriterOK, Writing
    <3>2. pc[q] = "crit" /\ key[q] \in Keys /\ ~handoff[key[q]]
      BY <1>2, <2>1, <3>1, CritHasKey DEF UpOK
    <3>3. key[q] # h
      BY <1>2, <1>8, <3>2 DEF SInv, IInv, OneMutexUntilHandoff, Holds
    <3>4. \A r \in records' : r.key = key[q] => r \in records
      BY <1>1, <3>3
    <3>. QED BY <1>1, <2>1, <3>1, <3>2, <3>4 DEF WriterOK, Writing, Before
  <2>. QED BY <2>2, <2>3
<1>9. RecordInv'
  <2>1. SUFFICES ASSUME NEW r \in records', ~handoff'[r.key]
                 PROVE  /\ r.size = SizeOf[r.md5] + 1
                        /\ Written(hay[r.key], r.off, r.md5, SizeOf[r.md5])
    BY <1>1 DEF RecordInv
  <2>2. CASE r \in records
    <3>1. ~handoff[r.key]
      BY <1>2, <2>1, <2>2 DEF SInv, Typed, Recorded
    <3>. QED BY <2>2, <3>1 DEF SInv, RecordInv
  <2>3. CASE r = new
    <3>1. ~handoff[h]
      BY <1>2, <2>1, <2>3
    <3>. QED BY <1>6, <2>3, <3>1
  <2>. QED BY <1>1, <2>2, <2>3
<1>10. DisjointUntilHandoff'
  <2>1. SUFFICES ASSUME NEW r \in records', NEW s \in records', r # s, r.key = s.key,
                        ~handoff'[r.key]
                 PROVE  r.off + r.size <= s.off \/ s.off + s.size <= r.off
    BY DEF DisjointUntilHandoff
  <2>2. ~handoff[r.key]
    BY <1>2, <1>5, <2>1 DEF Typed, Recorded
  <2>3. CASE r \in records /\ s \in records
    BY <2>1, <2>2, <2>3 DEF SInv, DisjointUntilHandoff
  <2>4. CASE r = new
    <3>1. s \in records /\ s.key = h /\ Before(h, off)
      BY <1>1, <1>6, <2>1, <2>2, <2>4
    <3>. QED BY <2>4, <3>1 DEF Before
  <2>5. CASE s = new
    <3>1. r \in records /\ r.key = h /\ Before(h, off)
      BY <1>1, <1>6, <2>1, <2>2, <2>5
    <3>. QED BY <2>5, <3>1 DEF Before
  <2>. QED BY <1>1, <2>3, <2>4, <2>5
<1>11. CopyInv'
  <2>1. SUFFICES ASSUME NEW k \in Keys, ~handoff'[k]
                 PROVE  /\ \A i \in 1 .. Len(rep[k]) : rep[k][i] # Hole =>
                             \E r \in records' : r.key = k /\ r.off < i /\ i <= r.off + r.size
                        /\ \A r \in records' :
                             r.key = k /\ r.off + 1 <= Len(rep[k]) /\ rep[k][r.off + 1] = Flag
                               => Written(rep[k], r.off, r.md5, SizeOf[r.md5])
    BY <1>1 DEF CopyInv
  <2>2. ~handoff[k]
    BY <1>2, <2>1
  <2>3. \A i \in 1 .. Len(rep[k]) : rep[k][i] # Hole =>
          \E r \in records : r.key = k /\ r.off < i /\ i <= r.off + r.size
    BY <2>2 DEF SInv, CopyInv
  \* The place of the new record is still a hole on the other node.
  <2>4. ASSUME h = k, off + 1 <= Len(rep[k]), rep[k][off + 1] = Flag PROVE FALSE
    <3>1. rep[k] \in Seq(Cell) /\ Flag # Hole
      BY DEF SInv, Typed, Flag, Hole
    <3>2. PICK r \in records : r.key = k /\ r.off < off + 1 /\ off + 1 <= r.off + r.size
      BY <1>3, <2>3, <2>4, <3>1
    <3>3. r.off + r.size <= off
      BY <1>6, <2>2, <2>4, <3>2 DEF Before
    <3>4. r.off \in Nat /\ r.size \in Nat
      BY DEF SInv, Typed, Recorded
    <3>. QED BY <1>3, <3>2, <3>3, <3>4
  <2>5. ASSUME NEW r \in records', r.key = k, r.off + 1 <= Len(rep[k]),
               rep[k][r.off + 1] = Flag
        PROVE  Written(rep[k], r.off, r.md5, SizeOf[r.md5])
    <3>1. r # new
      BY <2>4, <2>5
    <3>. QED BY <1>1, <2>2, <2>5, <3>1 DEF SInv, CopyInv
  <2>. QED BY <1>1, <2>3, <2>5
<1>. QED BY <1>2, <1>5, <1>7, <1>8, <1>9, <1>10, <1>11 DEF SInv, UpState, WriterInv

LEMMA Apart ==
    ASSUME NEW a \in Nat, NEW n \in Nat, NEW b \in Nat, NEW m \in Nat,
           a + 1 + n <= b \/ b + 1 + m <= a,
           NEW i \in a + 1 .. a + 1 + n
    PROVE  i <= b \/ b + 1 + m < i
OBVIOUS

LEMMA ReplicateSInv ==
    ASSUME SInv, NEW r \in records, Replicate(r)
    PROVE  SInv'
<1>. DEFINE h == r.key
            data == Serve(hay[h], r)
            n == r.size - 1
            t == WriteFileByOffSet(rep[h], r.off, <<Flag>> \o data)
<1>1. /\ UNCHANGED <<vars, hay, up, records>>
      /\ rep' = [rep EXCEPT ![h] = t]
      /\ data # NotFound
  BY DEF Replicate
<1>2. UNCHANGED <<pc, key, handoff>>
  BY <1>1 DEF vars
<1>3. /\ r \in Recorded /\ h \in Keys /\ hay[h] \in Seq(Cell) /\ rep[h] \in Seq(Cell)
      /\ r.off \in Nat /\ r.size \in Nat /\ n \in Nat /\ r.md5 \in Contents
      /\ SizeOf[r.md5] \in Nat
  BY SizeType DEF SInv, Typed, Recorded
<1>4. data \in Seq(Cell) /\ Len(data) = n
  BY <1>1, <1>3, ServeType
<1>. HIDE DEF data, n
<1>5. /\ t \in Seq(Cell)
      /\ r.off + 1 + n <= Len(t) /\ Len(rep[h]) <= Len(t)
      /\ t[r.off + 1] = Flag
      /\ \A i \in r.off + 2 .. r.off + 1 + n : t[i] = data[i - r.off - 1]
      /\ \A i \in 1 .. Len(t) : i <= r.off \/ r.off + 1 + n < i =>
           t[i] = IF i <= Len(rep[h]) THEN rep[h][i] ELSE Hole
  <2>1. CopyOf(t, rep[h], r.off, data, n)
    BY <1>3, <1>4, CopyWritten
  <2>. HIDE DEF t
  <2>. QED BY <2>1 DEF CopyOf
<1>. HIDE DEF t
<1>6. IInv'
  BY <1>1, KeptIInv DEF SInv
<1>7. rep' \in [Keys -> Seq(Cell)] /\ rep'[h] = t /\ \A k \in Keys \ {h} : rep'[k] = rep[k]
  BY <1>1, <1>3, <1>5 DEF SInv, Typed
<1>8. UpState' /\ WriterInv'
  BY <1>1, <1>2, OthersKept DEF UpState, WriterInv
<1>9. RecordInv' /\ DisjointUntilHandoff'
  BY <1>1, <1>2 DEF SInv, RecordInv, DisjointUntilHandoff
<1>10. CopyInv'
  <2>1. SUFFICES ASSUME NEW k \in Keys, ~handoff[k]
                 PROVE  /\ \A i \in 1 .. Len(rep'[k]) : rep'[k][i] # Hole =>
                             \E s \in records : s.key = k /\ s.off < i /\ i <= s.off + s.size
                        /\ \A s \in records :
                             s.key = k /\ s.off + 1 <= Len(rep'[k]) /\ rep'[k][s.off + 1] = Flag
                               => Written(rep'[k], s.off, s.md5, SizeOf[s.md5])
    BY <1>1, <1>2 DEF CopyInv
  <2>2. /\ \A i \in 1 .. Len(rep[k]) : rep[k][i] # Hole =>
             \E s \in records : s.key = k /\ s.off < i /\ i <= s.off + s.size
        /\ \A s \in records :
             s.key = k /\ s.off + 1 <= Len(rep[k]) /\ rep[k][s.off + 1] = Flag
               => Written(rep[k], s.off, s.md5, SizeOf[s.md5])
    BY <2>1 DEF SInv, CopyInv
  <2>3. CASE k # h
    BY <1>7, <2>2, <2>3
  <2>4. CASE k = h
    <3>1. /\ r.size = SizeOf[r.md5] + 1 /\ n = SizeOf[r.md5]
          /\ Written(hay[h], r.off, r.md5, SizeOf[r.md5])
      BY <1>3, <2>1, <2>4 DEF SInv, RecordInv, n
    <3>2. data = Cells(r.md5)
      BY <1>3, <3>1, ServeWritten DEF data
    <3>3. Written(t, r.off, r.md5, SizeOf[r.md5])
      <4>1. ASSUME NEW i \in r.off + 2 .. r.off + 1 + n
            PROVE  t[i] = <<r.md5, i - r.off - 1>>
        <5>1. i - r.off - 1 \in 1 .. SizeOf[r.md5]
          BY <1>3, <3>1
        <5>. QED BY <1>5, <3>2, <5>1 DEF Cells
      <4>. QED BY <1>5, <3>1, <4>1 DEF Written
    <3>4. \A i \in 1 .. Len(t) : t[i] # Hole =>
            \E s \in records : s.key = k /\ s.off < i /\ i <= s.off + s.size
      <4>1. SUFFICES ASSUME NEW i \in 1 .. Len(t), t[i] # Hole
                     PROVE  \E s \in records : s.key = k /\ s.off < i /\ i <= s.off + s.size
        OBVIOUS
      <4>2. CASE r.off < i /\ i <= r.off + r.size
        BY <2>4, <4>2
      <4>3. CASE ~(r.off < i /\ i <= r.off + r.size)
        <5>1. i <= r.off \/ r.off + 1 + n < i
          BY <1>3, <3>1, <4>3
        <5>2. i <= Len(rep[h]) /\ rep[h][i] # Hole
          BY <1>5, <4>1, <5>1
        <5>. QED BY <1>3, <2>2, <2>4, <5>2
      <4>. QED BY <4>2, <4>3
    <3>5. ASSUME NEW s \in records, s.key = k, s.off + 1 <= Len(t), t[s.off + 1] = Flag
          PROVE  Written(t, s.off, s.md5, SizeOf[s.md5])
      <4>1. CASE s = r
        BY <3>3, <4>1
      <4>2. CASE s # r
        <5>1. /\ s.off \in Nat /\ s.md5 \in Contents /\ SizeOf[s.md5] \in Nat
              /\ s.size = SizeOf[s.md5] + 1
          BY <2>1, <3>5, SizeType DEF SInv, Typed, Recorded, RecordInv
        \* The cells of s are not those of r.
        <5>2. s.off + s.size <= r.off \/ r.off + r.size <= s.off
          BY <2>1, <2>4, <3>5, <4>2 DEF SInv, DisjointUntilHandoff
        <5>3. ASSUME NEW i \in s.off + 1 .. s.off + 1 + SizeOf[s.md5]
              PROVE  i <= r.off \/ r.off + 1 + n < i
          <6>1. s.off + 1 + SizeOf[s.md5] <= r.off \/ r.off + 1 + n <= s.off
            <7>1. s.off + s.size = s.off + 1 + SizeOf[s.md5]
              BY <5>1
            <7>2. r.off + r.size = r.off + 1 + n
              BY <1>3, <3>1
            <7>. QED BY <5>2, <7>1, <7>2
          <6>. QED BY <1>3, <5>1, <6>1, Apart
        <5>4. s.off + 1 <= Len(rep[h]) /\ rep[h][s.off + 1] = Flag
          <6>1. s.off + 1 \in 1 .. Len(t) /\ Flag # Hole
            BY <3>5, <5>1, <1>5 DEF Flag, Hole
          <6>2. s.off + 1 <= r.off \/ r.off + 1 + n < s.off + 1
            BY <5>1, <5>3
          <6>. QED BY <1>5, <3>5, <6>1, <6>2
        <5>5. Written(rep[h], s.off, s.md5, SizeOf[s.md5])
          BY <2>2, <2>4, <3>5, <5>4
        <5>6. s.off + 1 + SizeOf[s.md5] <= Len(rep[h])
          BY <5>5 DEF Written
        <5>7. s.off + 1 + SizeOf[s.md5] <= Len(t)
          BY <1>3, <1>5, <5>1, <5>6
        <5>8. ASSUME NEW i \in s.off + 2 .. s.off + 1 + SizeOf[s.md5]
              PROVE  t[i] = <<s.md5, i - s.off - 1>>
          <6>0. Len(t) \in Nat /\ Len(rep[h]) \in Nat
            BY <1>3, <1>5
          <6>1. /\ i \in 1 .. Len(t) /\ i <= Len(rep[h])
                /\ i \in s.off + 1 .. s.off + 1 + SizeOf[s.md5]
            BY <5>1, <5>6, <5>7, <6>0
          <6>2. t[i] = rep[h][i]
            BY <1>5, <5>3, <6>1
          <6>. QED BY <5>5, <6>2 DEF Written
        <5>. QED BY <3>5, <5>7, <5>8 DEF Written
      <4>. QED BY <4>1, <4>2
    <3>. QED BY <1>7, <2>4, <3>4, <3>5
  <2>. QED BY <2>3, <2>4
<1>. QED BY <1>1, <1>6, <1>7, <1>8, <1>9, <1>10 DEF SInv, Typed

LEMMA CrashSInv ==
    ASSUME SInv, Crash
    PROVE  SInv'
<1>1. IInv'
  BY NoMutexAssumption, NoKeyAssumption
     DEF Crash, SInv, IInv, TypeOK, FlagIsSlot, CallState, NoFatalUnlock,
         OneMutexUntilHandoff, Holds
<1>2. Typed'
  BY DEF Crash, SInv, Typed, Uploads, NoUpload
<1>3. UpState' /\ WriterInv'
  BY DEF Crash, UpState, UpOK, WriterInv, WriterOK, Writing, NoUpload
<1>4. RecordInv' /\ DisjointUntilHandoff' /\ CopyInv'
  BY RecordsKept DEF Crash
<1>. QED BY <1>1, <1>2, <1>3, <1>4 DEF SInv

THEOREM SmallInvariance == SmallSpec => []SInv
<1>1. SInv /\ [SmallNext]_allVars => SInv'
  <2>1. SUFFICES ASSUME SInv, [SmallNext]_allVars PROVE SInv'
    OBVIOUS
  <2>2. ASSUME NEW p \in Procs, Start(p) \/ Enter(p) \/ Work(p) \/ Fail(p) PROVE SInv'
    BY <2>1, <2>2, StartSInv, EnterSInv, OpenSInv, MarkSInv, SeekEndSInv, CopyChunkSInv,
       FinishSInv, FailSInv DEF Work
  <2>3. ASSUME NEW r \in records, Replicate(r) PROVE SInv'
    BY <2>1, <2>3, ReplicateSInv
  <2>4. CASE Crash
    BY <2>1, <2>4, CrashSInv
  <2>5. CASE UNCHANGED allVars
    <3>1. UNCHANGED <<vars, pc, key, handoff, hay, up, records, rep>>
      BY <2>5 DEF allVars, smallVars, vars
    <3>2. IInv' /\ Typed'
      BY <2>1, <3>1, KeptIInv DEF SInv, Typed
    <3>3. UpState' /\ WriterInv'
      BY <2>1, <3>1, OthersKept DEF UpState, WriterInv
    <3>4. RecordInv' /\ DisjointUntilHandoff' /\ CopyInv'
      BY <2>1, <3>1, RecordsKept
    <3>. QED BY <3>2, <3>3, <3>4 DEF SInv
  <2>. QED BY <2>1, <2>2, <2>3, <2>4, <2>5 DEF SmallNext
<1>. QED BY InitSInv, <1>1, PTL DEF SmallSpec

\* Until a handoff of its haystack, a finished upload reads back what was
\* uploaded, whatever failed and crashed before, during and after it.
THEOREM ReadsBack == SmallSpec => []ReadsBackUntilHandoff
<1>1. SInv => ReadsBackUntilHandoff
  <2>1. SUFFICES ASSUME SInv, NEW r \in records, ~handoff[r.key]
                 PROVE  Serve(hay[r.key], r) = Cells(r.md5)
    BY DEF ReadsBackUntilHandoff, Reads
  <2>2. r \in Recorded /\ hay[r.key] \in Seq(Cell) /\ SizeOf[r.md5] \in Nat
    BY <2>1, SizeType DEF SInv, Typed, Recorded
  <2>3. r.size = SizeOf[r.md5] + 1 /\ Written(hay[r.key], r.off, r.md5, SizeOf[r.md5])
    BY <2>1 DEF SInv, RecordInv
  <2>. QED BY <2>2, <2>3, ServeWritten
<1>. QED BY SmallInvariance, <1>1, PTL

\* Until then, no two records of a haystack share a cell.
THEOREM Disjoint == SmallSpec => []DisjointUntilHandoff
BY SmallInvariance, PTL DEF SInv

\* Until then, the other node serves the content or nothing, in whatever order
\* the records reach it.
THEOREM CopyServesRight == SmallSpec => []CopyNeverWrong
<1>1. SInv => CopyNeverWrong
  <2>1. SUFFICES ASSUME SInv, NEW r \in records, ~handoff[r.key],
                        Serve(rep[r.key], r) # NotFound
                 PROVE  Serve(rep[r.key], r) = Cells(r.md5)
    BY DEF CopyNeverWrong
  <2>2. /\ r \in Recorded /\ rep[r.key] \in Seq(Cell) /\ SizeOf[r.md5] \in Nat
        /\ r.key \in Keys /\ r.off \in Nat
    BY <2>1, SizeType DEF SInv, Typed, Recorded
  <2>3. r.size = SizeOf[r.md5] + 1
    BY <2>1 DEF SInv, RecordInv
  <2>4. ~(Len(rep[r.key]) < r.off + r.size \/ rep[r.key][r.off + 1] # Flag)
    BY <2>1 DEF Serve
  <2>5. r.off + 1 <= Len(rep[r.key]) /\ rep[r.key][r.off + 1] = Flag
    BY <2>2, <2>3, <2>4
  <2>6. Written(rep[r.key], r.off, r.md5, SizeOf[r.md5])
    BY <2>1, <2>2, <2>5 DEF SInv, CopyInv
  <2>. QED BY <2>2, <2>3, <2>6, ServeWritten
<1>. QED BY SmallInvariance, <1>1, PTL

-----------------------------------------------------------------------------
(* Room: with what the workers under way still write, a haystack stays     *)
(* within the bound of the model, also after a handoff.                    *)

\* The cells that a worker has written.
WrittenBy(p) ==
    IF up[p].step = "seek" THEN 1 ELSE IF up[p].step = "copy" THEN up[p].done + 1 ELSE 0

Callers(k) == {q \in Procs : key[q] = k}

\* What the callers of k may still write, one element for each cell.
ToCome(k) == {c \in Callers(k) \X (1 .. MaxSize + 1) : c[2] > WrittenBy(c[1])}

RoomLeft(k) == IsFiniteSet(Callers(k)) /\ Len(hay[k]) + Cardinality(ToCome(k)) <= MaxCells

RoomInv ==
    /\ \A k \in Keys : RoomLeft(k) /\ Len(rep[k]) <= Len(hay[k])
    /\ \A p \in Procs : up[p].step = "copy" => up[p].done <= SizeOf[up[p].md5]
    /\ repKnown \subseteq Contents

\* What is to come is finite, and no more than every caller's largest upload.
LEMMA ToComeFinite ==
    ASSUME NEW k, IsFiniteSet(Callers(k))
    PROVE  /\ IsFiniteSet(ToCome(k)) /\ Cardinality(ToCome(k)) \in Nat
           /\ Cardinality(Callers(k)) \in Nat
           /\ Cardinality(ToCome(k)) <= Cardinality(Callers(k)) * (MaxSize + 1)
<1>1. MaxSize \in Nat
  BY SizeAssumption
<1>2. IsFiniteSet(1 .. MaxSize + 1) /\ Cardinality(1 .. MaxSize + 1) = MaxSize + 1
  BY <1>1, FS_Interval
<1>3. /\ IsFiniteSet(Callers(k) \X (1 .. MaxSize + 1))
      /\ Cardinality(Callers(k) \X (1 .. MaxSize + 1)) = Cardinality(Callers(k)) * (MaxSize + 1)
  BY <1>2, FS_Product
<1>4. ToCome(k) \in SUBSET (Callers(k) \X (1 .. MaxSize + 1))
  BY DEF ToCome
<1>5. IsFiniteSet(ToCome(k)) /\ Cardinality(ToCome(k)) <= Cardinality(Callers(k) \X (1 .. MaxSize + 1))
  BY <1>3, <1>4, FS_Subset
<1>. QED BY <1>3, <1>5, FS_CardinalityType

\* Where nothing is written and nothing more is to come, there is room.
LEMMA RoomStays ==
    ASSUME NEW k \in Keys, RoomLeft(k), Len(hay[k]) \in Nat, hay'[k] = hay[k],
           Callers(k)' \subseteq Callers(k), ToCome(k)' \subseteq ToCome(k)
    PROVE  RoomLeft(k)'
<1>1. IsFiniteSet(Callers(k)')
  BY FS_Subset DEF RoomLeft
<1>2. IsFiniteSet(ToCome(k)) /\ Cardinality(ToCome(k)) \in Nat
  BY ToComeFinite DEF RoomLeft
<1>3. /\ IsFiniteSet(ToCome(k)')
      /\ Cardinality(ToCome(k)') <= Cardinality(ToCome(k))
  BY <1>2, FS_Subset
<1>4. Cardinality(ToCome(k)') \in Nat
  BY <1>3, FS_CardinalityType
<1>. QED BY <1>1, <1>2, <1>3, <1>4, SizeAssumption DEF RoomLeft

\* A step that begins no call and writes nothing leaves the room there is.
LEMMA RoomRests ==
    ASSUME SInv, RoomInv, UNCHANGED hay,
           \A q \in Procs : \/ key'[q] = NoKey
                            \/ key'[q] = key[q] /\ WrittenBy(q)' = WrittenBy(q)
    PROVE  \A k \in Keys : RoomLeft(k)'
<1>1. SUFFICES ASSUME NEW k \in Keys PROVE RoomLeft(k)'
  OBVIOUS
<1>2. RoomLeft(k) /\ Len(hay[k]) \in Nat
  BY DEF RoomInv, SInv, Typed
<1>3. Callers(k)' \subseteq Callers(k)
  BY NoKeyAssumption DEF Callers
<1>4. ToCome(k)' \subseteq ToCome(k)
  <2>1. SUFFICES ASSUME NEW c \in ToCome(k)' PROVE c \in ToCome(k)
    OBVIOUS
  <2>2. c \in Callers(k)' \X (1 .. MaxSize + 1) /\ c[2] > WrittenBy(c[1])'
    BY <2>1 DEF ToCome
  <2>3. c[1] \in Procs /\ key'[c[1]] # NoKey
    BY <2>2, NoKeyAssumption DEF Callers
  <2>. QED BY <1>3, <2>2, <2>3 DEF ToCome
<1>. QED BY <1>2, <1>3, <1>4, RoomStays

\* A worker takes room for a whole upload when it begins: others leave enough.
LEMMA StartRoom ==
    ASSUME SInv, RoomInv, NEW p \in Procs, Start(p)
    PROVE  RoomInv'
<1>1. PICK k \in Keys, m \in Contents :
        /\ Room(k)
        /\ LockNew(p, k) \/ LockFound(p, k)
        /\ up' = [up EXCEPT ![p] = [NoUpload EXCEPT !.step = "open", !.md5 = m]]
        /\ UNCHANGED <<hay, records, rep, repKnown>>
  BY DEF Start
<1>2. /\ pc[p] = "idle" /\ key'[p] = k
      /\ \A q \in Procs \ {p} : key'[q] = key[q] /\ up'[q] = up[q]
      /\ up'[p].step = "open"
  BY <1>1 DEF LockNew, LockFound, SInv, IInv, TypeOK, Typed, NoUpload
<1>3. key[p] = NoKey
  BY <1>2 DEF SInv, IInv, CallState
<1>4. Len(hay[k]) \in Nat /\ RoomLeft(k)
  BY DEF RoomInv, SInv, Typed
<1>5. Callers(k)' = Callers(k) \cup {p} /\ p \notin Callers(k)
  BY <1>2, <1>3, NoKeyAssumption DEF Callers
<1>6. IsFiniteSet(Callers(k)') /\ Cardinality(Callers(k)') = Cardinality(Callers(k)) + 1
  BY <1>4, <1>5, FS_AddElement DEF RoomLeft
<1>7. RoomLeft(k)'
  <2>1. /\ Cardinality(ToCome(k)') \in Nat
        /\ Cardinality(ToCome(k)') <= (Cardinality(Callers(k)) + 1) * (MaxSize + 1)
    <3>1. IsFiniteSet(Callers(k))' => (/\ IsFiniteSet(ToCome(k)) /\ Cardinality(ToCome(k)) \in Nat
           /\ Cardinality(Callers(k)) \in Nat
           /\ Cardinality(ToCome(k)) <= Cardinality(Callers(k)) * (MaxSize + 1))'
      BY ToComeFinite, PTL
    <3>. QED BY <1>6, <3>1
  <2>2. Len(hay[k]) + (Cardinality(Callers(k)) + 1) * (MaxSize + 1) <= MaxCells
    BY <1>1 DEF Room, Callers
  <2>3. (Cardinality(Callers(k)) + 1) * (MaxSize + 1) \in Nat
    <3>1. Cardinality(Callers(k)) + 1 \in Nat /\ MaxSize + 1 \in Nat
      BY <1>4, FS_CardinalityType, SizeAssumption DEF RoomLeft
    <3>. HIDE DEF Callers
    <3>. QED BY <3>1
  <2>. QED BY <1>1, <1>4, <1>6, <2>1, <2>2, <2>3, SizeAssumption DEF RoomLeft
<1>8. ASSUME NEW j \in Keys \ {k} PROVE RoomLeft(j)'
  <2>1. Callers(j)' \subseteq Callers(j)
    BY <1>2, <1>8 DEF Callers
  <2>2. ToCome(j)' \subseteq ToCome(j)
    <3>1. \A q \in Callers(j)' : q # p
      BY <1>2, <1>8 DEF Callers
    <3>. QED BY <1>2, <2>1, <3>1 DEF ToCome, WrittenBy, Callers
  <2>3. RoomLeft(j) /\ Len(hay[j]) \in Nat /\ hay'[j] = hay[j]
    BY <1>1 DEF RoomInv, SInv, Typed
  <2>. QED BY <2>1, <2>2, <2>3, RoomStays
<1>. QED BY <1>1, <1>2, <1>7, <1>8 DEF RoomInv

\* A cell written was one to come.
LEMMA WriteRoom ==
    ASSUME SInv, RoomInv, NEW p \in Procs, NEW c \in Cell, Writing(p),
           WrittenBy(p) \in 0 .. MaxSize, UNCHANGED key,
           hay' = [hay EXCEPT ![key[p]] = WriteCell(@, up[p].pos, c)],
           WrittenBy(p)' = WrittenBy(p) + 1,
           \A q \in Procs \ {p} : up'[q] = up[q]
    PROVE  \A k \in Keys : RoomLeft(k)' /\ Len(hay'[k]) >= Len(hay[k])
<1>. DEFINE h == key[p]
<1>1. /\ h \in Keys /\ hay[h] \in Seq(Cell) /\ up[p].pos \in Nat
      /\ up[p].pos <= Len(hay[h])
  BY CritHasKey DEF SInv, UpState, UpOK, Typed, Uploads
<1>2. hay'[h] = WriteCell(hay[h], up[p].pos, c) /\ \A k \in Keys \ {h} : hay'[k] = hay[k]
  BY <1>1 DEF SInv, Typed
<1>3. /\ Len(hay'[h]) \in Nat /\ Len(hay'[h]) >= Len(hay[h])
      /\ Len(hay'[h]) <= Len(hay[h]) + 1
  <2>1. CASE up[p].pos = Len(hay[h])
    BY <1>1, <1>2, <2>1 DEF WriteCell
  <2>2. CASE up[p].pos # Len(hay[h])
    BY <1>1, <1>2, <2>2 DEF WriteCell
  <2>. QED BY <2>1, <2>2
<1>4. \A k \in Keys : Callers(k)' = Callers(k)
  BY DEF Callers
<1>5. \A q \in Procs \ {p} : WrittenBy(q)' = WrittenBy(q)
  BY DEF WrittenBy
<1>6. RoomLeft(h)'
  <2>1. <<p, WrittenBy(p) + 1>> \in ToCome(h)
    BY <1>1, SizeAssumption DEF ToCome, Callers
  <2>2. ToCome(h)' = ToCome(h) \ {<<p, WrittenBy(p) + 1>>}
    <3>1. ASSUME NEW d \in Callers(h) \X (1 .. MaxSize + 1)
          PROVE  d[2] > WrittenBy(d[1])' <=>
                   d[2] > WrittenBy(d[1]) /\ d # <<p, WrittenBy(p) + 1>>
      <4>1. d = <<d[1], d[2]>> /\ d[1] \in Procs /\ d[2] \in Nat
        BY <3>1, SizeAssumption DEF Callers
      <4>2. CASE d[1] = p
        BY <4>1, <4>2
      <4>3. CASE d[1] # p
        BY <1>5, <4>1, <4>3
      <4>. QED BY <4>2, <4>3
    <3>. QED BY <1>1, <1>4, <3>1 DEF ToCome
  <2>3. RoomLeft(h)
    BY <1>1 DEF RoomInv
  <2>4. IsFiniteSet(ToCome(h)) /\ Cardinality(ToCome(h)) \in Nat
    BY <2>3, ToComeFinite DEF RoomLeft
  <2>5. Cardinality(ToCome(h)') = Cardinality(ToCome(h)) - 1
    <3>1. ASSUME NEW S, NEW x \in S, IsFiniteSet(S)
          PROVE  Cardinality(S \ {x}) = Cardinality(S) - 1
      BY <3>1, FS_RemoveElement
    <3>. HIDE DEF h
    <3>. QED BY <2>1, <2>2, <2>4, <3>1
  <2>. QED BY <1>1, <1>3, <1>4, <2>3, <2>4, <2>5, SizeAssumption DEF RoomLeft
<1>7. ASSUME NEW k \in Keys \ {h} PROVE RoomLeft(k)'
  <2>1. ToCome(k)' \subseteq ToCome(k)
    <3>1. \A q \in Callers(k) : q \in Procs \ {p}
      BY <1>7 DEF Callers
    <3>. QED BY <1>4, <1>5, <3>1 DEF ToCome
  <2>2. RoomLeft(k) /\ Len(hay[k]) \in Nat
    BY DEF RoomInv, SInv, Typed
  <2>. QED BY <1>2, <1>4, <2>1, <2>2, RoomStays
<1>8. \A k \in Keys : Len(hay[k]) \in Nat
  BY DEF SInv, Typed
<1>. QED BY <1>2, <1>3, <1>6, <1>7, <1>8

\* The flag is the first cell to come.
LEMMA MarkRoom ==
    ASSUME SInv, RoomInv, NEW p \in Procs, Mark(p)
    PROVE  RoomInv'
<1>1. /\ up[p].step = "mark" /\ up'[p].step = "seek"
      /\ \A q \in Procs \ {p} : up'[q] = up[q]
      /\ UNCHANGED <<key, rep, repKnown>>
      /\ hay' = [hay EXCEPT ![key[p]] = WriteCell(@, up[p].pos, Flag)]
  BY DEF Mark, vars, SInv, Typed, Uploads
<1>2. WrittenBy(p) = 0 /\ WrittenBy(p)' = 1 /\ Writing(p) /\ Flag \in Cell
  BY <1>1 DEF WrittenBy, Writing, Flag, Cell
<1>3. \A k \in Keys : RoomLeft(k)' /\ Len(hay'[k]) >= Len(hay[k])
  <2>1. WrittenBy(p) \in 0 .. MaxSize /\ WrittenBy(p)' = WrittenBy(p) + 1 /\ UNCHANGED key
    BY <1>1, <1>2, SizeAssumption
  <2>. QED BY <1>1, <1>2, <2>1, WriteRoom
<1>4. \A k \in Keys : /\ Len(hay[k]) \in Nat /\ Len(rep[k]) \in Nat
                      /\ Len(hay'[k]) \in Nat
  BY MarkSInv DEF SInv, Typed
<1>5. \A k \in Keys : Len(rep'[k]) <= Len(hay'[k])
  BY <1>1, <1>3, <1>4 DEF RoomInv
<1>. QED BY <1>1, <1>3, <1>5 DEF RoomInv

\* A chunk is the next one.
LEMMA CopyChunkRoom ==
    ASSUME SInv, RoomInv, NEW p \in Procs, CopyChunk(p)
    PROVE  RoomInv'
<1>. DEFINE c == <<up[p].md5, up[p].done + 1>>
<1>0. /\ up[p].step = "copy" /\ up[p].done \in Nat /\ up[p].md5 \in Contents
      /\ SizeOf[up[p].md5] \in 0 .. MaxSize /\ up[p].done < SizeOf[up[p].md5]
  BY SizeAssumption DEF CopyChunk, SInv, UpState, UpOK, Typed, Uploads
<1>1. /\ up'[p].step = "copy" /\ up'[p].done = up[p].done + 1 /\ up'[p].md5 = up[p].md5
      /\ \A q \in Procs \ {p} : up'[q] = up[q]
      /\ UNCHANGED <<key, rep, repKnown>>
      /\ hay' = [hay EXCEPT ![key[p]] = WriteCell(@, up[p].pos, c)]
  BY <1>0 DEF CopyChunk, vars, SInv, Typed, Uploads
<1>2. /\ WrittenBy(p) = up[p].done + 1 /\ WrittenBy(p)' = WrittenBy(p) + 1
      /\ Writing(p) /\ c \in Cell
  BY <1>0, <1>1 DEF WrittenBy, Writing, Cell
<1>3. WrittenBy(p) \in 0 .. MaxSize
  BY <1>0, <1>2, SizeAssumption
<1>. HIDE DEF c
<1>4. \A k \in Keys : RoomLeft(k)' /\ Len(hay'[k]) >= Len(hay[k])
  BY <1>1, <1>2, <1>3, WriteRoom
<1>5. \A k \in Keys : /\ Len(hay[k]) \in Nat /\ Len(rep[k]) \in Nat
                      /\ Len(hay'[k]) \in Nat
  BY CopyChunkSInv DEF SInv, Typed
<1>6. \A k \in Keys : Len(rep'[k]) <= Len(hay'[k])
  BY <1>1, <1>4, <1>5 DEF RoomInv
<1>7. up'[p].done <= SizeOf[up'[p].md5]
  BY <1>0, <1>1
<1>. QED BY <1>1, <1>4, <1>6, <1>7 DEF RoomInv

\* A record is copied only when all of its range is in the haystack.
LEMMA ReplicateRoom ==
    ASSUME SInv, RoomInv, NEW r \in records, Replicate(r)
    PROVE  RoomInv'
<1>. DEFINE h == r.key
            data == Serve(hay[h], r)
            t == WriteFileByOffSet(rep[h], r.off, <<Flag>> \o data)
<1>1. /\ UNCHANGED <<vars, hay, up, records>>
      /\ rep' = [rep EXCEPT ![h] = t] /\ repKnown' = repKnown \cup {r.md5}
      /\ data # NotFound
  BY DEF Replicate
<1>2. /\ r \in Recorded /\ h \in Keys /\ hay[h] \in Seq(Cell) /\ rep[h] \in Seq(Cell)
      /\ r.off \in Nat /\ r.size \in Nat \ {0} /\ r.md5 \in Contents
  BY DEF SInv, Typed, Recorded
<1>3. data \in Seq(Cell) /\ Len(data) = r.size - 1
  BY <1>1, <1>2, ServeType
<1>4. r.off + r.size <= Len(hay[h])
  BY <1>1, <1>2 DEF Serve
<1>. HIDE DEF data
<1>5. Flag \in Cell
  BY DEF Flag, Cell
<1>6. Len(<<Flag>> \o data) = r.size
  BY <1>2, <1>3, <1>5
<1>7. Len(t) <= Len(hay[h])
  <2>1. Len(rep[h]) <= Len(hay[h])
    BY <1>2 DEF RoomInv
  <2>2. Len(rep[h]) \in Nat /\ Len(hay[h]) \in Nat
    BY <1>2
  <2>3. Len(t) = IF r.off + r.size > Len(rep[h]) THEN r.off + r.size ELSE Len(rep[h])
    BY <1>2, <1>6, <2>2 DEF WriteFileByOffSet
  <2>. QED BY <1>2, <1>4, <2>1, <2>2, <2>3
<1>. HIDE DEF t
<1>8. \A k \in Keys : Len(rep'[k]) <= Len(hay[k])
  BY <1>1, <1>7 DEF RoomInv, SInv, Typed
<1>9. \A k \in Keys : RoomLeft(k)'
  BY <1>1, RoomRests DEF vars, WrittenBy
<1>. QED BY <1>1, <1>2, <1>8, <1>9 DEF RoomInv

\* The steps that write no cell and copy none.
LEMMA RestRoom ==
    ASSUME SInv, RoomInv, NEW p \in Procs,
           Enter(p) \/ Open(p) \/ SeekEnd(p) \/ Finish(p) \/ Fail(p)
    PROVE  RoomInv'
<1>1. /\ UNCHANGED <<hay, rep, repKnown>>
      /\ \A q \in Procs \ {p} : key'[q] = key[q] /\ up'[q] = up[q]
  <2>1. CASE Enter(p)
    BY <2>1 DEF Enter, Acquire, smallVars
  <2>2. CASE Open(p) \/ SeekEnd(p)
    BY <2>2 DEF Open, SeekEnd, vars, SInv, Typed
  <2>3. CASE Finish(p) \/ Fail(p)
    BY <2>3, UnLockKeyKeeps DEF Finish, Fail, SInv, Typed
  <2>. QED BY <2>1, <2>2, <2>3
<1>2. /\ \/ key'[p] = NoKey
         \/ key'[p] = key[p] /\ WrittenBy(p)' = WrittenBy(p)
      /\ up'[p].step = "copy" => up'[p].done <= SizeOf[up'[p].md5]
  <2>1. CASE Enter(p)
    BY <2>1 DEF Enter, Acquire, smallVars, WrittenBy, RoomInv
  <2>2. CASE Open(p)
    BY <2>2 DEF Open, vars, SInv, Typed, Uploads, WrittenBy
  <2>3. CASE SeekEnd(p)
    <3>1. /\ up[p].step = "seek" /\ up[p].done = 0 /\ up[p].md5 \in Contents
      BY <2>3 DEF SeekEnd, SInv, UpState, UpOK
    <3>2. /\ up'[p].step = "copy" /\ up'[p].done = 0 /\ up'[p].md5 = up[p].md5
          /\ key' = key
      BY <2>3, <3>1 DEF SeekEnd, vars, SInv, Typed, Uploads
    <3>3. SizeOf[up[p].md5] >= 0
      BY <3>1, SizeAssumption
    <3>. QED BY <3>1, <3>2, <3>3 DEF WrittenBy
  <2>4. CASE Finish(p) \/ Fail(p)
    <3>1. UnLockKey(p) /\ up' = [up EXCEPT ![p] = NoUpload]
      BY <2>4 DEF Finish, Fail
    <3>2. key'[p] = NoKey
      BY <3>1 DEF UnLockKey, SInv, IInv, TypeOK
    <3>3. up'[p] = NoUpload
      BY <3>1 DEF SInv, Typed
    <3>. QED BY <3>2, <3>3 DEF NoUpload
  <2>. QED BY <2>1, <2>2, <2>3, <2>4
<1>3. \A k \in Keys : RoomLeft(k)'
  <2>1. \A q \in Procs : \/ key'[q] = NoKey
                         \/ key'[q] = key[q] /\ WrittenBy(q)' = WrittenBy(q)
    BY <1>1, <1>2 DEF WrittenBy
  <2>. QED BY <1>1, <2>1, RoomRests
<1>. QED BY <1>1, <1>2, <1>3 DEF RoomInv

\* Nobody has anything to write after a crash.
LEMMA CrashRoom ==
    ASSUME SInv, RoomInv, Crash
    PROVE  RoomInv'
<1>1. \A k \in Keys : RoomLeft(k)'
  BY RoomRests DEF Crash
<1>2. \A p \in Procs : up'[p].step = "none"
  BY DEF Crash, NoUpload
<1>. QED BY <1>1, <1>2 DEF Crash, RoomInv

\* An empty haystack has all the room.
LEMMA InitRoom == SmallInit => RoomInv
<1>. SUFFICES ASSUME SmallInit PROVE RoomInv
  OBVIOUS
<1>2. \A k \in Keys : Len(hay[k]) = 0 /\ Len(rep[k]) = 0
  BY DEF SmallInit
<1>3. ASSUME NEW k \in Keys PROVE Callers(k) = {} /\ ToCome(k) = {}
  <2>1. \A q \in Procs : key[q] = NoKey
    BY DEF SmallInit, Init
  <2>2. Callers(k) = {}
    BY <2>1, NoKeyAssumption DEF Callers
  <2>3. ToCome(k) \subseteq {} \X (1 .. MaxSize + 1)
    BY <2>2 DEF ToCome
  <2>4. \A c \in {} \X (1 .. MaxSize + 1) : FALSE
    OBVIOUS
  <2>5. ToCome(k) = {}
    BY <2>3, <2>4
  <2>. QED BY <2>2, <2>5
<1>4. IsFiniteSet({}) /\ Cardinality({}) = 0
  BY FS_EmptySet
<1>5. ASSUME NEW k \in Keys PROVE RoomLeft(k)
  <2>1. Callers(k) = {} /\ ToCome(k) = {} /\ Len(hay[k]) = 0
    BY <1>2, <1>3
  <2>2. IsFiniteSet(Callers(k)) /\ Cardinality(ToCome(k)) = 0
    BY <1>4, <2>1
  <2>. QED BY <2>1, <2>2, SizeAssumption DEF RoomLeft
<1>. QED BY <1>2, <1>5 DEF RoomInv, SmallInit, NoUpload

\* The room, with the invariant of the haystacks.
THEOREM RoomInvariance == SmallSpec => []RoomInv
<1>1. SInv /\ RoomInv /\ [SmallNext]_allVars => RoomInv'
  <2>1. SUFFICES ASSUME SInv, RoomInv, [SmallNext]_allVars PROVE RoomInv'
    OBVIOUS
  <2>2. ASSUME NEW p \in Procs, Start(p) \/ Enter(p) \/ Work(p) \/ Fail(p) PROVE RoomInv'
    BY <2>1, <2>2, StartRoom, MarkRoom, CopyChunkRoom, RestRoom DEF Work
  <2>3. ASSUME NEW r \in records, Replicate(r) PROVE RoomInv'
    BY <2>1, <2>3, ReplicateRoom
  <2>4. CASE Crash
    BY <2>1, <2>4, CrashRoom
  <2>5. CASE UNCHANGED allVars
    <3>1. UNCHANGED <<key, hay, up, rep, repKnown>>
      BY <2>5 DEF allVars, smallVars, vars
    <3>2. \A k \in Keys : RoomLeft(k)'
      BY <2>1, <3>1, RoomRests DEF WrittenBy
    <3>. QED BY <2>1, <3>1, <3>2 DEF RoomInv
  <2>. QED BY <2>1, <2>2, <2>3, <2>4, <2>5 DEF SmallNext
<1>. QED BY InitRoom, SmallInvariance, <1>1, PTL DEF SmallSpec

\* Types; an upload goes with its call of LockKey; the copy is never longer than
\* the haystack, and the haystack stays within the bound of the model.
THEOREM SmallTypeCorrect == SmallSpec => []SmallTypeOK
<1>1. SInv /\ RoomInv => SmallTypeOK
  <2>1. SUFFICES ASSUME SInv, RoomInv PROVE SmallTypeOK
    OBVIOUS
  <2>2. \A k \in Keys : Len(hay[k]) <= MaxCells
    <3>1. ASSUME NEW k \in Keys PROVE Len(hay[k]) <= MaxCells
      <4>1. /\ Len(hay[k]) \in Nat /\ IsFiniteSet(Callers(k))
            /\ Len(hay[k]) + Cardinality(ToCome(k)) <= MaxCells
        BY <2>1 DEF RoomInv, RoomLeft, SInv, Typed
      <4>2. Cardinality(ToCome(k)) \in Nat
        BY <4>1, ToComeFinite
      <4>. QED BY <4>1, <4>2, SizeAssumption
    <3>. QED BY <3>1
  <2>. QED BY <2>1, <2>2 DEF SmallTypeOK, SInv, IInv, Typed, Recorded, UpState, UpOK, RoomInv
<1>. QED BY SmallInvariance, RoomInvariance, <1>1, PTL

-----------------------------------------------------------------------------
(* The download from a peer: until a handoff a path has one downloader,    *)
(* whose temporary file is what it has copied so far; what is under the    *)
(* name of the file is all of it.                                          *)

Steps == {"idle", "lock", "mark", "request", "create", "copy", "check", "drop", "rename",
          "log", "unmark", "unlock"}
Jobs == [step : Steps, file : Keys \cup {NoKey}, retry : 0 .. LastRetry, got : 0 .. Size,
         writes : {"none", "tmp", "disk", "gone"}, mark : {"none", "new", "old"}]

\* Types.
FTyped ==
    /\ queue \in [Keys -> [0 .. LastRetry -> Nat]]
    /\ job \in [Procs -> Jobs]
    /\ tmp \in [Keys -> (SUBSET Whole) \cup {NoFile}]
    /\ disk \in [Keys -> (SUBSET Whole) \cup {NoFile}]
    /\ orphans \subseteq Keys \X {"new", "old"}
    /\ reap \subseteq Plain
    /\ logged \cup dated \cup swept \cup left \subseteq Keys

\* What a worker is doing goes with its call of LockKey.
JobOK(p) ==
    /\ job[p].step \in {"idle", "lock"} <=> pc[p] = "idle"
    /\ pc[p] = "wait" => job[p].step = "mark"
    /\ job[p].step = "lock" => job[p].file \in Keys
    /\ pc[p] # "idle" => job[p].file = key[p]
    /\ job[p].step \in {"idle", "lock", "mark"} => job[p].mark = "none"
    /\ job[p].step \in {"lock", "mark", "request", "create"} => job[p].got = 0
    /\ job[p].step = "copy" => job[p].got < Size
    /\ job[p].writes # "none" <=> job[p].step = "copy"
JobsOK == \A p \in Procs : JobOK(p)

\* A descriptor is of a file that is there, a file in a folder that is there.
FilesOK ==
    /\ \A p \in Procs : /\ job[p].writes = "tmp" => tmp[job[p].file] # NoFile
                        /\ job[p].writes = "disk" => disk[job[p].file] # NoFile
    /\ \A k \in Keys : tmp[k] # NoFile \/ disk[k] # NoFile => Folder[k] \in folders

\* What the temporary file is to the worker that holds the lock of its path.
HolderOK(p, k) ==
    /\ job[p].step = "copy" => \/ job[p].writes = "tmp" /\ tmp[k] = 1 .. job[p].got
                               \/ job[p].writes = "gone" /\ tmp[k] = NoFile
    /\ job[p].step = "check" => tmp[k] \in {NoFile, {}, Whole}
    /\ job[p].step = "rename" => tmp[k] \in {NoFile, Whole}
    /\ job[p].step \in {"log", "unmark", "unlock"} => tmp[k] = NoFile
    /\ job[p].step = "log" /\ k \notin dated \cup swept => disk[k] = Whole

\* The steps of a download that has no temporary file yet.
BeforeCreate == {"mark", "request", "create"}

\* Until a handoff: the file is whole or absent, and the temporary file is what its
\* downloader copied, or is absent.
WholeInv == \A k \in Keys : ~handoff[k] =>
    /\ disk[k] \in {NoFile, Whole}
    /\ \A p \in Procs : Holds(p, k) => HolderOK(p, k)
    /\ k \notin left /\ (\A p \in Procs : Holds(p, k) => job[p].step \in BeforeCreate)
         => tmp[k] = NoFile

\* What RemoveDownloading removes has an entry that got too old.
ReapInv ==
    /\ reap \subseteq dated
    /\ \A k \in Keys : <<k, "old">> \in orphans => k \in dated
    /\ \A p \in Procs : job[p].mark = "old" => key[p] \in dated

\* What is in a folder that was found empty came later.
LookInv == \A k \in Keys :
    Folder[k] = look /\ (tmp[k] # NoFile \/ disk[k] # NoFile) => k \in swept

\* What was reported is there.
LoggedInv == \A k \in logged : ~handoff[k] /\ k \notin dated \cup swept => disk[k] = Whole

\* The inductive invariant.
FInv ==
    /\ IInv
    /\ FTyped /\ JobsOK /\ FilesOK /\ WholeInv /\ ReapInv /\ LookInv /\ LoggedInv

\* j is i but for the place of its descriptor.
Like(j, i) ==
    /\ j.step = i.step /\ j.file = i.file /\ j.got = i.got /\ j.mark = i.mark
    /\ j.writes = "none" <=> i.writes = "none"

\* Moved changes only the place of descriptors of file k.
LEMMA MovedJobs ==
    ASSUME NEW jobs \in [Procs -> Jobs], NEW k, NEW from \in {"tmp", "disk"},
           NEW to \in {"disk", "gone"}
    PROVE  /\ Moved(jobs, k, from, to) \in [Procs -> Jobs]
           /\ \A q \in Procs :
                /\ Like(Moved(jobs, k, from, to)[q], jobs[q])
                /\ IF jobs[q].file = k /\ jobs[q].writes = from
                   THEN Moved(jobs, k, from, to)[q].writes = to
                   ELSE Moved(jobs, k, from, to)[q] = jobs[q]
BY DEF Moved, Jobs, Like

\* What the invariant says of a worker that holds the lock of its path.
LEMMA CritJob ==
    ASSUME FInv, NEW p \in Procs, pc[p] = "crit"
    PROVE  /\ key[p] \in Keys /\ job[p].file = key[p]
           /\ job[p] \in Jobs /\ JobOK(p) /\ Holds(p, key[p])
           /\ ~handoff[key[p]] => HolderOK(p, key[p])
BY DEF FInv, IInv, TypeOK, CallState, FTyped, JobsOK, JobOK, WholeInv, Holds

\* A worker's step under the lock leaves the others' jobs alone but for their files.
LEMMA OwnJobs ==
    ASSUME FInv, NEW p \in Procs, UNCHANGED vars, JobOK(p)',
           \A q \in Procs \ {p} : Like(job'[q], job[q])
    PROVE  JobsOK'
<1>1. ASSUME NEW q \in Procs \ {p} PROVE JobOK(q)'
  <2>1. Like(job'[q], job[q]) /\ pc'[q] = pc[q] /\ key'[q] = key[q] /\ JobOK(q)
    BY DEF vars, FInv, JobsOK
  <2>. QED BY <2>1 DEF JobOK, Like
<1>. QED BY <1>1 DEF JobsOK

\* A step of the holder of h that leaves the files of other paths alone.
LEMMA HolderWhole ==
    ASSUME FInv, NEW p \in Procs, NEW h \in Keys, Holds(p, h), UNCHANGED <<vars, left>>,
           dated \subseteq dated', swept \subseteq swept',
           \A q \in Procs : key[q] # h => job'[q] = job[q],
           \A k \in Keys \ {h} : tmp'[k] = tmp[k] /\ disk'[k] = disk[k],
           ~handoff[h] =>
             /\ disk'[h] \in {NoFile, Whole}
             /\ HolderOK(p, h)'
             /\ h \notin left /\ job'[p].step \in BeforeCreate => tmp'[h] = NoFile
    PROVE  WholeInv'
<1>1. SUFFICES ASSUME NEW k \in Keys, ~handoff[k]
               PROVE  /\ disk'[k] \in {NoFile, Whole}
                      /\ \A q \in Procs : Holds(q, k) => HolderOK(q, k)'
                      /\ k \notin left /\ (\A q \in Procs : Holds(q, k) => job'[q].step \in BeforeCreate)
                           => tmp'[k] = NoFile
  BY DEF WholeInv, vars, Holds
<1>2. CASE k = h
  <2>1. \A q \in Procs : Holds(q, k) => q = p
    BY <1>1, <1>2 DEF FInv, IInv, OneMutexUntilHandoff, Holds
  <2>2. /\ disk'[k] \in {NoFile, Whole} /\ HolderOK(p, k)'
        /\ k \notin left /\ job'[p].step \in BeforeCreate => tmp'[k] = NoFile
    BY <1>1, <1>2
  <2>. QED BY <1>2, <2>1, <2>2
<1>3. CASE k # h
  <2>1. /\ disk[k] \in {NoFile, Whole}
        /\ \A q \in Procs : Holds(q, k) => HolderOK(q, k)
        /\ k \notin left /\ (\A q \in Procs : Holds(q, k) => job[q].step \in BeforeCreate)
             => tmp[k] = NoFile
    BY <1>1 DEF FInv, WholeInv
  <2>2. tmp'[k] = tmp[k] /\ disk'[k] = disk[k]
    BY <1>3
  <2>3. \A q \in Procs : Holds(q, k) => job'[q] = job[q]
    BY <1>3 DEF Holds
  <2>4. ASSUME NEW q \in Procs, Holds(q, k) PROVE HolderOK(q, k)'
    BY <2>1, <2>2, <2>3, <2>4 DEF HolderOK
  <2>. QED BY <2>1, <2>2, <2>3, <2>4
<1>. QED BY <1>2, <1>3

\* Before a handoff, one holder is all there is: no temporary file before Create.
LEMMA HolderFiles ==
    ASSUME FInv, NEW p \in Procs, NEW h \in Keys, Holds(p, h), ~handoff[h]
    PROVE  /\ disk[h] \in {NoFile, Whole}
           /\ h \notin left /\ job[p].step \in BeforeCreate => tmp[h] = NoFile
<1>1. \A q \in Procs : Holds(q, h) => q = p
  BY DEF FInv, IInv, OneMutexUntilHandoff
<1>. QED BY <1>1 DEF FInv, WholeInv

LEMMA InitFInv == FetchInit => FInv
<1>1. SUFFICES ASSUME FetchInit PROVE FInv
  OBVIOUS
<1>. USE <1>1, PeerDownloadAssumption, NoKeyAssumption DEF FetchInit
<1>2. IInv
  BY InitIInv
<1>3. FTyped
  <2>1. NoJob \in Jobs /\ NoEntries \in [0 .. LastRetry -> Nat]
    BY DEF NoJob, Jobs, Steps, LastRetry, NoEntries
  <2>2. queue \in [Keys -> [0 .. LastRetry -> Nat]]
    BY <2>1
  <2>3. job \in [Procs -> Jobs]
    BY <2>1
  <2>4. tmp \in [Keys -> (SUBSET Whole) \cup {NoFile}] /\ disk = tmp
    OBVIOUS
  <2>5. orphans = {} /\ reap = {} /\ logged = {} /\ dated = {} /\ swept = {} /\ left = {}
    OBVIOUS
  <2>. QED BY <2>2, <2>3, <2>4, <2>5 DEF FTyped
<1>4. JobsOK /\ FilesOK
  BY DEF JobsOK, JobOK, FilesOK, NoJob, Init
<1>5. WholeInv
  BY DEF WholeInv, Init, Holds
<1>6. ReapInv /\ LookInv /\ LoggedInv
  BY DEF ReapInv, LookInv, LoggedInv, NoJob
<1>. QED BY <1>2, <1>3, <1>4, <1>5, <1>6 DEF FInv

\* A step of the holder that touches no file.
LEMMA QuietStep ==
    ASSUME FInv, NEW p \in Procs, NEW h \in Keys, Holds(p, h), NEW j \in Jobs,
           UNCHANGED <<vars, tmp, disk, cleanVars, history>>,
           folders \subseteq folders',
           queue' \in [Keys -> [0 .. LastRetry -> Nat]],
           job' = [job EXCEPT ![p] = j], JobOK(p)',
           j.writes \in {job[p].writes, "none"},
           j.mark \in {job[p].mark, "none", "new"},
           j.step \in BeforeCreate => job[p].step \in BeforeCreate,
           ~handoff[h] => HolderOK(p, h)',
           \A k \in logged' : k \in logged \/ (k = h /\ job[p].step = "log")
    PROVE  FInv'
<1>1. /\ job[p].file = h /\ key[p] = h /\ job[p] \in Jobs /\ JobOK(p)
      /\ ~handoff[h] => HolderOK(p, h)
  BY CritJob DEF Holds
<1>2. /\ job' \in [Procs -> Jobs] /\ job'[p] = j
      /\ \A q \in Procs \ {p} : job'[q] = job[q]
  BY DEF FInv, FTyped
<1>3. IInv'
  BY KeptIInv DEF FInv
<1>4. FTyped'
  BY <1>1, <1>2 DEF FInv, FTyped, cleanVars, history
<1>5. JobsOK'
  BY <1>2, OwnJobs DEF Like
<1>6. FilesOK'
  <2>1. j.file = h
    BY <1>1, <1>2 DEF JobOK, vars, Holds
  <2>. QED BY <1>1, <1>2, <2>1 DEF FInv, FilesOK
<1>7. WholeInv'
  <2>1. ~handoff[h] => disk[h] \in {NoFile, Whole}
    BY HolderFiles
  <2>2. ~handoff[h] /\ h \notin left /\ job'[p].step \in BeforeCreate => tmp[h] = NoFile
    BY <1>2, HolderFiles
  <2>. QED BY <1>1, <1>2, <2>1, <2>2, HolderWhole DEF history
<1>8. ReapInv'
  BY <1>2 DEF FInv, ReapInv, vars, cleanVars, history
<1>9. LookInv'
  BY DEF FInv, LookInv, cleanVars, history
<1>10. LoggedInv'
  <2>1. ASSUME NEW k \in logged', ~handoff[k], k \notin dated \cup swept
        PROVE  disk[k] = Whole
    BY <1>1, <2>1 DEF FInv, LoggedInv, HolderOK
  <2>. QED BY <2>1 DEF LoggedInv, vars, history
<1>. QED BY <1>3, <1>4, <1>5, <1>6, <1>7, <1>8, <1>9, <1>10 DEF FInv

\* One more entry of the queue.
LEMMA MoreEntries ==
    ASSUME NEW q \in [Keys -> [0 .. LastRetry -> Nat]], NEW k \in Keys, NEW r \in 0 .. LastRetry
    PROVE  [q EXCEPT ![k][r] = @ + 1] \in [Keys -> [0 .. LastRetry -> Nat]]
<1>. DEFINE e == [q[k] EXCEPT ![r] = q[k][r] + 1]
<1>1. q[k] \in [0 .. LastRetry -> Nat] /\ q[k][r] \in Nat
  OBVIOUS
<1>2. e \in [0 .. LastRetry -> Nat]
  BY <1>1
<1>3. [q EXCEPT ![k][r] = @ + 1] = [q EXCEPT ![k] = e]
  OBVIOUS
<1>. HIDE DEF e
<1>. QED BY <1>2, <1>3

LEMMA PutMarkFInv ==
    ASSUME FInv, NEW p \in Procs, NEW h \in Keys, Holds(p, h), PutMark(p)
    PROVE  FInv'
<1>. DEFINE j == [job[p] EXCEPT !.step = "request", !.mark = "new"]
<1>1. /\ job[p].step = "mark" /\ job' = [job EXCEPT ![p] = j]
      /\ UNCHANGED <<vars, queue, tmp, disk, folders, cleanVars, logged, history>>
      /\ UNCHANGED <<pc, key>>
  BY DEF PutMark, At, fileVars, vars
<1>2. job[p] \in Jobs /\ JobOK(p) /\ pc[p] = "crit" /\ key[p] = h /\ job[p].file = h
  BY CritJob DEF Holds
<1>3. /\ j \in Jobs /\ j.file = h /\ j.step = "request" /\ j.mark = "new" /\ j.writes = job[p].writes /\ j.got = job[p].got
  BY <1>1, <1>2 DEF Jobs, Steps
<1>4. queue' \in [Keys -> [0 .. LastRetry -> Nat]]
  BY <1>1 DEF FInv, FTyped
<1>5. job'[p] = j
  BY <1>1 DEF FInv, FTyped
<1>6. JobOK(p)'
  BY <1>1, <1>2, <1>3, <1>5 DEF JobOK
<1>. HIDE DEF j
<1>7. HolderOK(p, h)'
  BY <1>3, <1>5 DEF HolderOK
<1>. QED BY <1>1, <1>2, <1>3, <1>4, <1>5, <1>6, <1>7, QuietStep DEF BeforeCreate

LEMMA AnsweredFInv ==
    ASSUME FInv, NEW p \in Procs, NEW h \in Keys, Holds(p, h), Answered(p)
    PROVE  FInv'
<1>. DEFINE j == [job[p] EXCEPT !.step = "create"]
<1>1. /\ job[p].step = "request" /\ job' = [job EXCEPT ![p] = j]
      /\ UNCHANGED <<vars, queue, tmp, disk, cleanVars, logged, history>>
      /\ UNCHANGED <<pc, key>>
  BY DEF Answered, At, Goto, fileVars, vars
<1>2. job[p] \in Jobs /\ JobOK(p) /\ pc[p] = "crit" /\ key[p] = h /\ job[p].file = h
  BY CritJob DEF Holds
<1>3. /\ j \in Jobs /\ j.file = h /\ j.step = "create" /\ j.mark = job[p].mark /\ j.writes = job[p].writes /\ j.got = job[p].got
  BY <1>1, <1>2 DEF Jobs, Steps
<1>4. queue' \in [Keys -> [0 .. LastRetry -> Nat]]
  BY <1>1 DEF FInv, FTyped
<1>8. folders \subseteq folders'
  BY DEF Answered
<1>5. job'[p] = j
  BY <1>1 DEF FInv, FTyped
<1>6. JobOK(p)'
  BY <1>1, <1>2, <1>3, <1>5 DEF JobOK
<1>. HIDE DEF j
<1>7. HolderOK(p, h)'
  BY <1>3, <1>5 DEF HolderOK
<1>. QED BY <1>1, <1>2, <1>3, <1>4, <1>5, <1>6, <1>7, <1>8, QuietStep DEF BeforeCreate

LEMMA ErrorPageFInv ==
    ASSUME FInv, NEW p \in Procs, NEW h \in Keys, Holds(p, h), ErrorPage(p)
    PROVE  FInv'
<1>. DEFINE j == [job[p] EXCEPT !.step = "check", !.writes = "none"]
<1>1. /\ job[p].step = "copy" /\ job[p].got = 0 /\ job' = [job EXCEPT ![p] = j]
      /\ UNCHANGED <<vars, queue, tmp, disk, folders, cleanVars, logged, history>>
      /\ UNCHANGED <<pc, key>>
  BY DEF ErrorPage, At, fileVars, vars
<1>2. job[p] \in Jobs /\ JobOK(p) /\ pc[p] = "crit" /\ key[p] = h /\ job[p].file = h
  BY CritJob DEF Holds
<1>3. /\ j \in Jobs /\ j.file = h /\ j.step = "check" /\ j.mark = job[p].mark /\ j.writes = "none" /\ j.got = 0
  BY <1>1, <1>2 DEF Jobs, Steps
<1>4. queue' \in [Keys -> [0 .. LastRetry -> Nat]]
  BY <1>1 DEF FInv, FTyped
<1>5. job'[p] = j
  BY <1>1 DEF FInv, FTyped
<1>6. JobOK(p)'
  BY <1>1, <1>2, <1>3, <1>5 DEF JobOK
<1>. HIDE DEF j
<1>7. ~handoff[h] => HolderOK(p, h)'
  <2>1. SUFFICES ASSUME ~handoff[h] PROVE HolderOK(p, h)'
    OBVIOUS
  <2>2. tmp[h] = 1 .. 0 \/ tmp[h] = NoFile
    BY <1>1, <1>2, <2>1, CritJob DEF HolderOK
  <2>3. tmp[h] \in {NoFile, {}}
    BY <2>2
  <2>. QED BY <1>1, <1>3, <1>5, <2>3 DEF HolderOK
<1>. QED BY <1>1, <1>2, <1>3, <1>4, <1>5, <1>6, <1>7, QuietStep DEF BeforeCreate

LEMMA BreaksFInv ==
    ASSUME FInv, NEW p \in Procs, NEW h \in Keys, Holds(p, h), Breaks(p)
    PROVE  FInv'
<1>. DEFINE j == [job[p] EXCEPT !.step = "drop", !.writes = "none"]
<1>1. /\ job[p].step \in {"request", "copy"} /\ job' = [job EXCEPT ![p] = j]
      /\ UNCHANGED <<vars, tmp, disk, folders, cleanVars, logged, history>>
      /\ UNCHANGED <<pc, key>>
  BY DEF Breaks, At, Retry, fileVars, vars
<1>2. job[p] \in Jobs /\ JobOK(p) /\ pc[p] = "crit" /\ key[p] = h /\ job[p].file = h
  BY CritJob DEF Holds
<1>3. /\ j \in Jobs /\ j.file = h /\ j.step = "drop" /\ j.mark = job[p].mark /\ j.writes = "none" /\ j.got = job[p].got
  BY <1>1, <1>2 DEF Jobs, Steps
<1>4. queue' \in [Keys -> [0 .. LastRetry -> Nat]]
  <2>1. queue' = [queue EXCEPT ![h][job[p].retry] = @ + 1]
    BY <1>2 DEF Breaks, Retry
  <2>. QED BY <1>2, <2>1, MoreEntries DEF FInv, FTyped, Jobs
<1>5. job'[p] = j
  BY <1>1 DEF FInv, FTyped
<1>6. JobOK(p)'
  BY <1>1, <1>2, <1>3, <1>5 DEF JobOK
<1>. HIDE DEF j
<1>7. HolderOK(p, h)'
  BY <1>3, <1>5 DEF HolderOK
<1>. QED BY <1>1, <1>2, <1>3, <1>4, <1>5, <1>6, <1>7, QuietStep DEF BeforeCreate

LEMMA CreateFailsFInv ==
    ASSUME FInv, NEW p \in Procs, NEW h \in Keys, Holds(p, h), CreateFails(p)
    PROVE  FInv'
<1>. DEFINE j == [job[p] EXCEPT !.step = "drop", !.writes = "none"]
<1>1. /\ job[p].step = "create" /\ job' = [job EXCEPT ![p] = j]
      /\ UNCHANGED <<vars, tmp, disk, folders, cleanVars, logged, history>>
      /\ UNCHANGED <<pc, key>>
  BY DEF CreateFails, At, Retry, fileVars, vars
<1>2. job[p] \in Jobs /\ JobOK(p) /\ pc[p] = "crit" /\ key[p] = h /\ job[p].file = h
  BY CritJob DEF Holds
<1>3. /\ j \in Jobs /\ j.file = h /\ j.step = "drop" /\ j.mark = job[p].mark /\ j.writes = "none" /\ j.got = job[p].got
  BY <1>1, <1>2 DEF Jobs, Steps
<1>4. queue' \in [Keys -> [0 .. LastRetry -> Nat]]
  <2>1. queue' = [queue EXCEPT ![h][job[p].retry] = @ + 1]
    BY <1>2 DEF CreateFails, Retry
  <2>. QED BY <1>2, <2>1, MoreEntries DEF FInv, FTyped, Jobs
<1>5. job'[p] = j
  BY <1>1 DEF FInv, FTyped
<1>6. JobOK(p)'
  BY <1>1, <1>2, <1>3, <1>5 DEF JobOK
<1>. HIDE DEF j
<1>7. HolderOK(p, h)'
  BY <1>3, <1>5 DEF HolderOK
<1>. QED BY <1>1, <1>2, <1>3, <1>4, <1>5, <1>6, <1>7, QuietStep DEF BeforeCreate

LEMMA SizeRightFInv ==
    ASSUME FInv, NEW p \in Procs, NEW h \in Keys, Holds(p, h), SizeRight(p)
    PROVE  FInv'
<1>. DEFINE j == [job[p] EXCEPT !.step = "rename"]
<1>1. /\ job[p].step = "check" /\ job' = [job EXCEPT ![p] = j]
      /\ UNCHANGED <<vars, queue, tmp, disk, folders, cleanVars, logged, history>>
      /\ UNCHANGED <<pc, key>>
  BY DEF SizeRight, At, Goto, fileVars, vars
<1>2. job[p] \in Jobs /\ JobOK(p) /\ pc[p] = "crit" /\ key[p] = h /\ job[p].file = h
  BY CritJob DEF Holds
<1>3. /\ j \in Jobs /\ j.file = h /\ j.step = "rename" /\ j.mark = job[p].mark /\ j.writes = job[p].writes /\ j.got = job[p].got
  BY <1>1, <1>2 DEF Jobs, Steps
<1>4. queue' \in [Keys -> [0 .. LastRetry -> Nat]]
  BY <1>1 DEF FInv, FTyped
<1>5. job'[p] = j
  BY <1>1 DEF FInv, FTyped
<1>6. JobOK(p)'
  BY <1>1, <1>2, <1>3, <1>5 DEF JobOK
<1>. HIDE DEF j
<1>7. ~handoff[h] => HolderOK(p, h)'
  <2>1. SUFFICES ASSUME ~handoff[h] PROVE HolderOK(p, h)'
    OBVIOUS
  <2>2. tmp[h] \in {NoFile, {}, Whole}
    BY <1>1, <1>2, <2>1, CritJob DEF HolderOK
  <2>3. tmp[h] = Whole
    BY <1>2, <2>2 DEF SizeRight, InSize
  <2>. QED BY <1>1, <1>3, <1>5, <2>3 DEF HolderOK
<1>. QED BY <1>1, <1>2, <1>3, <1>4, <1>5, <1>6, <1>7, QuietStep DEF BeforeCreate

LEMMA RenameFailsFInv ==
    ASSUME FInv, NEW p \in Procs, NEW h \in Keys, Holds(p, h), RenameFails(p)
    PROVE  FInv'
<1>. DEFINE j == [job[p] EXCEPT !.step = "unmark"]
<1>1. /\ job[p].step = "rename" /\ job' = [job EXCEPT ![p] = j]
      /\ UNCHANGED <<vars, queue, tmp, disk, folders, cleanVars, logged, history>>
      /\ UNCHANGED <<pc, key>>
  BY DEF RenameFails, At, Goto, fileVars, vars
<1>2. job[p] \in Jobs /\ JobOK(p) /\ pc[p] = "crit" /\ key[p] = h /\ job[p].file = h
  BY CritJob DEF Holds
<1>3. /\ j \in Jobs /\ j.file = h /\ j.step = "unmark" /\ j.mark = job[p].mark /\ j.writes = job[p].writes /\ j.got = job[p].got
  BY <1>1, <1>2 DEF Jobs, Steps
<1>4. queue' \in [Keys -> [0 .. LastRetry -> Nat]]
  BY <1>1 DEF FInv, FTyped
<1>5. job'[p] = j
  BY <1>1 DEF FInv, FTyped
<1>6. JobOK(p)'
  BY <1>1, <1>2, <1>3, <1>5 DEF JobOK
<1>. HIDE DEF j
<1>7. HolderOK(p, h)'
  BY <1>1, <1>2, <1>3, <1>5 DEF RenameFails, HolderOK
<1>. QED BY <1>1, <1>2, <1>3, <1>4, <1>5, <1>6, <1>7, QuietStep DEF BeforeCreate

LEMMA LogFInv ==
    ASSUME FInv, NEW p \in Procs, NEW h \in Keys, Holds(p, h), Log(p)
    PROVE  FInv'
<1>. DEFINE j == [job[p] EXCEPT !.step = "unmark"]
<1>1. /\ job[p].step = "log" /\ job' = [job EXCEPT ![p] = j]
      /\ UNCHANGED <<vars, queue, tmp, disk, folders, cleanVars, history>>
      /\ UNCHANGED <<pc, key>>
  BY DEF Log, At, Goto, fileVars, vars
<1>2. job[p] \in Jobs /\ JobOK(p) /\ pc[p] = "crit" /\ key[p] = h /\ job[p].file = h
  BY CritJob DEF Holds
<1>3. /\ j \in Jobs /\ j.file = h /\ j.step = "unmark" /\ j.mark = job[p].mark /\ j.writes = job[p].writes /\ j.got = job[p].got
  BY <1>1, <1>2 DEF Jobs, Steps
<1>4. queue' \in [Keys -> [0 .. LastRetry -> Nat]]
  BY <1>1 DEF FInv, FTyped
<1>8. logged' = logged \cup {h}
  BY <1>2 DEF Log
<1>5. job'[p] = j
  BY <1>1 DEF FInv, FTyped
<1>6. JobOK(p)'
  BY <1>1, <1>2, <1>3, <1>5 DEF JobOK
<1>. HIDE DEF j
<1>7. ~handoff[h] => HolderOK(p, h)'
  BY <1>1, <1>2, <1>3, <1>5, CritJob DEF HolderOK
<1>. QED BY <1>1, <1>2, <1>3, <1>4, <1>5, <1>6, <1>7, <1>8, QuietStep DEF BeforeCreate

LEMMA UnmarkFInv ==
    ASSUME FInv, NEW p \in Procs, NEW h \in Keys, Holds(p, h), Unmark(p)
    PROVE  FInv'
<1>. DEFINE j == [job[p] EXCEPT !.step = "unlock", !.mark = "none"]
<1>1. /\ job[p].step = "unmark" /\ job' = [job EXCEPT ![p] = j]
      /\ UNCHANGED <<vars, queue, tmp, disk, folders, cleanVars, logged, history>>
      /\ UNCHANGED <<pc, key>>
  BY DEF Unmark, At, fileVars, vars
<1>2. job[p] \in Jobs /\ JobOK(p) /\ pc[p] = "crit" /\ key[p] = h /\ job[p].file = h
  BY CritJob DEF Holds
<1>3. /\ j \in Jobs /\ j.file = h /\ j.step = "unlock" /\ j.mark = "none" /\ j.writes = job[p].writes /\ j.got = job[p].got
  BY <1>1, <1>2 DEF Jobs, Steps
<1>4. queue' \in [Keys -> [0 .. LastRetry -> Nat]]
  BY <1>1 DEF FInv, FTyped
<1>5. job'[p] = j
  BY <1>1 DEF FInv, FTyped
<1>6. JobOK(p)'
  BY <1>1, <1>2, <1>3, <1>5 DEF JobOK
<1>. HIDE DEF j
<1>7. ~handoff[h] => HolderOK(p, h)'
  BY <1>1, <1>2, <1>3, <1>5, CritJob DEF HolderOK
<1>. QED BY <1>1, <1>2, <1>3, <1>4, <1>5, <1>6, <1>7, QuietStep DEF BeforeCreate

\* A step of the holder that changes the files of its path.
LEMMA FileStep ==
    ASSUME FInv, NEW p \in Procs, NEW h \in Keys, Holds(p, h),
           UNCHANGED <<vars, queue, folders, cleanVars, logged, dated, left>>,
           tmp' \in [Keys -> (SUBSET Whole) \cup {NoFile}],
           disk' \in [Keys -> (SUBSET Whole) \cup {NoFile}],
           \A k \in Keys \ {h} : tmp'[k] = tmp[k] /\ disk'[k] = disk[k],
           job' \in [Procs -> Jobs], JobOK(p)', job'[p].mark = job[p].mark,
           \A q \in Procs \ {p} :
             /\ Like(job'[q], job[q])
             /\ job[q].file # h \/ job[q].writes = "none" => job'[q] = job[q],
           tmp'[h] # NoFile \/ disk'[h] # NoFile => Folder[h] \in folders,
           \A q \in Procs : job'[q].file = h =>
             /\ job'[q].writes = "tmp" => tmp'[h] # NoFile
             /\ job'[q].writes = "disk" => disk'[h] # NoFile,
           swept \subseteq swept', swept' \subseteq swept \cup {h},
           (tmp'[h] # NoFile \/ disk'[h] # NoFile) /\ Folder[h] = look => h \in swept',
           ~handoff[h] =>
             /\ disk'[h] \in {NoFile, Whole} /\ HolderOK(p, h)' /\ job'[p].step \notin BeforeCreate
             /\ disk[h] = Whole => disk'[h] = Whole
    PROVE  FInv'
<1>1. job[p].file = h /\ key[p] = h /\ job[p] \in Jobs /\ JobOK(p) /\ pc[p] = "crit"
  BY CritJob DEF Holds
<1>3. IInv'
  BY KeptIInv DEF FInv
<1>4. FTyped'
  BY DEF FInv, FTyped, cleanVars
<1>5. JobsOK'
  BY OwnJobs
<1>6. FilesOK'
  <2>1. ASSUME NEW q \in Procs
        PROVE  /\ job'[q].writes = "tmp" => tmp'[job'[q].file] # NoFile
               /\ job'[q].writes = "disk" => disk'[job'[q].file] # NoFile
    <3>1. CASE job'[q].file = h
      BY <3>1
    <3>2. CASE job'[q].file # h
      <4>1. q # p
        BY <1>1, <3>2 DEF JobOK, vars, Holds
      <4>2. job'[q] = job[q] /\ JobOK(q) /\ job[q] \in Jobs
        BY <3>2, <4>1 DEF Like, FInv, JobsOK, FTyped
      <4>3. job[q].writes # "none" => job[q].file \in Keys
        BY <4>2 DEF JobOK, FInv, IInv, CallState, TypeOK
      <4>. QED BY <3>2, <4>2, <4>3 DEF FInv, FilesOK
    <3>. QED BY <3>1, <3>2
  <2>2. \A k \in Keys : tmp'[k] # NoFile \/ disk'[k] # NoFile => Folder[k] \in folders'
    BY DEF FInv, FilesOK
  <2>. QED BY <2>1, <2>2 DEF FilesOK
<1>7. WholeInv'
  <2>1. ASSUME NEW q \in Procs, key[q] # h PROVE job'[q] = job[q]
    BY <1>1, <2>1 DEF FInv, JobsOK, JobOK
  <2>. QED BY <2>1, HolderWhole
<1>8. ReapInv'
  <2>1. \A q \in Procs : job'[q].mark = job[q].mark
    BY DEF Like
  <2>. QED BY <2>1 DEF FInv, ReapInv, vars, cleanVars
<1>9. LookInv'
  BY DEF FInv, LookInv, cleanVars
<1>10. LoggedInv'
  <2>1. ASSUME NEW k \in logged, ~handoff[k], k \notin dated \cup swept'
        PROVE  disk'[k] = Whole
    BY <2>1 DEF FInv, LoggedInv, FTyped
  <2>. QED BY <2>1 DEF LoggedInv, vars
<1>. QED BY <1>3, <1>4, <1>5, <1>6, <1>7, <1>8, <1>9, <1>10 DEF FInv

\* No content is the absence of a file.
LEMMA NotAFile == NoFile \notin SUBSET Whole
BY PeerDownloadAssumption DEF Whole

LEMMA CreateFInv ==
    ASSUME FInv, NEW p \in Procs, NEW h \in Keys, Holds(p, h), Create(p)
    PROVE  FInv'
<1>. DEFINE j == [job[p] EXCEPT !.step = "copy", !.writes = "tmp"]
<1>1. /\ job[p].step = "create" /\ job' = [job EXCEPT ![p] = j]
      /\ UNCHANGED <<vars, queue, folders, cleanVars, logged, dated, left>>
      /\ UNCHANGED <<pc, key, disk>>
  BY DEF Create, At, vars
<1>2. job[p] \in Jobs /\ JobOK(p) /\ pc[p] = "crit" /\ key[p] = h /\ job[p].file = h
  BY CritJob DEF Holds
<1>3. /\ tmp' = [tmp EXCEPT ![h] = {}] /\ Folder[h] \in folders
      /\ swept' = IF look = Folder[h] THEN swept \cup {h} ELSE swept
  BY <1>2 DEF Create
<1>4. /\ j \in Jobs /\ j.file = h /\ j.step = "copy" /\ j.mark = job[p].mark
      /\ j.writes = "tmp" /\ j.got = 0
  BY <1>1, <1>2 DEF Jobs, Steps, JobOK
<1>. HIDE DEF j
<1>5. job'[p] = j /\ job' \in [Procs -> Jobs] /\ \A q \in Procs \ {p} : job'[q] = job[q]
  BY <1>1, <1>4 DEF FInv, FTyped
<1>6. JobOK(p)'
  BY <1>1, <1>2, <1>4, <1>5, PeerDownloadAssumption DEF JobOK
<1>7. /\ tmp' \in [Keys -> (SUBSET Whole) \cup {NoFile}]
      /\ disk' \in [Keys -> (SUBSET Whole) \cup {NoFile}]
      /\ \A k \in Keys \ {h} : tmp'[k] = tmp[k] /\ disk'[k] = disk[k]
      /\ tmp'[h] = {} /\ tmp'[h] # NoFile /\ disk'[h] = disk[h]
  BY <1>1, <1>3, NotAFile DEF FInv, FTyped
<1>8. HolderOK(p, h)'
  <2>1. 1 .. 0 = {}
    OBVIOUS
  <2>. QED BY <1>4, <1>5, <1>7, <2>1 DEF HolderOK
<1>9. ASSUME NEW q \in Procs, job'[q].file = h, job'[q].writes = "disk" PROVE disk[h] # NoFile
  BY <1>4, <1>5, <1>9 DEF FInv, FilesOK
<1>10. ~handoff[h] => disk[h] \in {NoFile, Whole} /\ job'[p].step \notin BeforeCreate
  BY <1>4, <1>5, HolderFiles DEF BeforeCreate
<1>11. /\ swept \subseteq swept' /\ swept' \subseteq swept \cup {h}
       /\ Folder[h] = look => h \in swept'
  BY <1>3
<1>12. \A q \in Procs \ {p} : Like(job'[q], job[q])
  BY <1>5 DEF Like
<1>. QED
  BY <1>1, <1>3, <1>4, <1>5, <1>6, <1>7, <1>8, <1>9, <1>10, <1>11, <1>12, FileStep

\* The temporary file is removed.
LEMMA RemoveTmp ==
    ASSUME FInv, NEW p \in Procs, NEW h \in Keys, Holds(p, h), job[p].step \in {"drop", "check"},
           UNCHANGED <<vars, queue, disk, folders, cleanVars, logged, history>>,
           tmp' = [tmp EXCEPT ![h] = NoFile],
           job' = [Moved(job, h, "tmp", "gone") EXCEPT ![p].step = "unmark"]
    PROVE  FInv'
<1>. DEFINE m == Moved(job, h, "tmp", "gone")
            j == [m[p] EXCEPT !.step = "unmark"]
<1>1. job[p] \in Jobs /\ JobOK(p) /\ pc[p] = "crit" /\ key[p] = h /\ job[p].file = h
  BY CritJob DEF Holds
<1>2. /\ m \in [Procs -> Jobs]
      /\ \A q \in Procs : /\ Like(m[q], job[q])
                          /\ IF job[q].file = h /\ job[q].writes = "tmp"
                             THEN m[q].writes = "gone" ELSE m[q] = job[q]
  BY MovedJobs DEF FInv, FTyped
<1>3. job' = [m EXCEPT ![p] = j] /\ UNCHANGED <<pc, key, dated, swept, left>>
  BY DEF vars, history
<1>. HIDE DEF m
<1>4. m[p] = job[p] /\ job[p].writes = "none"
  BY <1>1, <1>2 DEF JobOK
<1>5. /\ j \in Jobs /\ j.file = h /\ j.step = "unmark" /\ j.mark = job[p].mark
      /\ j.writes = "none" /\ j.got = job[p].got
  BY <1>1, <1>4 DEF Jobs, Steps
<1>. HIDE DEF j
<1>6. job'[p] = j /\ job' \in [Procs -> Jobs] /\ \A q \in Procs \ {p} : job'[q] = m[q]
  BY <1>2, <1>3, <1>5
<1>7. JobOK(p)'
  BY <1>1, <1>3, <1>5, <1>6 DEF JobOK
<1>8. /\ tmp' \in [Keys -> (SUBSET Whole) \cup {NoFile}]
      /\ disk' \in [Keys -> (SUBSET Whole) \cup {NoFile}]
      /\ \A k \in Keys \ {h} : tmp'[k] = tmp[k] /\ disk'[k] = disk[k]
      /\ tmp'[h] = NoFile /\ disk'[h] = disk[h]
  BY DEF FInv, FTyped
<1>9. HolderOK(p, h)'
  BY <1>5, <1>6, <1>8 DEF HolderOK
<1>10. ASSUME NEW q \in Procs, job'[q].file = h
       PROVE  /\ job'[q].writes # "tmp"
              /\ job'[q].writes = "disk" => disk[h] # NoFile
  <2>1. CASE q = p
    BY <1>5, <1>6, <2>1
  <2>2. CASE q # p
    <3>1. job'[q] = m[q] /\ job[q].file = h
      BY <1>2, <1>6, <1>10, <2>2 DEF Like
    <3>. QED BY <1>2, <3>1 DEF FInv, FilesOK
  <2>. QED BY <2>1, <2>2
<1>11. /\ ~handoff[h] => disk[h] \in {NoFile, Whole} /\ job'[p].step \notin BeforeCreate
       /\ disk[h] # NoFile => Folder[h] \in folders
       /\ disk[h] # NoFile /\ Folder[h] = look => h \in swept
  BY <1>5, <1>6, HolderFiles DEF BeforeCreate, FInv, FilesOK, LookInv
<1>12. \A q \in Procs \ {p} :
         /\ Like(job'[q], job[q])
         /\ job[q].file # h \/ job[q].writes = "none" => job'[q] = job[q]
  BY <1>2, <1>6
<1>13. /\ UNCHANGED <<vars, queue, folders, cleanVars, logged, dated, left>>
       /\ swept' = swept /\ job'[p].mark = job[p].mark
  BY <1>3, <1>5, <1>6
<1>. QED BY <1>6, <1>7, <1>8, <1>9, <1>10, <1>11, <1>12, <1>13, FileStep

LEMMA DropFInv ==
    ASSUME FInv, NEW p \in Procs, NEW h \in Keys, Holds(p, h), Drop(p) \/ SizeWrong(p)
    PROVE  FInv'
<1>1. key[p] = h
  BY DEF Holds
<1>. QED BY <1>1, RemoveTmp DEF Drop, SizeWrong, At

LEMMA RenameFInv ==
    ASSUME FInv, NEW p \in Procs, NEW h \in Keys, Holds(p, h), Rename(p)
    PROVE  FInv'
<1>. DEFINE l == Moved(job, h, "disk", "gone")
            m == Moved(l, h, "tmp", "disk")
            j == [m[p] EXCEPT !.step = "log"]
<1>1. /\ job[p] \in Jobs /\ JobOK(p) /\ pc[p] = "crit" /\ key[p] = h /\ job[p].file = h
      /\ ~handoff[h] => HolderOK(p, h)
  BY CritJob DEF Holds
<1>2. /\ job[p].step = "rename" /\ tmp[h] # NoFile /\ job' = [m EXCEPT ![p] = j]
      /\ UNCHANGED <<vars, queue, folders, cleanVars, logged, dated, swept, left, pc, key>>
      /\ disk' = [disk EXCEPT ![h] = tmp[h]] /\ tmp' = [tmp EXCEPT ![h] = NoFile]
  BY <1>1 DEF Rename, At, vars, history
<1>3. /\ l \in [Procs -> Jobs]
      /\ \A q \in Procs : /\ Like(l[q], job[q])
                          /\ IF job[q].file = h /\ job[q].writes = "disk"
                             THEN l[q].writes = "gone" ELSE l[q] = job[q]
  BY MovedJobs DEF FInv, FTyped
<1>. HIDE DEF l
<1>4. /\ m \in [Procs -> Jobs]
      /\ \A q \in Procs : /\ Like(m[q], l[q])
                          /\ IF l[q].file = h /\ l[q].writes = "tmp"
                             THEN m[q].writes = "disk" ELSE m[q] = l[q]
  BY <1>3, MovedJobs
<1>. HIDE DEF m
<1>5. m[p] = job[p] /\ job[p].writes = "none"
  BY <1>1, <1>2, <1>3, <1>4 DEF JobOK
<1>6. /\ j \in Jobs /\ j.file = h /\ j.step = "log" /\ j.mark = job[p].mark
      /\ j.writes = "none" /\ j.got = job[p].got
  BY <1>1, <1>5 DEF Jobs, Steps
<1>. HIDE DEF j
<1>7. job'[p] = j /\ job' \in [Procs -> Jobs] /\ \A q \in Procs \ {p} : job'[q] = m[q]
  BY <1>2, <1>4, <1>6
<1>8. JobOK(p)'
  BY <1>1, <1>2, <1>6, <1>7 DEF JobOK
<1>9. /\ tmp' \in [Keys -> (SUBSET Whole) \cup {NoFile}]
      /\ disk' \in [Keys -> (SUBSET Whole) \cup {NoFile}]
      /\ \A k \in Keys \ {h} : tmp'[k] = tmp[k] /\ disk'[k] = disk[k]
      /\ tmp'[h] = NoFile /\ disk'[h] = tmp[h]
  BY <1>2 DEF FInv, FTyped
<1>10. ~handoff[h] => tmp[h] = Whole
  BY <1>1, <1>2 DEF HolderOK
<1>11. ~handoff[h] =>
         /\ disk'[h] \in {NoFile, Whole} /\ HolderOK(p, h)' /\ job'[p].step \notin BeforeCreate
         /\ disk[h] = Whole => disk'[h] = Whole
  BY <1>6, <1>7, <1>9, <1>10 DEF HolderOK, BeforeCreate
<1>12. ASSUME NEW q \in Procs PROVE job'[q].writes # "tmp" \/ job'[q].file # h
  <2>1. CASE q = p
    BY <1>6, <1>7, <2>1
  <2>2. CASE q # p
    BY <1>3, <1>4, <1>7, <2>2 DEF Like
  <2>. QED BY <2>1, <2>2
<1>13. /\ Folder[h] \in folders
       /\ Folder[h] = look => h \in swept
  BY <1>2 DEF FInv, FilesOK, LookInv
<1>14. \A q \in Procs \ {p} :
         /\ Like(job'[q], job[q])
         /\ job[q].file # h \/ job[q].writes = "none" => job'[q] = job[q]
  BY <1>3, <1>4, <1>7 DEF Like
<1>15. /\ UNCHANGED <<vars, queue, folders, cleanVars, logged, dated, left>>
       /\ swept' = swept /\ job'[p].mark = job[p].mark /\ disk'[h] # NoFile
  BY <1>2, <1>6, <1>7, <1>9
<1>. QED BY <1>7, <1>8, <1>9, <1>11, <1>12, <1>13, <1>14, <1>15, FileStep

LEMMA CopyFInv ==
    ASSUME FInv, NEW p \in Procs, NEW h \in Keys, Holds(p, h), Copy(p)
    PROVE  FInv'
<1>. DEFINE n == job[p].got + 1
            w == job[p].writes
            j == IF n < Size THEN [job[p] EXCEPT !.got = n]
                 ELSE [job[p] EXCEPT !.got = n, !.step = "check", !.writes = "none"]
<1>1. /\ job[p] \in Jobs /\ JobOK(p) /\ pc[p] = "crit" /\ key[p] = h /\ job[p].file = h
      /\ ~handoff[h] => HolderOK(p, h)
  BY CritJob DEF Holds
<1>2. /\ job[p].step = "copy" /\ job' = [job EXCEPT ![p] = j]
      /\ UNCHANGED <<vars, queue, folders, cleanVars, logged, dated, swept, left, pc, key>>
      /\ tmp' = IF w = "tmp" THEN [tmp EXCEPT ![h] = @ \cup {n}] ELSE tmp
      /\ disk' = IF w = "disk" THEN [disk EXCEPT ![h] = @ \cup {n}] ELSE disk
  BY <1>1 DEF Copy, At, vars, history
<1>3. /\ w \in {"tmp", "disk", "gone"} /\ job[p].got \in 0 .. Size /\ job[p].got < Size
      /\ Size \in Nat \ {0} /\ n \in Whole
  BY <1>1, <1>2, PeerDownloadAssumption DEF Jobs, JobOK, Whole
<1>4. /\ j \in Jobs /\ j.file = h /\ j.mark = job[p].mark /\ j.got = n
      /\ IF n < Size THEN j.step = "copy" /\ j.writes = w
                     ELSE j.step = "check" /\ j.writes = "none"
  <2>1. n \in 0 .. Size
    BY <1>3 DEF Whole
  <2>. HIDE DEF n
  <2>2. CASE n < Size
    BY <1>1, <1>2, <2>1, <2>2 DEF Jobs, Steps
  <2>3. CASE ~(n < Size)
    BY <1>1, <1>2, <2>1, <2>3 DEF Jobs, Steps
  <2>. QED BY <2>2, <2>3
<1>. HIDE DEF j
<1>5. job'[p] = j /\ job' \in [Procs -> Jobs] /\ \A q \in Procs \ {p} : job'[q] = job[q]
  BY <1>2, <1>4 DEF FInv, FTyped
<1>6. JobOK(p)'
  BY <1>1, <1>2, <1>3, <1>4, <1>5 DEF JobOK
<1>7. /\ w = "tmp" => tmp[h] # NoFile
      /\ w = "disk" => disk[h] # NoFile
  BY <1>1 DEF FInv, FilesOK
<1>8. /\ tmp[h] \in (SUBSET Whole) \cup {NoFile} /\ disk[h] \in (SUBSET Whole) \cup {NoFile}
      /\ w = "tmp" => tmp[h] \cup {n} \in SUBSET Whole /\ tmp[h] \cup {n} # NoFile
      /\ w = "disk" => disk[h] \cup {n} \in SUBSET Whole /\ disk[h] \cup {n} # NoFile
  BY <1>3, <1>7, NotAFile DEF FInv, FTyped
<1>9. /\ tmp' \in [Keys -> (SUBSET Whole) \cup {NoFile}]
      /\ disk' \in [Keys -> (SUBSET Whole) \cup {NoFile}]
      /\ \A k \in Keys \ {h} : tmp'[k] = tmp[k] /\ disk'[k] = disk[k]
      /\ tmp'[h] = IF w = "tmp" THEN tmp[h] \cup {n} ELSE tmp[h]
      /\ disk'[h] = IF w = "disk" THEN disk[h] \cup {n} ELSE disk[h]
  BY <1>2, <1>8 DEF FInv, FTyped
<1>. HIDE DEF w
<1>10. /\ tmp'[h] # NoFile <=> tmp[h] # NoFile
       /\ disk'[h] # NoFile <=> disk[h] # NoFile
  BY <1>7, <1>8, <1>9
<1>11. ~handoff[h] => HolderOK(p, h)' /\ disk'[h] = disk[h]
  <2>1. SUFFICES ASSUME ~handoff[h] PROVE HolderOK(p, h)' /\ disk'[h] = disk[h]
    OBVIOUS
  <2>2. \/ w = "tmp" /\ tmp[h] = 1 .. job[p].got
        \/ w = "gone" /\ tmp[h] = NoFile
    BY <1>1, <1>2, <2>1 DEF HolderOK, w
  <2>3. (1 .. job[p].got) \cup {n} = 1 .. n
    BY <1>3
  <2>4. \/ w = "tmp" /\ tmp'[h] = 1 .. n
        \/ w = "gone" /\ tmp'[h] = NoFile
    BY <1>9, <2>2, <2>3
  <2>5. ~(n < Size) => n = Size
    BY <1>3 DEF Whole
  <2>6. disk'[h] = disk[h]
    BY <1>9, <2>2
  <2>7. HolderOK(p, h)'
    BY <1>4, <1>5, <2>4, <2>5 DEF HolderOK, Whole
  <2>. QED BY <2>6, <2>7
<1>. HIDE DEF n
<1>12. ~handoff[h] => disk'[h] \in {NoFile, Whole} /\ job'[p].step \notin BeforeCreate
  BY <1>4, <1>5, <1>11, HolderFiles DEF BeforeCreate
<1>13. ASSUME NEW q \in Procs, job'[q].file = h
       PROVE  /\ job'[q].writes = "tmp" => tmp[h] # NoFile
              /\ job'[q].writes = "disk" => disk[h] # NoFile
  <2>1. CASE q = p
    BY <1>4, <1>5, <1>7, <2>1
  <2>2. CASE q # p
    BY <1>5, <1>13, <2>2 DEF FInv, FilesOK
  <2>. QED BY <2>1, <2>2
<1>14. /\ tmp[h] # NoFile \/ disk[h] # NoFile => Folder[h] \in folders
       /\ (tmp[h] # NoFile \/ disk[h] # NoFile) /\ Folder[h] = look => h \in swept
  BY DEF FInv, FilesOK, LookInv
<1>15. \A q \in Procs \ {p} : Like(job'[q], job[q]) /\ job'[q] = job[q]
  BY <1>5 DEF Like
<1>16. /\ UNCHANGED <<vars, queue, folders, cleanVars, logged, dated, left>>
       /\ swept' = swept /\ job'[p].mark = job[p].mark
  BY <1>2, <1>4, <1>5
<1>. QED
  BY <1>5, <1>6, <1>9, <1>10, <1>11, <1>12, <1>13, <1>14, <1>15, <1>16, FileStep

\* One entry of the queue taken.
LEMMA FewerEntries ==
    ASSUME NEW q \in [Keys -> [0 .. LastRetry -> Nat]], NEW k \in Keys, NEW r \in 0 .. LastRetry,
           q[k][r] > 0
    PROVE  [q EXCEPT ![k][r] = @ - 1] \in [Keys -> [0 .. LastRetry -> Nat]]
<1>. DEFINE e == [q[k] EXCEPT ![r] = q[k][r] - 1]
<1>1. q[k] \in [0 .. LastRetry -> Nat] /\ q[k][r] \in Nat
  OBVIOUS
<1>2. e \in [0 .. LastRetry -> Nat]
  BY <1>1
<1>3. [q EXCEPT ![k][r] = @ - 1] = [q EXCEPT ![k] = e]
  OBVIOUS
<1>. HIDE DEF e
<1>. QED BY <1>2, <1>3

\* A step of the queue alone.
LEMMA QueueFInv ==
    ASSUME FInv, queue' \in [Keys -> [0 .. LastRetry -> Nat]],
           UNCHANGED <<vars, job, tmp, disk, folders, orphans, reap, look, logged, dated, swept, left>>
    PROVE  FInv'
<1>1. UNCHANGED <<pc, key, handoff>>
  BY DEF vars
<1>2. IInv'
  BY KeptIInv DEF FInv
<1>3. FTyped' /\ JobsOK' /\ FilesOK'
  BY <1>1 DEF FInv, FTyped, JobsOK, JobOK, FilesOK
<1>4. WholeInv'
  BY <1>1 DEF FInv, WholeInv, HolderOK, Holds
<1>5. ReapInv' /\ LookInv' /\ LoggedInv'
  BY <1>1 DEF FInv, ReapInv, LookInv, LoggedInv
<1>. QED BY <1>2, <1>3, <1>4, <1>5 DEF FInv

\* A step that leaves the files and what the holders do; it may add a holder that begins.
LEMMA SameHolders ==
    ASSUME FInv, UNCHANGED <<tmp, disk, handoff, left>>,
           dated \subseteq dated', swept \subseteq swept',
           \A q \in Procs, f \in Keys : Holds(q, f) =>
             /\ Holds(q, f)' /\ job'[q].step = job[q].step
             /\ job'[q].writes = job[q].writes /\ job'[q].got = job[q].got,
           \A q \in Procs, f \in Keys : Holds(q, f)' => Holds(q, f) \/ job'[q].step = "mark"
    PROVE  WholeInv'
<1>1. ASSUME NEW q \in Procs, NEW f \in Keys, Holds(q, f)', Holds(q, f) => HolderOK(q, f)
      PROVE  HolderOK(q, f)'
  BY <1>1 DEF HolderOK
<1>2. ASSUME NEW k \in Keys, ~handoff[k]
      PROVE  /\ disk[k] \in {NoFile, Whole}
             /\ \A q \in Procs : Holds(q, k)' => HolderOK(q, k)'
             /\ k \notin left /\ (\A q \in Procs : Holds(q, k)' => job'[q].step \in BeforeCreate)
                  => tmp[k] = NoFile
  BY <1>1, <1>2 DEF FInv, WholeInv
<1>. QED BY <1>2 DEF WholeInv

LEMMA PostFInv ==
    ASSUME FInv, NEW k \in Keys, Post(k)
    PROVE  FInv'
<1>1. /\ UNCHANGED <<vars, job, tmp, disk, folders, orphans, reap, look, logged, dated, swept, left>>
      /\ queue' = [queue EXCEPT ![k][0] = @ + 1]
  BY DEF Post, fileVars, cleanVars, history
<1>2. 0 \in 0 .. LastRetry
  BY PeerDownloadAssumption DEF LastRetry
<1>3. queue' \in [Keys -> [0 .. LastRetry -> Nat]]
  BY <1>1, <1>2, MoreEntries DEF FInv, FTyped
<1>. QED BY <1>1, <1>3, QueueFInv

LEMMA NeedlessFInv ==
    ASSUME FInv, NEW p \in Procs, NEW k \in Keys, NEW r \in 0 .. LastRetry, Needless(p, k, r)
    PROVE  FInv'
<1>1. /\ UNCHANGED <<vars, job, tmp, disk, folders, orphans, reap, look, logged, dated, swept, left>>
      /\ queue' = [queue EXCEPT ![k][r] = @ - 1] /\ queue[k][r] > 0
  BY DEF Needless, Taken, fileVars, cleanVars, history
<1>2. queue' \in [Keys -> [0 .. LastRetry -> Nat]]
  BY <1>1, FewerEntries DEF FInv, FTyped
<1>. QED BY <1>1, <1>2, QueueFInv

LEMMA BeginFInv ==
    ASSUME FInv, NEW p \in Procs, NEW k \in Keys, NEW r \in 0 .. LastRetry, Begin(p, k, r)
    PROVE  FInv'
<1>. DEFINE j == [NoJob EXCEPT !.step = "lock", !.file = k, !.retry = r + 1]
<1>1. /\ UNCHANGED <<vars, tmp, disk, orphans, reap, look, logged, dated, swept, left>>
      /\ queue' = [queue EXCEPT ![k][r] = @ - 1] /\ queue[k][r] > 0
      /\ job[p] = NoJob /\ r < LastRetry /\ folders' = folders \cup {Folder[k]}
      /\ job' = [job EXCEPT ![p] = j]
  BY DEF Begin, Taken, cleanVars, history
<1>2. queue' \in [Keys -> [0 .. LastRetry -> Nat]]
  BY <1>1, FewerEntries DEF FInv, FTyped
<1>3. /\ j \in Jobs /\ j.step = "lock" /\ j.file = k /\ j.got = 0 /\ j.writes = "none"
      /\ j.mark = "none"
  <2>1. r + 1 \in 0 .. LastRetry
    BY <1>1, PeerDownloadAssumption DEF LastRetry
  <2>2. NoJob \in Jobs /\ NoJob.got = 0 /\ NoJob.writes = "none" /\ NoJob.mark = "none"
    BY PeerDownloadAssumption DEF Jobs, Steps, NoJob, LastRetry
  <2>. HIDE DEF NoJob
  <2>. QED BY <2>1, <2>2 DEF Jobs, Steps
<1>. HIDE DEF j
<1>4. /\ job' \in [Procs -> Jobs] /\ job'[p] = j
      /\ \A q \in Procs \ {p} : job'[q] = job[q]
  BY <1>1, <1>3 DEF FInv, FTyped
<1>5. UNCHANGED <<pc, key, handoff>>
  BY <1>1 DEF vars
<1>6. JobOK(p) /\ job[p].step = "idle"
  BY <1>1 DEF FInv, JobsOK, NoJob
<1>7. pc[p] = "idle"
  BY <1>6 DEF JobOK
<1>8. IInv'
  BY <1>1, KeptIInv DEF FInv
<1>9. FTyped'
  BY <1>1, <1>2, <1>4 DEF FInv, FTyped
<1>10. JobsOK'
  <2>1. JobOK(p)'
    BY <1>3, <1>4, <1>5, <1>7 DEF JobOK
  <2>2. ASSUME NEW q \in Procs \ {p} PROVE JobOK(q)'
    BY <1>4, <1>5, <2>2 DEF FInv, JobsOK, JobOK
  <2>. QED BY <2>1, <2>2 DEF JobsOK
<1>11. FilesOK'
  BY <1>1, <1>3, <1>4 DEF FInv, FilesOK
<1>12. WholeInv'
  <2>1. \A q \in Procs, f \in Keys : Holds(q, f)' <=> Holds(q, f)
    BY <1>5 DEF Holds
  <2>2. \A q \in Procs, f \in Keys : Holds(q, f) => job'[q] = job[q]
    BY <1>4, <1>7 DEF Holds
  <2>. QED BY <1>1, <1>5, <2>1, <2>2, SameHolders
<1>13. ReapInv' /\ LookInv' /\ LoggedInv'
  BY <1>1, <1>3, <1>4, <1>5 DEF FInv, ReapInv, LookInv, LoggedInv
<1>. QED BY <1>8, <1>9, <1>10, <1>11, <1>12, <1>13 DEF FInv

LEMMA LockFInv ==
    ASSUME FInv, NEW p \in Procs, Lock(p)
    PROVE  FInv'
<1>. DEFINE j == [job[p] EXCEPT !.step = "mark"]
<1>1. /\ job[p].step = "lock" /\ job' = [job EXCEPT ![p] = j]
      /\ UNCHANGED <<queue, tmp, disk, folders, orphans, reap, look, logged, dated, swept, left>>
  BY DEF Lock, Goto, fileVars, cleanVars, history
<1>2. job[p] \in Jobs /\ JobOK(p)
  BY DEF FInv, FTyped, JobsOK
<1>3. PICK h \in Keys : job[p].file = h
  BY <1>1, <1>2 DEF JobOK
<1>4. LockNew(p, h) \/ LockFound(p, h)
  BY <1>3 DEF Lock
<1>5. IInv'
  BY <1>4, LockNewIInv, LockFoundIInv DEF FInv
<1>6. /\ key' = [key EXCEPT ![p] = h] /\ UNCHANGED handoff
      /\ \/ pc' = [pc EXCEPT ![p] = "crit"]
         \/ pc' = [pc EXCEPT ![p] = "wait"]
  BY <1>4 DEF LockNew, LockFound
<1>7. /\ key'[p] = h /\ pc'[p] \in {"crit", "wait"}
      /\ \A q \in Procs \ {p} : key'[q] = key[q] /\ pc'[q] = pc[q]
  BY <1>6 DEF FInv, IInv, TypeOK
<1>8. /\ j \in Jobs /\ j.step = "mark" /\ j.file = h /\ j.mark = "none"
      /\ j.got = 0 /\ j.writes = "none"
  BY <1>1, <1>2, <1>3 DEF Jobs, Steps, JobOK
<1>. HIDE DEF j
<1>9. /\ job' \in [Procs -> Jobs] /\ job'[p] = j
      /\ \A q \in Procs \ {p} : job'[q] = job[q]
  BY <1>1, <1>8 DEF FInv, FTyped
<1>10. pc[p] = "idle" /\ job[p].mark = "none" /\ job[p].writes = "none"
  BY <1>1, <1>2 DEF JobOK
<1>11. FTyped'
  BY <1>1, <1>9 DEF FInv, FTyped
<1>12. JobsOK'
  <2>1. JobOK(p)'
    BY <1>7, <1>8, <1>9 DEF JobOK
  <2>2. ASSUME NEW q \in Procs \ {p} PROVE JobOK(q)'
    BY <1>7, <1>9, <2>2 DEF FInv, JobsOK, JobOK
  <2>. QED BY <2>1, <2>2 DEF JobsOK
<1>13. FilesOK'
  BY <1>1, <1>8, <1>9 DEF FInv, FilesOK
<1>14. WholeInv'
  <2>1. ASSUME NEW q \in Procs, NEW f \in Keys, Holds(q, f)
        PROVE  Holds(q, f)' /\ job'[q] = job[q]
    BY <1>7, <1>9, <1>10, <2>1 DEF Holds
  <2>2. ASSUME NEW q \in Procs, NEW f \in Keys, Holds(q, f)'
        PROVE  Holds(q, f) \/ job'[q].step = "mark"
    BY <1>7, <1>8, <1>9, <2>2 DEF Holds
  <2>. QED BY <1>1, <1>6, <2>1, <2>2, SameHolders
<1>15. ReapInv'
  BY <1>1, <1>7, <1>8, <1>9 DEF FInv, ReapInv
<1>16. LookInv' /\ LoggedInv'
  BY <1>1, <1>6 DEF FInv, LookInv, LoggedInv
<1>. QED BY <1>5, <1>11, <1>12, <1>13, <1>14, <1>15, <1>16 DEF FInv

LEMMA EnterFInv ==
    ASSUME FInv, NEW p \in Procs, FetchEnter(p)
    PROVE  FInv'
<1>1. /\ Acquire(p)
      /\ UNCHANGED <<queue, job, tmp, disk, folders, orphans, reap, look, logged, dated, swept, left>>
  BY DEF FetchEnter, fileVars, cleanVars, history
<1>2. pc[p] = "wait" /\ pc' = [pc EXCEPT ![p] = "crit"] /\ UNCHANGED <<key, handoff>>
  BY <1>1 DEF Acquire
<1>3. pc'[p] = "crit" /\ \A q \in Procs \ {p} : pc'[q] = pc[q]
  BY <1>2 DEF FInv, IInv, TypeOK
<1>4. JobOK(p) /\ job[p].step = "mark"
  BY <1>2 DEF FInv, JobsOK, JobOK
<1>5. IInv'
  BY <1>1, AcquireIInv DEF FInv
<1>6. FTyped' /\ FilesOK'
  BY <1>1 DEF FInv, FTyped, FilesOK
<1>7. JobsOK'
  <2>1. JobOK(p)'
    BY <1>1, <1>2, <1>3, <1>4 DEF JobOK
  <2>2. ASSUME NEW q \in Procs \ {p} PROVE JobOK(q)'
    BY <1>1, <1>2, <1>3, <2>2 DEF FInv, JobsOK, JobOK
  <2>. QED BY <2>1, <2>2 DEF JobsOK
<1>8. WholeInv'
  <2>1. ASSUME NEW q \in Procs, NEW f \in Keys, Holds(q, f)
        PROVE  Holds(q, f)' /\ job'[q] = job[q]
    BY <1>1, <1>2, <1>3, <2>1 DEF Holds
  <2>2. ASSUME NEW q \in Procs, NEW f \in Keys, Holds(q, f)'
        PROVE  Holds(q, f) \/ job'[q].step = "mark"
    BY <1>1, <1>2, <1>3, <1>4, <2>2 DEF Holds
  <2>. QED BY <1>1, <1>2, <2>1, <2>2, SameHolders
<1>9. ReapInv' /\ LookInv' /\ LoggedInv'
  BY <1>1, <1>2 DEF FInv, ReapInv, LookInv, LoggedInv
<1>. QED BY <1>5, <1>6, <1>7, <1>8, <1>9 DEF FInv

LEMMA UnlockFInv ==
    ASSUME FInv, NEW p \in Procs, NEW h \in Keys, Holds(p, h), Unlock(p)
    PROVE  FInv'
<1>1. /\ UnLockKey(p) /\ job[p].step = "unlock" /\ job' = [job EXCEPT ![p] = NoJob]
      /\ UNCHANGED <<queue, tmp, disk, folders, orphans, reap, look, logged, dated, swept, left>>
  BY DEF Unlock, At, fileVars, cleanVars, history
<1>2. /\ job[p] \in Jobs /\ JobOK(p) /\ pc[p] = "crit" /\ key[p] = h
      /\ ~handoff[h] => HolderOK(p, h)
  BY CritJob DEF Holds
<1>3. /\ pc' = [pc EXCEPT ![p] = "idle"] /\ key' = [key EXCEPT ![p] = NoKey]
      /\ handoff' = [handoff EXCEPT ![h] =
                       @ \/ \E q \in Procs \ {p} : pc[q] = "wait" /\ key[q] = h]
  BY <1>1, <1>2 DEF UnLockKey
<1>4. /\ pc'[p] = "idle" /\ key'[p] = NoKey
      /\ \A q \in Procs \ {p} : key'[q] = key[q] /\ pc'[q] = pc[q]
      /\ \A k \in Keys : handoff[k] => handoff'[k]
  BY <1>3 DEF FInv, IInv, TypeOK
<1>5. IInv'
  BY <1>1, UnLockKeyIInv DEF FInv
<1>6. /\ NoJob \in Jobs /\ NoJob.step = "idle" /\ NoJob.mark = "none"
      /\ NoJob.got = 0 /\ NoJob.writes = "none"
  BY PeerDownloadAssumption DEF Jobs, Steps, NoJob, LastRetry
<1>7. /\ job' \in [Procs -> Jobs] /\ job'[p] = NoJob
      /\ \A q \in Procs \ {p} : job'[q] = job[q]
  BY <1>1, <1>6 DEF FInv, FTyped
<1>8. FTyped'
  BY <1>1, <1>7 DEF FInv, FTyped
<1>9. JobsOK'
  <2>1. JobOK(p)'
    BY <1>4, <1>6, <1>7 DEF JobOK
  <2>2. ASSUME NEW q \in Procs \ {p} PROVE JobOK(q)'
    BY <1>4, <1>7, <2>2 DEF FInv, JobsOK, JobOK
  <2>. QED BY <2>1, <2>2 DEF JobsOK
<1>10. FilesOK'
  BY <1>1, <1>6, <1>7 DEF FInv, FilesOK
<1>11. WholeInv'
  <2>1. SUFFICES ASSUME NEW k \in Keys, ~handoff'[k]
                 PROVE  /\ disk[k] \in {NoFile, Whole}
                        /\ \A q \in Procs : Holds(q, k)' => HolderOK(q, k)'
                        /\ k \notin left /\ (\A q \in Procs : Holds(q, k)' => job'[q].step \in BeforeCreate)
                             => tmp[k] = NoFile
    BY <1>1 DEF WholeInv
  <2>2. /\ ~handoff[k] /\ disk[k] \in {NoFile, Whole}
        /\ \A q \in Procs : Holds(q, k) => HolderOK(q, k)
        /\ k \notin left /\ (\A q \in Procs : Holds(q, k) => job[q].step \in BeforeCreate)
             => tmp[k] = NoFile
    BY <1>4, <2>1 DEF FInv, WholeInv
  <2>3. ASSUME NEW q \in Procs, Holds(q, k)' PROVE q # p /\ Holds(q, k) /\ job'[q] = job[q]
    BY <1>4, <1>7, <2>3 DEF Holds
  <2>4. ASSUME NEW q \in Procs, Holds(q, k)' PROVE HolderOK(q, k)'
    BY <1>1, <2>2, <2>3, <2>4 DEF HolderOK
  <2>5. CASE k = h
    BY <1>1, <1>2, <2>2, <2>4, <2>5 DEF HolderOK
  <2>6. CASE k # h
    <3>1. ASSUME NEW q \in Procs, Holds(q, k) PROVE Holds(q, k)' /\ job'[q] = job[q]
      BY <1>2, <1>4, <1>7, <2>6, <3>1 DEF Holds
    <3>. QED BY <2>2, <2>4, <3>1
  <2>. QED BY <2>5, <2>6
<1>12. ReapInv'
  BY <1>1, <1>4, <1>6, <1>7 DEF FInv, ReapInv
<1>13. LookInv' /\ LoggedInv'
  BY <1>1, <1>4 DEF FInv, FTyped, LookInv, LoggedInv
<1>. QED BY <1>5, <1>8, <1>9, <1>10, <1>11, <1>12, <1>13 DEF FInv

\* A step that changes marks and history at most.
LEMMA MarksFInv ==
    ASSUME FInv, UNCHANGED <<vars, queue, tmp, disk, folders, logged, swept, left>>,
           job' \in [Procs -> Jobs],
           \A q \in Procs : /\ job'[q] = job[q] \/ pc[q] = "crit"
                            /\ job'[q].mark # job[q].mark => job[q].mark # "none"
                            /\ job'[q] = [job[q] EXCEPT !.mark = job'[q].mark],
           dated \subseteq dated', dated' \subseteq Keys,
           orphans' \subseteq Keys \X {"new", "old"}, reap' \subseteq Plain,
           ReapInv', LookInv'
    PROVE  FInv'
<1>1. UNCHANGED <<pc, key, handoff>>
  BY DEF vars
<1>2. \A q \in Procs : /\ job'[q].step = job[q].step /\ job'[q].file = job[q].file
                       /\ job'[q].got = job[q].got /\ job'[q].writes = job[q].writes
  BY DEF FInv, FTyped, Jobs
<1>3. IInv'
  BY KeptIInv DEF FInv
<1>4. FTyped'
  BY DEF FInv, FTyped
<1>5. JobsOK'
  BY <1>1, <1>2 DEF FInv, JobsOK, JobOK
<1>6. FilesOK'
  BY <1>2 DEF FInv, FilesOK
<1>7. WholeInv'
  BY <1>1, <1>2, SameHolders DEF Holds
<1>8. LoggedInv'
  BY <1>1 DEF FInv, LoggedInv
<1>. QED BY <1>3, <1>4, <1>5, <1>6, <1>7, <1>8 DEF FInv

LEMMA AgeFInv ==
    ASSUME FInv, NEW p \in Procs, Age(p)
    PROVE  FInv'
<1>. DEFINE j == [job[p] EXCEPT !.mark = "old"]
<1>1. /\ UNCHANGED <<vars, queue, tmp, disk, folders, orphans, reap, look, logged, swept, left, pc, key>>
      /\ job[p].mark = "new" /\ job' = [job EXCEPT ![p] = j]
      /\ dated' = dated \cup {key[p]}
  BY DEF Age, fileVars, cleanVars, vars
<1>2. job[p] \in Jobs /\ JobOK(p)
  BY DEF FInv, FTyped, JobsOK
<1>3. pc[p] = "crit" /\ key[p] \in Keys
  BY <1>1, <1>2 DEF JobOK, FInv, IInv, TypeOK, CallState
<1>4. j \in Jobs /\ j.mark = "old" /\ j = [job[p] EXCEPT !.mark = j.mark]
  BY <1>2 DEF Jobs
<1>. HIDE DEF j
<1>5. /\ job' \in [Procs -> Jobs] /\ job'[p] = j
      /\ \A q \in Procs \ {p} : job'[q] = job[q]
  BY <1>1, <1>4 DEF FInv, FTyped
<1>6. ASSUME NEW q \in Procs
      PROVE  /\ job'[q] = job[q] \/ pc[q] = "crit"
             /\ job'[q].mark # job[q].mark => job[q].mark # "none"
             /\ job'[q] = [job[q] EXCEPT !.mark = job'[q].mark]
  <2>1. CASE q = p
    BY <1>1, <1>3, <1>4, <1>5, <2>1
  <2>2. CASE q # p
    <3>1. job'[q] = job[q] /\ job[q] \in Jobs
      BY <1>5, <2>2 DEF FInv, FTyped
    <3>. QED BY <3>1 DEF Jobs
  <2>. QED BY <2>1, <2>2
<1>7. ReapInv'
  BY <1>1, <1>5 DEF FInv, ReapInv
<1>8. LookInv'
  BY <1>1 DEF FInv, LookInv
<1>9. /\ orphans' \subseteq Keys \X {"new", "old"} /\ reap' \subseteq Plain
      /\ dated \subseteq dated' /\ dated' \subseteq Keys
  BY <1>1, <1>3 DEF FInv, FTyped
<1>. QED BY <1>1, <1>5, <1>6, <1>7, <1>8, <1>9, MarksFInv

\* A step of the cleaning that touches no job.
LEMMA SameMarks ==
    ASSUME FInv, job' = job
    PROVE  /\ job' \in [Procs -> Jobs]
           /\ \A q \in Procs : /\ job'[q] = job[q]
                               /\ job'[q] = [job[q] EXCEPT !.mark = job'[q].mark]
BY DEF FInv, FTyped, Jobs

LEMMA AgeOrphanFInv ==
    ASSUME FInv, NEW k \in Keys, AgeOrphan(k)
    PROVE  FInv'
<1>1. /\ UNCHANGED <<vars, queue, job, tmp, disk, folders, reap, look, logged, swept, left, key>>
      /\ orphans' = (orphans \ {<<k, "new">>}) \cup {<<k, "old">>}
      /\ dated' = dated \cup {k}
  BY DEF AgeOrphan, fileVars, vars
<1>2. ReapInv'
  BY <1>1 DEF FInv, ReapInv
<1>3. LookInv'
  BY <1>1 DEF FInv, LookInv
<1>4. /\ orphans' \subseteq Keys \X {"new", "old"} /\ reap' \subseteq Plain
      /\ dated \subseteq dated' /\ dated' \subseteq Keys
  BY <1>1 DEF FInv, FTyped
<1>. QED BY <1>1, <1>2, <1>3, <1>4, SameMarks, MarksFInv

LEMMA ReadMarksFInv ==
    ASSUME FInv, ReadMarks
    PROVE  FInv'
<1>1. /\ UNCHANGED <<vars, queue, job, tmp, disk, folders, orphans, look, logged, dated, swept, left, key>>
      /\ reap' = {k \in Plain : \/ <<k, "old">> \in orphans
                                \/ \E p \in Procs : key[p] = k /\ job[p].mark = "old"}
  BY DEF ReadMarks, fileVars, history, vars
<1>2. ReapInv'
  BY <1>1, PeerDownloadAssumption DEF FInv, ReapInv
<1>3. LookInv'
  BY <1>1 DEF FInv, LookInv
<1>4. /\ orphans' \subseteq Keys \X {"new", "old"} /\ reap' \subseteq Plain
      /\ dated \subseteq dated' /\ dated' \subseteq Keys
  BY <1>1 DEF FInv, FTyped
<1>. QED BY <1>1, <1>2, <1>3, <1>4, SameMarks, MarksFInv

LEMMA LookEmptyFInv ==
    ASSUME FInv, NEW d \in Folders, LookEmpty(d)
    PROVE  FInv'
<1>1. /\ UNCHANGED <<vars, queue, job, tmp, disk, folders, orphans, reap, logged, dated, swept, left, key>>
      /\ look' = d /\ FilesIn(d) = {}
  BY DEF LookEmpty, fileVars, history, vars
<1>2. ReapInv'
  BY <1>1 DEF FInv, ReapInv
<1>3. LookInv'
  BY <1>1 DEF LookInv, FilesIn
<1>4. /\ orphans' \subseteq Keys \X {"new", "old"} /\ reap' \subseteq Plain
      /\ dated \subseteq dated' /\ dated' \subseteq Keys
  BY <1>1 DEF FInv, FTyped
<1>. QED BY <1>1, <1>2, <1>3, <1>4, SameMarks, MarksFInv

\* Files are gone, and nobody who holds the lock of one of them says otherwise.
LEMMA FilesGone ==
    ASSUME FInv, NEW gone \in SUBSET Keys,
           UNCHANGED <<vars, queue, orphans, logged, history>>, reap' \subseteq reap,
           tmp' \in [Keys -> (SUBSET Whole) \cup {NoFile}],
           \A k \in Keys : \/ tmp'[k] = tmp[k]
                           \/ k \in gone /\ tmp'[k] = NoFile,
           disk' = [k \in Keys |-> IF k \in gone THEN NoFile ELSE disk[k]],
           \A k \in gone : disk[k] # NoFile => k \in dated \cup swept,
           job' \in [Procs -> Jobs],
           \A q \in Procs :
             /\ Like(job'[q], job[q])
             /\ \/ job'[q] = job[q]
                \/ job'[q].writes = "gone" /\ (job[q].writes = "tmp" => tmp'[job[q].file] = NoFile)
             /\ job'[q].writes = "tmp" => tmp'[job[q].file] # NoFile
             /\ job'[q].writes = "disk" => job[q].file \notin gone,
           \A k \in Keys : tmp'[k] # NoFile \/ disk'[k] # NoFile => Folder[k] \in folders',
           LookInv'
    PROVE  FInv'
<1>1. UNCHANGED <<pc, key, handoff, dated, swept, left>>
  BY DEF vars, history
<1>2. /\ disk' \in [Keys -> (SUBSET Whole) \cup {NoFile}]
      /\ \A k \in Keys : disk'[k] = IF k \in gone THEN NoFile ELSE disk[k]
  BY DEF FInv, FTyped
<1>3. IInv'
  BY KeptIInv DEF FInv
<1>4. FTyped'
  BY <1>1, <1>2 DEF FInv, FTyped
<1>5. JobsOK'
  BY <1>1 DEF FInv, JobsOK, JobOK, Like
<1>6. FilesOK'
  <2>1. ASSUME NEW q \in Procs, job'[q].writes = "disk" PROVE disk'[job[q].file] # NoFile
    <3>1. job[q].writes = "disk" /\ job[q].file \notin gone
      BY <2>1
    <3>2. job[q].file \in Keys
      <4>1. JobOK(q) /\ job[q].file = key[q] /\ key[q] # NoKey
        BY <3>1 DEF FInv, JobsOK, JobOK, IInv, CallState
      <4>. QED BY <4>1 DEF FInv, IInv, TypeOK
    <3>. QED BY <1>2, <3>1, <3>2 DEF FInv, FilesOK
  <2>. QED BY <2>1 DEF FilesOK, Like
<1>7. WholeInv'
  <2>1. SUFFICES ASSUME NEW k \in Keys, ~handoff[k]
                 PROVE  /\ disk'[k] \in {NoFile, Whole}
                        /\ \A q \in Procs : Holds(q, k) => HolderOK(q, k)'
                        /\ k \notin left /\ (\A q \in Procs : Holds(q, k) => job'[q].step \in BeforeCreate)
                             => tmp'[k] = NoFile
    BY <1>1 DEF WholeInv, Holds
  <2>2. /\ disk[k] \in {NoFile, Whole}
        /\ \A q \in Procs : Holds(q, k) => HolderOK(q, k)
        /\ k \notin left /\ (\A q \in Procs : Holds(q, k) => job[q].step \in BeforeCreate)
             => tmp[k] = NoFile
    BY <2>1 DEF FInv, WholeInv
  <2>3. tmp'[k] = tmp[k] \/ tmp'[k] = NoFile
    OBVIOUS
  <2>4. ASSUME NEW q \in Procs, Holds(q, k) PROVE HolderOK(q, k)'
    <3>1. HolderOK(q, k) /\ job[q].file = k
      BY <2>2, <2>4, CritJob DEF Holds
    <3>2. job'[q].step = job[q].step /\ job'[q].got = job[q].got
      BY DEF Like
    <3>3. job[q].step = "copy" => \/ job'[q].writes = "tmp" /\ tmp'[k] = 1 .. job[q].got
                                  \/ job'[q].writes = "gone" /\ tmp'[k] = NoFile
      BY <2>3, <3>1 DEF HolderOK
    <3>4. job[q].step = "log" /\ k \notin dated \cup swept => disk'[k] = Whole
      BY <1>2, <3>1, PeerDownloadAssumption DEF HolderOK, Whole
    <3>. QED BY <1>1, <2>3, <3>1, <3>2, <3>3, <3>4 DEF HolderOK
  <2>5. \A q \in Procs : job'[q].step = job[q].step
    BY DEF Like
  <2>. QED BY <1>2, <2>2, <2>3, <2>4, <2>5
<1>8. ReapInv'
  BY <1>1 DEF FInv, ReapInv, Like
<1>9. LoggedInv'
  BY <1>1, <1>2, PeerDownloadAssumption DEF FInv, FTyped, LoggedInv, Whole
<1>. QED BY <1>3, <1>4, <1>5, <1>6, <1>7, <1>8, <1>9 DEF FInv

LEMMA RemoveTargetFInv ==
    ASSUME FInv, NEW k \in Keys, RemoveTarget(k)
    PROVE  FInv'
<1>1. /\ UNCHANGED <<vars, queue, tmp, folders, orphans, look, logged, history, swept>>
      /\ k \in reap /\ reap' = reap \ {k} /\ disk' = [disk EXCEPT ![k] = NoFile]
      /\ job' = Moved(job, k, "disk", "gone")
  BY DEF RemoveTarget, history
<1>2. /\ job' \in [Procs -> Jobs]
      /\ \A q \in Procs : /\ Like(job'[q], job[q])
                          /\ IF job[q].file = k /\ job[q].writes = "disk"
                             THEN job'[q].writes = "gone" ELSE job'[q] = job[q]
  BY <1>1, MovedJobs DEF FInv, FTyped
<1>3. /\ disk' = [f \in Keys |-> IF f \in {k} THEN NoFile ELSE disk[f]]
      /\ tmp' \in [Keys -> (SUBSET Whole) \cup {NoFile}]
  BY <1>1 DEF FInv, FTyped
<1>4. k \in dated
  BY <1>1 DEF FInv, ReapInv
<1>5. ASSUME NEW q \in Procs
      PROVE  /\ Like(job'[q], job[q])
             /\ \/ job'[q] = job[q]
                \/ job'[q].writes = "gone" /\ (job[q].writes = "tmp" => tmp'[job[q].file] = NoFile)
             /\ job'[q].writes = "tmp" => tmp'[job[q].file] # NoFile
             /\ job'[q].writes = "disk" => job[q].file \notin {k}
  BY <1>1, <1>2 DEF FInv, FilesOK
<1>6. LookInv' /\ \A f \in Keys : tmp'[f] # NoFile \/ disk'[f] # NoFile => Folder[f] \in folders'
  BY <1>1, <1>3 DEF FInv, FilesOK, LookInv
<1>7. {k} \in SUBSET Keys /\ reap' \subseteq reap /\ \A f \in Keys : tmp'[f] = tmp[f]
  BY <1>1
<1>. QED BY <1>1, <1>2, <1>3, <1>4, <1>5, <1>6, <1>7, FilesGone

LEMMA RemoveAllFInv ==
    ASSUME FInv, RemoveAll
    PROVE  FInv'
<1>. DEFINE gone == {k \in Keys : Folder[k] = look}
<1>1. /\ UNCHANGED <<vars, queue, orphans, reap, logged, history, swept>>
      /\ folders' = folders \ {look} /\ look' = NoFolder
      /\ tmp' = [k \in Keys |-> IF Folder[k] = look THEN NoFile ELSE tmp[k]]
      /\ disk' = [k \in Keys |-> IF Folder[k] = look THEN NoFile ELSE disk[k]]
      /\ job' = [p \in Procs |-> IF job[p].writes # "none" /\ Folder[job[p].file] = look
                                 THEN [job[p] EXCEPT !.writes = "gone"] ELSE job[p]]
  BY DEF RemoveAll, history
<1>2. /\ tmp' \in [Keys -> (SUBSET Whole) \cup {NoFile}]
      /\ \A k \in Keys : tmp'[k] = IF k \in gone THEN NoFile ELSE tmp[k]
      /\ disk' = [k \in Keys |-> IF k \in gone THEN NoFile ELSE disk[k]]
  BY <1>1 DEF FInv, FTyped
<1>3. \A k \in gone : disk[k] # NoFile => k \in dated \cup swept
  BY DEF FInv, LookInv
<1>4. /\ job' \in [Procs -> Jobs]
      /\ \A q \in Procs : /\ Like(job'[q], job[q])
                          /\ IF job[q].writes # "none" /\ Folder[job[q].file] = look
                             THEN job'[q].writes = "gone" ELSE job'[q] = job[q]
  <2>1. ASSUME NEW q \in Procs
        PROVE  /\ job'[q] \in Jobs /\ Like(job'[q], job[q])
               /\ IF job[q].writes # "none" /\ Folder[job[q].file] = look
                  THEN job'[q].writes = "gone" ELSE job'[q] = job[q]
    <3>1. job[q] \in Jobs
      BY DEF FInv, FTyped
    <3>2. CASE job[q].writes # "none" /\ Folder[job[q].file] = look
      <4>1. job'[q] = [job[q] EXCEPT !.writes = "gone"]
        BY <1>1, <3>2
      <4>. QED BY <3>1, <3>2, <4>1 DEF Jobs, Like
    <3>3. CASE ~(job[q].writes # "none" /\ Folder[job[q].file] = look)
      <4>1. job'[q] = job[q]
        BY <1>1, <3>3
      <4>. QED BY <3>1, <3>3, <4>1 DEF Like
    <3>. QED BY <3>2, <3>3
  <2>2. job' \in [Procs -> Jobs]
    BY <1>1, <2>1
  <2>. QED BY <2>1, <2>2
<1>5. ASSUME NEW q \in Procs
      PROVE  /\ Like(job'[q], job[q])
             /\ \/ job'[q] = job[q]
                \/ job'[q].writes = "gone" /\ (job[q].writes = "tmp" => tmp'[job[q].file] = NoFile)
             /\ job'[q].writes = "tmp" => tmp'[job[q].file] # NoFile
             /\ job'[q].writes = "disk" => job[q].file \notin gone
  <2>1. job[q].writes # "none" => job[q].file \in Keys
    <3>1. JobOK(q)
      BY DEF FInv, JobsOK
    <3>. QED BY <3>1 DEF JobOK, FInv, IInv, TypeOK, CallState
  <2>. QED BY <1>2, <1>4, <2>1 DEF FInv, FilesOK
<1>6. \A k \in Keys : tmp'[k] # NoFile \/ disk'[k] # NoFile => Folder[k] \in folders'
  BY <1>1, <1>2 DEF FInv, FilesOK
<1>7. LookInv'
  BY <1>1, PeerDownloadAssumption DEF LookInv
<1>8. gone \in SUBSET Keys /\ reap' \subseteq reap
  BY <1>1
<1>. HIDE DEF gone
<1>9. \A k \in Keys : \/ tmp'[k] = tmp[k]
                      \/ k \in gone /\ tmp'[k] = NoFile
  BY <1>2
<1>10. UNCHANGED <<vars, queue, orphans, logged, history>> /\ job' \in [Procs -> Jobs]
  BY <1>1, <1>4
<1>. QED BY <1>2, <1>3, <1>5, <1>6, <1>7, <1>8, <1>9, <1>10, FilesGone

LEMMA CrashFInv ==
    ASSUME FInv, FetchCrash
    PROVE  FInv'
<1>1. /\ UNCHANGED <<handoff, tmp, disk, folders, logged, dated, swept>>
      /\ pc' = [p \in Procs |-> "idle"] /\ key' = [p \in Procs |-> NoKey]
      /\ queue' = [k \in Keys |-> NoEntries] /\ job' = [p \in Procs |-> NoJob]
      /\ orphans' = orphans \cup {<<key[p], job[p].mark>> : p \in {q \in Procs : job[q].mark # "none"}}
      /\ reap' = {} /\ look' = NoFolder
      /\ left' = left \cup {key[p] : p \in {q \in Procs : pc[q] = "crit"}}
  BY DEF FetchCrash, fileVars
<1>2. IInv'
  BY NoMutexAssumption, NoKeyAssumption
     DEF FetchCrash, FInv, IInv, TypeOK, FlagIsSlot, CallState, NoFatalUnlock,
         OneMutexUntilHandoff, Holds
<1>3. /\ NoJob \in Jobs /\ NoJob.step = "idle" /\ NoJob.mark = "none"
      /\ NoJob.got = 0 /\ NoJob.writes = "none"
  BY PeerDownloadAssumption DEF Jobs, Steps, NoJob, LastRetry
<1>4. ASSUME NEW p \in Procs, job[p].mark # "none"
      PROVE  key[p] \in Keys /\ job[p].mark \in {"new", "old"}
  BY <1>4 DEF FInv, FTyped, Jobs, JobsOK, JobOK, IInv, TypeOK, CallState
<1>5. ASSUME NEW p \in Procs, pc[p] = "crit" PROVE key[p] \in Keys
  BY <1>5 DEF FInv, IInv, TypeOK, CallState
<1>6. FTyped'
  <2>1. queue' \in [Keys -> [0 .. LastRetry -> Nat]]
    BY <1>1 DEF NoEntries
  <2>2. job' \in [Procs -> Jobs]
    BY <1>1, <1>3
  <2>3. orphans' \subseteq Keys \X {"new", "old"}
    BY <1>1, <1>4 DEF FInv, FTyped
  <2>4. left' \subseteq Keys
    BY <1>1, <1>5 DEF FInv, FTyped
  <2>. QED BY <1>1, <2>1, <2>2, <2>3, <2>4 DEF FInv, FTyped
<1>7. JobsOK' /\ FilesOK'
  BY <1>1, <1>3 DEF FInv, JobsOK, JobOK, FilesOK
<1>8. WholeInv'
  <2>1. \A q \in Procs, k \in Keys : ~Holds(q, k)'
    BY <1>1 DEF Holds
  <2>2. ASSUME NEW k \in Keys, ~handoff[k], k \notin left' PROVE tmp[k] = NoFile
    <3>1. \A q \in Procs : ~Holds(q, k)
      BY <1>1, <2>2 DEF Holds
    <3>. QED BY <1>1, <2>2, <3>1 DEF FInv, WholeInv
  <2>. QED BY <1>1, <2>1, <2>2 DEF FInv, WholeInv
<1>9. ReapInv'
  <2>1. ASSUME NEW k \in Keys, <<k, "old">> \in orphans' PROVE k \in dated
    <3>1. CASE <<k, "old">> \in orphans
      BY <3>1 DEF FInv, ReapInv
    <3>2. CASE <<k, "old">> \notin orphans
      <4>1. PICK p \in Procs : <<k, "old">> = <<key[p], job[p].mark>>
        BY <1>1, <2>1, <3>2
      <4>. QED BY <4>1 DEF FInv, ReapInv
    <3>. QED BY <3>1, <3>2
  <2>. QED BY <1>1, <1>3, <2>1 DEF ReapInv
<1>10. LookInv' /\ LoggedInv'
  BY <1>1, PeerDownloadAssumption DEF FInv, LookInv, LoggedInv
<1>. QED BY <1>2, <1>6, <1>7, <1>8, <1>9, <1>10 DEF FInv

\* What p does in its critical section.
LEMMA HolderFInv ==
    ASSUME FInv, NEW p \in Procs,
           \/ PutMark(p) \/ Answered(p) \/ Create(p) \/ CreateFails(p) \/ Copy(p)
           \/ Drop(p) \/ SizeRight(p) \/ SizeWrong(p) \/ Rename(p) \/ RenameFails(p)
           \/ Log(p) \/ Unmark(p) \/ Unlock(p) \/ ErrorPage(p) \/ Breaks(p)
    PROVE  FInv'
<1>1. pc[p] = "crit"
  BY DEF PutMark, Answered, Create, CreateFails, Copy, Drop, SizeRight, SizeWrong, Rename,
         RenameFails, Log, Unmark, Unlock, ErrorPage, Breaks, At
<1>2. PICK h \in Keys : Holds(p, h)
  BY <1>1, CritJob
<1>. QED
  BY <1>2, PutMarkFInv, AnsweredFInv, CreateFInv, CreateFailsFInv, CopyFInv, DropFInv,
     SizeRightFInv, RenameFInv, RenameFailsFInv, LogFInv, UnmarkFInv, UnlockFInv,
     ErrorPageFInv, BreaksFInv

\* The inductive invariant of DownloadFromPeer: the invariant of the lock, what a
\* worker does and the files there are to it, and how each loss comes about.
THEOREM FetchInvariance == FetchSpec => []FInv
<1>1. FInv /\ [FetchNext]_fetchVars => FInv'
  <2>1. SUFFICES ASSUME FInv, [FetchNext]_fetchVars PROVE FInv'
    OBVIOUS
  <2>2. ASSUME NEW p \in Procs, Take(p) PROVE FInv'
    BY <2>1, <2>2, NeedlessFInv, BeginFInv DEF Take
  <2>3. ASSUME NEW p \in Procs, FetchEnter(p) \/ Step(p) \/ ErrorPage(p) \/ Breaks(p) PROVE FInv'
    BY <2>1, <2>3, EnterFInv, LockFInv, HolderFInv DEF Step
  <2>4. CASE Clean
    BY <2>1, <2>4, AgeFInv, AgeOrphanFInv, RemoveTargetFInv, ReadMarksFInv, LookEmptyFInv,
       RemoveAllFInv DEF Clean
  <2>5. CASE UNCHANGED fetchVars
    BY <2>1, <2>5, QueueFInv DEF fetchVars, fileVars, cleanVars, history, FInv, FTyped
  <2>. QED BY <2>1, <2>2, <2>3, <2>4, <2>5, PostFInv, CrashFInv DEF FetchNext
<1>. QED BY InitFInv, <1>1, PTL DEF FetchSpec

\* Types; a descriptor is open only while its holder copies, a downloading_ entry
\* belongs to a holder, and a file stands in a folder that is there.
THEOREM FetchTypeCorrect == FetchSpec => []FetchTypeOK
<1>1. FInv => FetchTypeOK
  <2>1. SUFFICES ASSUME FInv PROVE FetchTypeOK
    OBVIOUS
  <2>2. ASSUME NEW k \in Keys, NEW content \in {tmp[k], disk[k]} \ {NoFile}
        PROVE  content \subseteq Whole
    BY <2>1, <2>2 DEF FInv, FTyped
  <2>3. ASSUME NEW p \in Procs
        PROVE  /\ job[p].retry \in 0 .. LastRetry /\ job[p].got \in 0 .. Size
               /\ pc[p] # "idle" => job[p].file = key[p]
               /\ job[p].mark # "none" => pc[p] = "crit"
               /\ job[p].writes # "none" => At(p, "copy")
    <3>1. job[p] \in Jobs /\ JobOK(p) /\ pc[p] \in {"idle", "wait", "crit"}
      BY <2>1 DEF FInv, FTyped, JobsOK, IInv, TypeOK
    <3>. QED BY <3>1 DEF Jobs, JobOK, At
  <2>. QED BY <2>1, <2>2, <2>3 DEF FInv, FTyped, FilesOK, IInv, FetchTypeOK
<1>. QED BY FetchInvariance, <1>1, PTL

\* Until a handoff of its path, what DownloadFromPeer leaves under the name of a
\* file is all of it, and no temporary file stays but after a crash; over broken
\* connections, error pages, retries, cleaning and crashes.
THEOREM WholeOnDisk == FetchSpec => []WholeUntilHandoff
<1>1. FInv => WholeUntilHandoff
  BY DEF FInv, WholeInv, Holds, WholeUntilHandoff
<1>. QED BY FetchInvariance, <1>1, PTL

\* A download that was recorded stays, but for a handoff, an entry older than ten
\* minutes that RemoveDownloading reads, or a folder swept at the start.
THEOREM LoggedIsKept == FetchSpec => []LoggedStays
<1>1. FInv => LoggedStays
  <2>1. Size \in Whole /\ Whole # NoFile
    BY PeerDownloadAssumption DEF Whole
  <2>. QED BY <2>1 DEF FInv, LoggedInv, LoggedStays, InSize
<1>. QED BY FetchInvariance, <1>1, PTL
=============================================================================

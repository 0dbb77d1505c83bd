--------------------------- MODULE WebFilesProofs ---------------------------
(***************************************************************************)
(* Proofs about the file page, for any clusters, folders, files, switches, *)
(* deletions and failures. The loader keeps one listing on its way and no  *)
(* dialog beside it (OneListing); all else follows a listing or a deletion *)
(* from the click to the answer.                                           *)
(***************************************************************************)
EXTENDS WebFiles, FiniteSetTheorems, TLAPS

OneListing ==
    /\ loaders \in {0, 1}
    /\ listings # {} => loaders = 1
    /\ \A l, k \in listings : l = k
    /\ confirm # NoFile => loaders = 0

AskedInv ==
    /\ \A l \in listings : l.list.dir = asked
    /\ LastAskedShown

\* What was seen in the present epoch is of the present cluster.
Dated(r) == r.epoch <= epoch /\ (r.epoch = epoch => r.cluster = cluster)

EpochInv ==
    /\ Dated(list)
    /\ \A l \in listings : Dated(l.list)
    /\ \A d \in confirmed : Dated(d)

DeletionInv ==
    /\ \A x \in deletes : \E d \in confirmed : d.file = x.file
    /\ DeletedAsConfirmed

\* Files the server deleted and the page has not heard of.
Gone == {x.file : x \in {y \in deletes : y.state = "ok"}}

\* A list asked for alone is still alone when it arrives, so that all deletions
\* beside it are of its own rows; but for those it is what the folder holds.
CurrentInv ==
    /\ \A l \in listings :
         /\ l.list.alone => deletes = {}
         /\ l.list.alone /\ l.state = "ok" /\ l.list.epoch = epoch
               => l.list.rows = InDir(stored[cluster], l.list.dir)
    /\ list.alone => \A x \in deletes : x.attached
    /\ list.alone /\ broken = 0 /\ list.epoch = epoch
          => list.rows \ Gone = InDir(stored[cluster], list.dir)

Typed == TypeOK /\ IsFiniteSet(deletes)

IInv == Typed /\ OneListing /\ AskedInv /\ EpochInv /\ DeletionInv /\ CurrentInv

-----------------------------------------------------------------------------
(* The request of a deletion gets a number that is free.                   *)

\* The image of a finite set is finite and no larger.
LEMMA FiniteImage ==
    ASSUME NEW S, IsFiniteSet(S), NEW f, DOMAIN f = S, f = [x \in S |-> f[x]]
    PROVE  /\ IsFiniteSet({f[x] : x \in S})
           /\ Cardinality({f[x] : x \in S}) <= Cardinality(S)
<1>. DEFINE T == {f[x] : x \in S}
<1>1. f \in Surjection(S, T)
  BY DEF Surjection
<1>. QED
  BY <1>1, FS_Surjection

LEMMA FreeNumber ==
    ASSUME IsFiniteSet(deletes), Cardinality(deletes) < MaxDeletes
    PROVE  NewNo \in Nat
<1>. DEFINE Nos == {x.no : x \in deletes}
<1>1. IsFiniteSet(Nos) /\ Cardinality(Nos) <= Cardinality(deletes)
  <2>. DEFINE f == [x \in deletes |-> x.no]
  <2>1. {f[x] : x \in deletes} = Nos
    OBVIOUS
  <2>2. DOMAIN f = deletes /\ f = [x \in deletes |-> f[x]]
    OBVIOUS
  <2>. HIDE DEF f, Nos
  <2>. QED
    BY <2>1, <2>2, FiniteImage
<1>2. IsFiniteSet(1 .. MaxDeletes) /\ Cardinality(1 .. MaxDeletes) = MaxDeletes
  BY FS_Interval, WebFilesAssumption
<1>3. ~(1 .. MaxDeletes \subseteq Nos)
  <2>1. SUFFICES ASSUME 1 .. MaxDeletes \subseteq Nos PROVE FALSE
    OBVIOUS
  <2>2. Cardinality(1 .. MaxDeletes) <= Cardinality(Nos)
    BY <1>1, <2>1, FS_Subset
  <2>3. Cardinality(deletes) \in Nat /\ Cardinality(Nos) \in Nat
    BY <1>1, FS_CardinalityType
  <2>. QED
    BY <1>1, <1>2, <2>2, <2>3, WebFilesAssumption
<1>4. \E n \in 1 .. MaxDeletes : \A x \in deletes : x.no # n
  BY <1>3
<1>5. NewNo \in 1 .. MaxDeletes
  BY <1>4 DEF NewNo
<1>. QED
  BY <1>5, WebFilesAssumption

-----------------------------------------------------------------------------

LEMMA InitInv == Init => IInv
<1>. SUFFICES ASSUME Init PROVE IInv
  OBVIOUS
<1>. USE WebFilesAssumption DEF Init
<1>1. Typed
  <2>1. NewListing("parent", Root) \in Listing
    BY DEF NewListing, Listing, List
  <2>2. list \in List
    BY DEF List
  <2>3. stored \in [Clusters -> SUBSET Files]
    OBVIOUS
  <2>. QED
    BY <2>1, <2>2, <2>3, FS_EmptySet DEF Typed, TypeOK
<1>2. OneListing
  BY DEF OneListing
<1>3. AskedInv
  BY DEF AskedInv, LastAskedShown, NewListing
<1>4. EpochInv
  BY DEF EpochInv, Dated, NewListing
<1>5. DeletionInv
  BY DEF DeletionInv, DeletedAsConfirmed
<1>6. CurrentInv
  BY DEF CurrentInv, NewListing
<1>. QED
  BY <1>1, <1>2, <1>3, <1>4, <1>5, <1>6 DEF IInv

LEMMA StutterInv == IInv /\ UNCHANGED vars => IInv'
  BY DEF IInv, Typed, TypeOK, OneListing, AskedInv, LastAskedShown, EpochInv, Dated,
         DeletionInv, DeletedAsConfirmed, CurrentInv, Gone, vars

\* Nothing but element changes.
LEMMA ElementInv == IInv /\ ElementLoaded => IInv'
  BY DEF IInv, Typed, TypeOK, OneListing, AskedInv, LastAskedShown, EpochInv, Dated,
         DeletionInv, DeletedAsConfirmed, CurrentInv, Gone, ElementLoaded, server

LEMMA OpenDirInv ==
    ASSUME IInv, NEW d \in Dirs, openDir(d)
    PROVE  IInv'
<1>. DEFINE l == NewListing("dir", d)
<1>1. loaders = 0 /\ confirm = NoFile /\ listings = {}
  BY DEF openDir, Covered, IInv, OneListing
<1>2. /\ loaders' = 1 /\ listings' = {l} /\ asked' = d
      /\ UNCHANGED <<server, ready, list, confirm, deletes, broken, late, confirmed>>
  BY <1>1 DEF openDir
<1>3. l \in Listing /\ l.state = "sent" /\ l.list.dir = d
      /\ l.list.cluster = cluster /\ l.list.epoch = epoch /\ (l.list.alone <=> deletes = {})
  BY DEF NewListing, Listing, List, IInv, Typed, TypeOK, server
<1>. HIDE DEF l
<1>4. Typed'
  BY <1>2, <1>3 DEF IInv, Typed, TypeOK, server
<1>5. OneListing'
  BY <1>1, <1>2 DEF OneListing
<1>6. AskedInv'
  BY <1>2, <1>3 DEF AskedInv, LastAskedShown
<1>7. EpochInv'
  BY <1>2, <1>3 DEF EpochInv, Dated, IInv, Typed, TypeOK, server
<1>8. DeletionInv'
  BY <1>2 DEF DeletionInv, DeletedAsConfirmed, IInv, server
<1>9. CurrentInv'
  BY <1>2, <1>3 DEF CurrentInv, Gone, IInv, server
<1>. QED
  BY <1>4, <1>5, <1>6, <1>7, <1>8, <1>9 DEF IInv

LEMMA ServeListingInv ==
    ASSUME IInv, NEW l \in listings, ServeListing(l)
    PROVE  IInv'
<1>. DEFINE rows == InDir(stored[cluster], l.list.dir)
            ok == [l EXCEPT !.state = "ok",
                            !.list = [@ EXCEPT !.rows = rows,
                                               !.cluster = cluster, !.epoch = epoch]]
            refused == [l EXCEPT !.state = "refused"]
<1>1. listings = {l} /\ l \in Listing
  BY DEF IInv, OneListing, Typed, TypeOK
<1>2. PICK k \in {ok, refused} : listings' = {k}
  BY <1>1 DEF ServeListing
<1>3. UNCHANGED <<server, ready, loaders, list, confirm, deletes, broken, asked, late, confirmed>>
  BY DEF ServeListing
<1>4. rows \in SUBSET Files /\ cluster \in Clusters /\ epoch \in Nat
  BY DEF InDir, IInv, Typed, TypeOK
<1>5. /\ ok \in Listing /\ ok.state = "ok" /\ ok.list.dir = l.list.dir /\ ok.list.rows = rows
      /\ ok.list.cluster = cluster /\ ok.list.epoch = epoch /\ ok.list.alone = l.list.alone
  <2>. HIDE DEF rows
  <2>. QED
    BY <1>1, <1>4 DEF Listing, List
<1>6. refused \in Listing /\ refused.state = "refused" /\ refused.list = l.list
  BY <1>1 DEF Listing
<1>. HIDE DEF ok, refused
<1>7. Typed'
  BY <1>2, <1>3, <1>5, <1>6 DEF IInv, Typed, TypeOK, server
<1>8. OneListing'
  BY <1>1, <1>2, <1>3 DEF IInv, OneListing
<1>9. AskedInv'
  BY <1>2, <1>3, <1>5, <1>6 DEF IInv, AskedInv, LastAskedShown
<1>10. EpochInv'
  BY <1>2, <1>3, <1>4, <1>5, <1>6 DEF IInv, EpochInv, Dated, server
<1>11. DeletionInv'
  BY <1>3 DEF DeletionInv, DeletedAsConfirmed, IInv, server
<1>12. CurrentInv'
  <2>1. k.list.alone => deletes = {}
    BY <1>2, <1>5, <1>6 DEF IInv, CurrentInv
  <2>2. k.state = "ok" => k.list.rows = InDir(stored[cluster], k.list.dir)
    BY <1>2, <1>5, <1>6
  <2>. QED
    BY <1>2, <1>3, <2>1, <2>2 DEF CurrentInv, Gone, IInv, server
<1>. QED
  BY <1>7, <1>8, <1>9, <1>10, <1>11, <1>12 DEF IInv

\* The deletions beside a list that arrives lose their rows.
LEMMA ListedInv ==
    ASSUME IInv, NEW l \in listings, Listed(l)
    PROVE  IInv'
<1>. DEFINE cut(x) == [x EXCEPT !.attached = FALSE]
<1>1. listings = {l} /\ l \in Listing /\ l.state = "ok" /\ loaders = 1 /\ confirm = NoFile
  BY DEF IInv, OneListing, Typed, TypeOK, Listed
<1>2. /\ listings' = {} /\ list' = l.list /\ deletes' = {cut(x) : x \in deletes}
      /\ UNCHANGED <<server, ready, confirm, broken, asked, confirmed>>
  BY <1>1 DEF Listed
<1>3. loaders' \in {0, 1}
  BY <1>1 DEF Listed
<1>4. \A x \in deletes : cut(x) \in Deletion /\ cut(x).file = x.file
  BY DEF IInv, Typed, TypeOK, Deletion
<1>5. Typed'
  <2>1. late' \in BOOLEAN
    BY DEF Listed, IInv, Typed, TypeOK
  <2>2. IsFiniteSet(deletes')
    <3>. DEFINE f == [x \in deletes |-> cut(x)]
    <3>1. {f[x] : x \in deletes} = deletes'
      BY <1>2
    <3>2. DOMAIN f = deletes /\ f = [x \in deletes |-> f[x]]
      OBVIOUS
    <3>3. IsFiniteSet(deletes)
      BY DEF IInv, Typed
    <3>. HIDE DEF f
    <3>. QED
      BY <3>1, <3>2, <3>3, FiniteImage
  <2>3. deletes' \subseteq Deletion
    BY <1>2, <1>4
  <2>4. l.list \in List
    BY <1>1 DEF Listing
  <2>. QED
    BY <1>2, <1>3, <2>1, <2>2, <2>3, <2>4 DEF IInv, Typed, TypeOK, server
<1>6. OneListing'
  BY <1>1, <1>2, <1>3 DEF OneListing
<1>7. AskedInv'
  BY <1>2 DEF AskedInv, LastAskedShown, IInv
<1>8. EpochInv'
  BY <1>2 DEF EpochInv, Dated, IInv, server
<1>9. DeletionInv'
  <2>1. \A y \in deletes' : \E x \in deletes : y.file = x.file
    BY <1>2, <1>4
  <2>. QED
    BY <1>2, <2>1 DEF DeletionInv, DeletedAsConfirmed, IInv, server
<1>10. CurrentInv'
  <2>1. l.list.alone => deletes = {}
    BY DEF IInv, CurrentInv
  <2>2. l.list.alone => deletes' = {} /\ Gone' = {}
    BY <1>2, <2>1 DEF Gone
  <2>3. l.list.alone /\ l.list.epoch = epoch => l.list.rows = InDir(stored[cluster], l.list.dir)
    BY <1>1 DEF IInv, CurrentInv
  <2>. QED
    BY <1>2, <2>2, <2>3 DEF CurrentInv, server
<1>. QED
  BY <1>5, <1>6, <1>7, <1>8, <1>9, <1>10 DEF IInv

\* A list that does not come.
LEMMA NoListInv ==
    ASSUME IInv, NEW l \in listings, NotListed(l) \/ ListingBroken(l)
    PROVE  IInv'
<1>1. listings = {l} /\ loaders = 1 /\ confirm = NoFile
  BY DEF IInv, OneListing
<1>2. /\ listings' = {} /\ loaders' \in {0, 1}
      /\ UNCHANGED <<server, ready, list, confirm, deletes, late, confirmed>>
  BY <1>1 DEF NotListed, ListingBroken
<1>3. broken' \in Nat /\ (broken' = 0 => broken = 0)
  BY DEF NotListed, ListingBroken, Breaks, IInv, Typed, TypeOK
<1>4. asked' = NoDir \/ (asked' = asked /\ loaders' = 1)
  BY <1>1 DEF NotListed, ListingBroken
<1>5. Typed'
  BY <1>2, <1>3, <1>4 DEF IInv, Typed, TypeOK, server
<1>6. OneListing'
  BY <1>1, <1>2 DEF OneListing
<1>7. AskedInv'
  BY <1>2, <1>4 DEF AskedInv, LastAskedShown
<1>8. EpochInv' /\ DeletionInv'
  BY <1>2 DEF EpochInv, Dated, DeletionInv, DeletedAsConfirmed, IInv, server
<1>9. CurrentInv'
  BY <1>2, <1>3 DEF CurrentInv, Gone, IInv, server
<1>. QED
  BY <1>5, <1>6, <1>7, <1>8, <1>9 DEF IInv

-----------------------------------------------------------------------------

\* The dialog opens or is left.
LEMMA DialogInv ==
    ASSUME IInv, CancelDelete \/ \E f \in Files : ClickDelete(f)
    PROVE  IInv'
<1>1. /\ confirm' \in Files \cup {NoFile} /\ (confirm' # NoFile => loaders = 0)
      /\ UNCHANGED <<server, ready, loaders, listings, list, deletes, broken, asked, late, confirmed>>
  BY DEF CancelDelete, ClickDelete, Covered, IInv, OneListing
<1>. QED
  BY <1>1 DEF IInv, Typed, TypeOK, OneListing, AskedInv, LastAskedShown, EpochInv, Dated,
              DeletionInv, DeletedAsConfirmed, CurrentInv, Gone, server

LEMMA ConfirmDeleteInv ==
    ASSUME IInv, ConfirmDelete
    PROVE  IInv'
<1>. DEFINE x == [no |-> NewNo, file |-> confirm, attached |-> TRUE, state |-> "sent"]
            d == [file |-> confirm, cluster |-> list.cluster, epoch |-> list.epoch]
<1>1. confirm \in Files /\ listings = {}
  BY DEF ConfirmDelete, IInv, OneListing, Typed, TypeOK
<1>2. /\ deletes' = deletes \cup {x} /\ confirm' = NoFile /\ confirmed' = confirmed \cup {d}
      /\ UNCHANGED <<server, ready, loaders, listings, list, broken, asked, late>>
  BY DEF ConfirmDelete, PostDelete
<1>3. x \in Deletion /\ x.file = confirm /\ x.attached /\ x.state = "sent"
  <2>1. NewNo \in Nat
    BY FreeNumber DEF ConfirmDelete, IInv, Typed
  <2>. QED
    BY <1>1, <2>1 DEF Deletion
<1>4. /\ d \in [file : Files, cluster : Clusters, epoch : Nat]
      /\ d.file = confirm /\ d.cluster = list.cluster /\ d.epoch = list.epoch
  BY <1>1 DEF IInv, Typed, TypeOK, List
<1>. HIDE DEF x, d
<1>5. Typed'
  <2>1. IsFiniteSet(deletes')
    BY <1>2, FS_AddElement DEF IInv, Typed
  <2>. QED
    BY <1>2, <1>3, <1>4, <2>1 DEF IInv, Typed, TypeOK, server
<1>6. OneListing' /\ AskedInv'
  BY <1>1, <1>2 DEF OneListing, AskedInv, LastAskedShown, IInv
<1>7. EpochInv'
  BY <1>2, <1>4 DEF EpochInv, Dated, IInv, server
<1>8. DeletionInv'
  BY <1>2, <1>3, <1>4 DEF DeletionInv, DeletedAsConfirmed, IInv, server
<1>9. CurrentInv'
  <2>1. Gone' = Gone
    BY <1>2, <1>3 DEF Gone
  <2>. QED
    BY <1>1, <1>2, <1>3, <2>1 DEF CurrentInv, IInv, server
<1>. QED
  BY <1>5, <1>6, <1>7, <1>8, <1>9 DEF IInv

\* The server deletes the file in the cluster of the session, or refuses.
LEMMA ServeDeleteInv ==
    ASSUME IInv, NEW x \in deletes, ServeDelete(x)
    PROVE  IInv'
<1>1. x \in Deletion /\ x.state = "sent"
  BY DEF ServeDelete, IInv, Typed, TypeOK
<1>2. UNCHANGED <<cluster, epoch, ready, loaders, listings, list, confirm, broken, asked, late, confirmed>>
  BY DEF ServeDelete
<1>3. PICK y : /\ y \in Deletion /\ y.file = x.file /\ (y.attached <=> x.attached)
               /\ deletes' = (deletes \ {x}) \cup {y}
               /\ \/ /\ y.state = "ok"
                     /\ stored' = [stored EXCEPT ![cluster] = @ \ {x.file}]
                  \/ /\ y.state = "refused"
                     /\ stored' = stored
  <2>1. CASE x.file \in stored[cluster] /\ stored' = [stored EXCEPT ![cluster] = @ \ {x.file}]
                /\ deletes' = (deletes \ {x}) \cup {[x EXCEPT !.state = "ok"]}
    <3>. DEFINE y == [x EXCEPT !.state = "ok"]
    <3>1. y \in Deletion /\ y.file = x.file /\ y.attached = x.attached /\ y.state = "ok"
      BY <1>1 DEF Deletion
    <3>. QED
      BY <2>1, <3>1
  <2>2. CASE stored' = stored /\ deletes' = (deletes \ {x}) \cup {[x EXCEPT !.state = "refused"]}
    <3>. DEFINE y == [x EXCEPT !.state = "refused"]
    <3>1. y \in Deletion /\ y.file = x.file /\ y.attached = x.attached /\ y.state = "refused"
      BY <1>1 DEF Deletion
    <3>. QED
      BY <2>2, <3>1
  <2>. QED
    BY <2>1, <2>2 DEF ServeDelete
<1>4. stored \in [Clusters -> SUBSET Files] /\ cluster \in Clusters
  BY DEF IInv, Typed, TypeOK
<1>5. Typed'
  <2>1. stored' \in [Clusters -> SUBSET Files]
    BY <1>3, <1>4
  <2>2. IsFiniteSet(deletes')
    BY <1>3, FS_AddElement, FS_RemoveElement DEF IInv, Typed
  <2>. QED
    BY <1>2, <1>3, <2>1, <2>2 DEF IInv, Typed, TypeOK
<1>6. OneListing' /\ AskedInv' /\ EpochInv'
  BY <1>2 DEF OneListing, AskedInv, LastAskedShown, EpochInv, Dated, IInv
<1>7. DeletionInv'
  <2>1. \A z \in deletes' : \E d \in confirmed' : d.file = z.file
    BY <1>2, <1>3 DEF IInv, DeletionInv
  <2>2. \E d \in confirmed : d.file = x.file /\ (d.cluster = cluster \/ d.epoch < epoch)
    <3>1. PICK d \in confirmed : d.file = x.file
      BY DEF IInv, DeletionInv
    <3>2. Dated(d) /\ d.epoch \in Nat /\ epoch \in Nat
      BY DEF IInv, EpochInv, Typed, TypeOK
    <3>. QED
      BY <3>1, <3>2 DEF Dated
  <2>3. ASSUME NEW c \in Clusters, NEW f \in Files \ stored'[c]
        PROVE  f \notin stored[c] \/ (c = cluster /\ f = x.file)
    BY <1>3, <1>4
  <2>4. DeletedAsConfirmed'
    BY <1>2, <2>2, <2>3 DEF IInv, DeletionInv, DeletedAsConfirmed
  <2>. QED
    BY <2>1, <2>4 DEF DeletionInv
<1>8. CurrentInv'
  <2>1. \A l \in listings : ~l.list.alone
    BY DEF IInv, CurrentInv
  <2>2. list.alone => \A z \in deletes' : z.attached
    BY <1>3 DEF IInv, CurrentInv
  <2>3. list.rows \ Gone = InDir(stored[cluster], list.dir)
           => (list.rows \ Gone)' = InDir(stored[cluster], list.dir)'
    <3>1. CASE y.state = "ok"
      <4>1. Gone' = Gone \cup {x.file}
        BY <1>1, <1>3, <3>1 DEF Gone
      <4>2. stored'[cluster] = stored[cluster] \ {x.file}
        BY <1>3, <1>4, <3>1
      <4>3. InDir(stored[cluster], list.dir)' = InDir(stored[cluster], list.dir) \ {x.file}
        BY <1>2, <4>2 DEF InDir
      <4>. QED
        BY <1>2, <4>1, <4>3
    <3>2. CASE y.state = "refused"
      <4>1. Gone' = Gone
        BY <1>1, <1>3, <3>2 DEF Gone
      <4>. QED
        BY <1>2, <1>3, <3>2, <4>1
    <3>. QED
      BY <1>3, <3>1, <3>2
  <2>. QED
    BY <1>2, <2>1, <2>2, <2>3 DEF IInv, CurrentInv
<1>. QED
  BY <1>5, <1>6, <1>7, <1>8 DEF IInv

LEMMA DeleteBrokenInv ==
    ASSUME IInv, NEW x \in deletes, DeleteBroken(x)
    PROVE  IInv'
<1>1. /\ deletes' = deletes \ {x} /\ broken' = broken + 1
      /\ UNCHANGED <<server, ready, loaders, listings, list, confirm, asked, late, confirmed>>
  BY DEF DeleteBroken, Breaks
<1>2. broken \in Nat
  BY DEF IInv, Typed, TypeOK
<1>3. Typed'
  BY <1>1, <1>2, FS_RemoveElement DEF IInv, Typed, TypeOK, server
<1>4. OneListing' /\ AskedInv' /\ EpochInv' /\ DeletionInv'
  BY <1>1 DEF OneListing, AskedInv, LastAskedShown, EpochInv, Dated, DeletionInv,
              DeletedAsConfirmed, IInv, server
<1>5. CurrentInv'
  BY <1>1, <1>2 DEF CurrentInv, IInv, server
<1>. QED
  BY <1>3, <1>4, <1>5 DEF IInv

\* The answer: the row goes if it is still there and the file was deleted.
LEMMA DeletedInv ==
    ASSUME IInv, NEW x \in deletes, Deleted(x)
    PROVE  IInv'
<1>1. /\ deletes' = deletes \ {x}
      /\ UNCHANGED <<server, ready, loaders, listings, confirm, broken, asked, late, confirmed>>
  BY DEF Deleted
<1>2. list \in List
  BY DEF IInv, Typed, TypeOK
<1>3. /\ list' \in List /\ list'.dir = list.dir /\ list'.cluster = list.cluster
      /\ list'.epoch = list.epoch /\ (list'.alone <=> list.alone)
      /\ list'.rows = IF RowGoes(x) THEN list.rows \ {x.file} ELSE list.rows
  BY <1>2 DEF Deleted, List
<1>4. Typed'
  BY <1>1, <1>3, FS_RemoveElement DEF IInv, Typed, TypeOK, server
<1>5. OneListing' /\ AskedInv' /\ EpochInv' /\ DeletionInv'
  BY <1>1, <1>3 DEF OneListing, AskedInv, LastAskedShown, EpochInv, Dated, DeletionInv,
              DeletedAsConfirmed, IInv, server
<1>6. CurrentInv'
  <2>1. list.alone => (list.rows \ Gone)' = list.rows \ Gone
    <3>1. CASE x.state = "ok"
      <4>1. Gone = Gone' \cup {x.file}
        BY <1>1, <3>1 DEF Gone
      <4>2. list.alone => list'.rows = list.rows \ {x.file}
        BY <1>3, <3>1 DEF RowGoes, IInv, CurrentInv
      <4>. QED
        BY <4>1, <4>2
    <3>2. CASE x.state # "ok"
      <4>1. Gone = Gone'
        BY <1>1, <3>2 DEF Gone
      <4>. QED
        BY <1>3, <3>2, <4>1 DEF RowGoes
    <3>. QED
      BY <3>1, <3>2
  <2>. QED
    BY <1>1, <1>3, <2>1 DEF CurrentInv, IInv, server
<1>. QED
  BY <1>4, <1>5, <1>6 DEF IInv

-----------------------------------------------------------------------------

\* A switch begins a new epoch: what was seen before is dated.
LEMMA SwitchInv ==
    ASSUME IInv, NEW c \in Clusters, Switch(c)
    PROVE  IInv'
<1>1. /\ cluster' = c /\ epoch' = epoch + 1
      /\ UNCHANGED <<stored, ready, loaders, listings, list, confirm, deletes, broken, asked, late, confirmed>>
  BY DEF Switch
<1>2. epoch \in Nat /\ list \in List /\ listings \subseteq Listing
      /\ confirmed \subseteq [file : Files, cluster : Clusters, epoch : Nat]
  BY DEF IInv, Typed, TypeOK
<1>3. /\ list.epoch \in Nat /\ list.epoch <= epoch
      /\ \A l \in listings : l.list.epoch \in Nat /\ l.list.epoch <= epoch
      /\ \A d \in confirmed : d.epoch \in Nat /\ d.epoch <= epoch
  BY <1>2 DEF IInv, EpochInv, Dated, Listing, List
<1>4. Typed'
  BY <1>1, <1>2 DEF IInv, Typed, TypeOK
<1>5. OneListing' /\ AskedInv'
  BY <1>1 DEF OneListing, AskedInv, LastAskedShown, IInv
<1>6. EpochInv'
  BY <1>1, <1>2, <1>3 DEF EpochInv, Dated
<1>7. DeletionInv'
  <2>1. \A d \in confirmed : d.epoch < epoch'
    BY <1>1, <1>2, <1>3
  <2>. QED
    BY <1>1, <2>1 DEF DeletionInv, DeletedAsConfirmed, IInv
<1>8. CurrentInv'
  <2>1. list.epoch # epoch' /\ \A l \in listings : l.list.epoch # epoch'
    BY <1>1, <1>2, <1>3
  <2>. QED
    BY <1>1, <2>1 DEF CurrentInv, IInv
<1>. QED
  BY <1>4, <1>5, <1>6, <1>7, <1>8 DEF IInv

\* The inductive invariant is kept by every step of the page, the server and the
\* dashboard.
THEOREM Invariance == Spec => []IInv
<1>1. IInv /\ [Next]_vars => IInv'
  BY StutterInv, ElementInv, OpenDirInv, ServeListingInv, ListedInv, NoListInv, DialogInv,
     ConfirmDeleteInv, ServeDeleteInv, DeleteBrokenInv, DeletedInv, SwitchInv
     DEF Next, Page, Server
<1>. QED
  BY <1>1, InitInv, PTL DEF Spec

\* The state of the page keeps its types (file.js).
THEOREM TypeCorrect == Spec => []TypeOK
<1>1. IInv => TypeOK
  BY DEF IInv, Typed
<1>. QED
  BY <1>1, Invariance, PTL

\* When no loader covers the page, it shows the folder asked for last, unless
\* that was refused (openDir, file.js:53-83).
THEOREM LastAskedIsShown == Spec => []LastAskedShown
<1>1. IInv => LastAskedShown
  BY DEF IInv, AskedInv
<1>. QED
  BY <1>1, Invariance, PTL

\* With nothing on its way the rows are the files of the folder, but for the
\* exceptions ShownIsCurrent names (file.js:75 and 142).
THEOREM ShownIsWhatIs == Spec => []ShownIsCurrent
<1>1. IInv => ShownIsCurrent
  BY DEF IInv, CurrentInv, Gone, ShownIsCurrent
<1>. QED
  BY <1>1, Invariance, PTL

\* No file is deleted but one the user confirmed on a row of that cluster, or of
\* one shown before a switch (file.js:139-151).
THEOREM DeletionsConfirmed == Spec => []DeletedAsConfirmed
<1>1. IInv => DeletedAsConfirmed
  BY DEF IInv, DeletionInv
<1>. QED
  BY <1>1, Invariance, PTL

\* A loader covers the page only while the request it belongs to, or its answer, is
\* on its way: none is left over, unless a request failed or a folder was listed
\* before element was set (file.js:53-83).
THEOREM LoadersAreOwed ==
    Spec => [](loaders > 0 => listings # {} \/ broken > 0 \/ late)
<1>. DEFINE Owed == loaders > 0 => listings # {} \/ broken > 0 \/ late
<1>1. Init => Owed
  BY DEF Init
<1>2. IInv /\ Owed /\ [Next]_vars => Owed'
  <2>. SUFFICES ASSUME IInv, Owed, [Next]_vars PROVE Owed'
    OBVIOUS
  <2>0. loaders \in {0, 1} /\ broken \in Nat /\ late \in BOOLEAN
    BY DEF IInv, OneListing, Typed, TypeOK
  <2>1. CASE UNCHANGED vars
    BY <2>1 DEF vars
  <2>2. CASE \/ ElementLoaded \/ CancelDelete \/ ConfirmDelete
             \/ \E f \in Files : ClickDelete(f)
             \/ \E x \in deletes : ServeDelete(x) \/ Deleted(x)
             \/ \E c \in Clusters : Switch(c)
    BY <2>2 DEF ElementLoaded, CancelDelete, ConfirmDelete, ClickDelete, ServeDelete, Deleted, Switch, server
  <2>3. CASE \E x \in deletes : DeleteBroken(x)
    BY <2>0, <2>3 DEF DeleteBroken, Breaks
  <2>4. CASE \E d \in Dirs : openDir(d)
    BY <2>4 DEF openDir
  <2>5. CASE \E l \in listings : ServeListing(l)
    BY <2>5 DEF ServeListing, IInv, OneListing
  <2>6. CASE \E l \in listings : Listed(l) \/ NotListed(l)
    <3>1. PICK l \in listings : Listed(l) \/ NotListed(l)
      BY <2>6
    <3>2. loaders = 1
      BY <3>1 DEF IInv, OneListing
    <3>3. CASE loaders' = loaders - 1
      BY <3>2, <3>3
    <3>4. CASE loaders' # loaders - 1
      <4>1. Listed(l) /\ l.kind = "dir" /\ ~ready
        BY <3>1, <3>4 DEF Listed, NotListed
      <4>. QED BY <4>1 DEF Listed
    <3>. QED BY <3>3, <3>4
  <2>7. CASE \E l \in listings : ListingBroken(l)
    BY <2>0, <2>7 DEF ListingBroken, Breaks
  <2>. QED BY <2>1, <2>2, <2>3, <2>4, <2>5, <2>6, <2>7 DEF Next, Page, Server
<1>. QED BY <1>1, <1>2, Invariance, PTL DEF Spec
=============================================================================

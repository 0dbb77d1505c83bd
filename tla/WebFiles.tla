------------------------------ MODULE WebFiles ------------------------------
(***************************************************************************)
(* The file page of the web console, js/file.js: going through folders,    *)
(* deleting files. (Icons, previews, details and downloads change nothing.)*)
(*                                                                         *)
(* A request to list a folder is covered by a loader, a deletion is not.   *)
(* The server behind /file/... answers from the cluster of the session,    *)
(* which the dashboard (WebMain) may switch meanwhile; it is not in the    *)
(* repository. Files stand for their md5.                                  *)
(***************************************************************************)
EXTENDS Naturals, FiniteSets, Sequences

CONSTANTS
    Clusters, Dirs, Files,
    Root,           \* the folder ""
    DirOf,          \* the folder of a file, the same in every cluster
    NoFile, NoDir,
    MaxSwitches,    \* bounds of the model: switches of the cluster,
    MaxDeletes,     \* deletions on their way at a time,
    MaxBroken       \* requests that fail

ASSUME WebFilesAssumption ==
    /\ Root \in Dirs
    /\ DirOf \in [Files -> Dirs]
    /\ NoFile \notin Files /\ NoDir \notin Dirs
    /\ MaxSwitches \in Nat /\ MaxDeletes \in Nat /\ MaxBroken \in Nat

VARIABLES
    cluster,    \* the cluster of the session
    epoch,      \* switches so far
    stored,     \* stored[c]: the files in cluster c
    ready,      \* layui.use has set element
    loaders,    \* loaders that cover the page
    listings,   \* requests for a list on their way
    list,       \* what the page shows: folder (path-side) and rows
    confirm,    \* the file the open dialog asks about
    deletes,    \* deletions on their way
    broken,     \* requests that failed
    \* history
    asked,      \* the folder asked for last, NoDir when that was refused
    late,       \* a folder was listed before element was set
    confirmed   \* deletions the user confirmed [file, cluster, epoch] of the row

vars == <<cluster, epoch, stored, ready, loaders, listings, list, confirm, deletes,
          broken, asked, late, confirmed>>
server == <<cluster, epoch, stored>>

\* alone: no deletion was on its way when the list was asked for.
List == [dir : Dirs, rows : SUBSET Files, cluster : Clusters, epoch : Nat, alone : BOOLEAN]
Listing == [kind : {"parent", "dir"}, state : {"sent", "ok", "refused"}, list : List]
Deletion == [no : Nat, file : Files, attached : BOOLEAN, state : {"sent", "ok", "refused"}]

-----------------------------------------------------------------------------
(* Listing.                                                                *)

Covered == loaders > 0 \/ confirm # NoFile

NewListing(kind, d) ==
    [kind |-> kind, state |-> "sent",
     list |-> [dir |-> d, rows |-> {}, cluster |-> cluster, epoch |-> epoch,
               alone |-> deletes = {}]]

\* The page as it is loaded: nothing shown, getParentFile.
Init ==
    /\ cluster \in Clusters
    /\ epoch = 0
    /\ stored = [c \in Clusters |-> Files]
    /\ ready = FALSE
    /\ loaders = 1
    /\ deletes = {}
    /\ listings = {NewListing("parent", Root)}
    /\ list = [dir |-> Root, rows |-> {}, cluster |-> cluster, epoch |-> 0,
               alone |-> FALSE]
    /\ confirm = NoFile
    /\ broken = 0
    /\ asked = Root
    /\ late = FALSE
    /\ confirmed = {}

\* layui.use("element") is done.
ElementLoaded ==
    /\ ~ready
    /\ ready' = TRUE
    /\ UNCHANGED <<server, loaders, listings, list, confirm, deletes, broken, asked, late, confirmed>>

\* Mutated: no loader.
openDirBare(d) ==
    /\ ~Covered
    /\ listings' = listings \cup {NewListing("dir", d)}
    /\ asked' = d
    /\ UNCHANGED <<server, ready, loaders, list, confirm, deletes, broken, late, confirmed>>

\* A click on a folder or in path-side.
openDir(d) ==
    /\ ~Covered
    /\ loaders' = loaders + 1
    /\ listings' = listings \cup {NewListing("dir", d)}
    /\ asked' = d
    /\ UNCHANGED <<server, ready, list, confirm, deletes, broken, late, confirmed>>

InDir(fs, d) == {f \in fs : DirOf[f] = d}

ServeListing(l) ==
    /\ l.state = "sent"
    /\ \/ LET rows == InDir(stored[cluster], l.list.dir) IN
          listings' = (listings \ {l}) \cup
              {[l EXCEPT !.state = "ok",
                         !.list = [@ EXCEPT !.rows = rows,
                                            !.cluster = cluster, !.epoch = epoch]]}
       \/ listings' = (listings \ {l}) \cup {[l EXCEPT !.state = "refused"]}
    /\ UNCHANGED <<server, ready, loaders, list, confirm, deletes, broken, asked, late, confirmed>>

\* Rows and path-side are replaced at once. Without element setPathSide throws
\* in the end, before the loader is closed.
Listed(l) ==
    /\ l.state = "ok"
    /\ listings' = listings \ {l}
    /\ list' = l.list
    /\ deletes' = {[x EXCEPT !.attached = FALSE] : x \in deletes}
    /\ late' = (late \/ (l.kind = "dir" /\ ~ready))
    /\ loaders' = IF l.kind = "dir" /\ ~ready THEN loaders ELSE loaders - 1
    /\ UNCHANGED <<server, ready, confirm, broken, asked, confirmed>>

\* Mutated: the loader stays.
NotListedLoading(l) ==
    /\ l.state = "refused"
    /\ listings' = listings \ {l}
    /\ asked' = NoDir
    /\ UNCHANGED <<server, ready, loaders, list, confirm, deletes, broken, late, confirmed>>

NotListed(l) ==
    /\ l.state = "refused"
    /\ listings' = listings \ {l}
    /\ loaders' = loaders - 1
    /\ asked' = NoDir
    /\ UNCHANGED <<server, ready, list, confirm, deletes, broken, late, confirmed>>

Breaks == broken < MaxBroken /\ broken' = broken + 1

\* $.post has no handler for a request that fails: the loader stays.
ListingBroken(l) ==
    /\ Breaks
    /\ listings' = listings \ {l}
    /\ UNCHANGED <<server, ready, loaders, list, confirm, deletes, asked, late, confirmed>>

-----------------------------------------------------------------------------
(* Deleting.                                                               *)

NewNo == CHOOSE n \in 1 .. MaxDeletes : \A x \in deletes : x.no # n

\* The request, with the row in its closure.
PostDelete(f) == {[no |-> NewNo, file |-> f, attached |-> TRUE, state |-> "sent"]}

\* Mutated: without asking.
ClickDeleteAtOnce(f) ==
    /\ ~Covered
    /\ f \in list.rows
    /\ Cardinality(deletes) < MaxDeletes
    /\ deletes' = deletes \cup PostDelete(f)
    /\ UNCHANGED <<server, ready, loaders, listings, list, confirm, broken, asked, late, confirmed>>

ClickDelete(f) ==
    /\ ~Covered
    /\ f \in list.rows
    /\ confirm' = f
    /\ UNCHANGED <<server, ready, loaders, listings, list, deletes, broken, asked, late, confirmed>>

CancelDelete ==
    /\ confirm # NoFile
    /\ confirm' = NoFile
    /\ UNCHANGED <<server, ready, loaders, listings, list, deletes, broken, asked, late, confirmed>>

\* The dialog closes at once, nothing covers the page while the request runs.
ConfirmDelete ==
    /\ confirm # NoFile
    /\ Cardinality(deletes) < MaxDeletes
    /\ deletes' = deletes \cup PostDelete(confirm)
    /\ confirm' = NoFile
    /\ confirmed' = confirmed \cup
         {[file |-> confirm, cluster |-> list.cluster, epoch |-> list.epoch]}
    /\ UNCHANGED <<server, ready, loaders, listings, list, broken, asked, late>>

\* In the cluster of the session.
ServeDelete(x) ==
    /\ x.state = "sent"
    /\ \/ /\ x.file \in stored[cluster]
          /\ stored' = [stored EXCEPT ![cluster] = @ \ {x.file}]
          /\ deletes' = (deletes \ {x}) \cup {[x EXCEPT !.state = "ok"]}
       \/ /\ deletes' = (deletes \ {x}) \cup {[x EXCEPT !.state = "refused"]}
          /\ UNCHANGED stored
    /\ UNCHANGED <<cluster, epoch, ready, loaders, listings, list, confirm, broken, asked, late, confirmed>>

DeleteBroken(x) ==
    /\ Breaks
    /\ deletes' = deletes \ {x}
    /\ UNCHANGED <<server, ready, loaders, listings, list, confirm, asked, late, confirmed>>

\* Mutated: the row stays.
RowStays(x) == FALSE

\* A row of an earlier list is not in the page any more.
RowGoes(x) == x.attached /\ x.state = "ok"

Deleted(x) ==
    /\ x.state \in {"ok", "refused"}
    /\ deletes' = deletes \ {x}
    /\ list' = IF RowGoes(x) THEN [list EXCEPT !.rows = @ \ {x.file}] ELSE list
    /\ UNCHANGED <<server, ready, loaders, listings, confirm, broken, asked, late, confirmed>>

-----------------------------------------------------------------------------

\* The dashboard switches the cluster (Serve of WebMain).
Switch(c) ==
    /\ epoch < MaxSwitches
    /\ cluster' = c
    /\ epoch' = epoch + 1
    /\ UNCHANGED <<stored, ready, loaders, listings, list, confirm, deletes, broken, asked, late, confirmed>>

Page ==
    \/ ElementLoaded
    \/ \E l \in listings : Listed(l) \/ NotListed(l)
    \/ \E x \in deletes : Deleted(x)

Server ==
    \/ \E l \in listings : ServeListing(l)
    \/ \E x \in deletes : ServeDelete(x)

Next ==
    \/ \E d \in Dirs : openDir(d)
    \/ \E f \in Files : ClickDelete(f)
    \/ CancelDelete \/ ConfirmDelete
    \/ Page \/ Server
    \/ \E l \in listings : ListingBroken(l)
    \/ \E x \in deletes : DeleteBroken(x)
    \/ \E c \in Clusters : Switch(c)

Spec == Init /\ [][Next]_vars

\* A request for a list ends and its handler is called.
FairSpec ==
    /\ Spec
    /\ WF_vars(\E l \in listings : ServeListing(l) \/ Listed(l) \/ NotListed(l))

-----------------------------------------------------------------------------

TypeOK ==
    /\ cluster \in Clusters
    /\ epoch \in Nat
    /\ stored \in [Clusters -> SUBSET Files]
    /\ ready \in BOOLEAN /\ late \in BOOLEAN
    /\ loaders \in Nat
    /\ listings \subseteq Listing
    /\ list \in List
    /\ confirm \in Files \cup {NoFile}
    /\ deletes \subseteq Deletion
    /\ broken \in Nat
    /\ asked \in Dirs \cup {NoDir}
    /\ confirmed \subseteq [file : Files, cluster : Clusters, epoch : Nat]

\* Answers cannot overtake each other: when nothing covers the page it shows the
\* folder asked for last, unless that was refused.
LastAskedShown == loaders = 0 => asked \in {list.dir, NoDir}

\* When nothing is on its way the page shows what the folder holds, unless the
\* list was asked for while a deletion was on its way (its row is then not the
\* deletion's), a request failed, or the cluster was switched.
ShownIsCurrent ==
    deletes = {} /\ listings = {} /\ list.alone /\ broken = 0 /\ list.epoch = epoch
        => list.rows = InDir(stored[cluster], list.dir)

\* What was deleted from a cluster was confirmed on a row of that cluster, or on a
\* row listed before the cluster was switched.
DeletedAsConfirmed ==
    \A c \in Clusters : \A f \in Files \ stored[c] :
        \E d \in confirmed : d.file = f /\ (d.cluster = c \/ d.epoch < epoch)

\* A loader goes, unless a request failed or a folder was listed before element
\* was there.
LoaderEnds == loaders > 0 ~> loaders = 0 \/ broken > 0 \/ late
=============================================================================

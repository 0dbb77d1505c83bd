------------------------------ MODULE WebMain ------------------------------
(***************************************************************************)
(* The dashboard of the web console, js/main.js: switching the cluster and *)
(* the long operations (repair_stat, remove_empty_dir, backup, repair).    *)
(*                                                                         *)
(* layer's dialogs lie over the page and over each other: only the top one *)
(* can be used, the buttons of the page only when there is none, and a     *)
(* loader cannot be used at all. The server behind /main/..., which keeps  *)
(* the cluster of the session, is not in the repository.                   *)
(***************************************************************************)
EXTENDS Naturals, FiniteSets, SequencesExt

CONSTANTS
    Clusters,   \* ids of /main/getAllPeers
    None,       \* switchPeersId 0
    Ops,        \* the long operations
    ReloadOps,  \* those that reload the page afterwards: repair_stat
    MaxAsking,  \* bounds of the model: getAllPeers requests at a time,
    MaxSwitches,\* switches posted in all,
    MaxBroken   \* posts that fail

ASSUME WebMainAssumption ==
    /\ None \notin Clusters
    /\ ReloadOps \subseteq Ops
    /\ MaxAsking \in Nat /\ MaxSwitches \in Nat /\ MaxBroken \in Nat

VARIABLES
    cluster,        \* the cluster of the session, on the server
    shown,          \* the cluster whose data the page was loaded with
    switchPeersId,  \* the global of js/main.js
    asking,         \* getAllPeers requests on their way
    layers,         \* the dialogs, topmost last [kind, no, value]
    posts,          \* requests on their way [no, kind, value, layer, state, live]
    reload,         \* setTimeout(window.location.reload, 1000) is set
    switches,       \* switches posted
    broken,         \* posts that failed
    missed          \* history: a switch whose answer the page did not get

vars == <<cluster, shown, switchPeersId, asking, layers, posts, reload, switches, broken, missed>>
bounds == <<switches, broken>>

Layer == [kind : {"switch", "confirm", "load"}, no : Nat, value : Clusters \cup Ops \cup {None}]
Post == [no : Nat, kind : {"switch", "op"}, value : Clusters \cup Ops, layer : Nat,
         state : {"sent", "ok"}, live : BOOLEAN]

\* The index of a new layer or post: not in use.
LayersInUse == {layers[i].no : i \in 1 .. Len(layers)} \cup {p.layer : p \in posts}
NewLayer == CHOOSE n \in 1 .. Cardinality(LayersInUse) + 1 : n \notin LayersInUse
NewPost == CHOOSE n \in 1 .. Cardinality(posts) + 1 : \A p \in posts : p.no # n

Top == layers[Len(layers)]
With(kind, value) == [kind |-> kind, no |-> NewLayer, value |-> value]
Over(kind) == layers # <<>> /\ Top.kind = kind

\* layer.close: the dialog of that number, when it is still there.
Named(no) == {i \in 1 .. Len(layers) : layers[i].no = no}
Without(no) == IF Named(no) = {} THEN layers ELSE RemoveAt(layers, CHOOSE i \in Named(no) : TRUE)

Init ==
    /\ cluster \in Clusters
    /\ shown = cluster
    /\ switchPeersId = None
    /\ asking = 0
    /\ layers = <<>>
    /\ posts = {}
    /\ reload = FALSE
    /\ switches = 0 /\ broken = 0
    /\ missed = FALSE

-----------------------------------------------------------------------------
(* Switching the cluster.                                                  *)

Breaks == broken < MaxBroken /\ broken' = broken + 1

\* The button posts getAllPeers; nothing covers the page until it is answered.
ClickSwitch ==
    /\ layers = <<>>
    /\ asking < MaxAsking
    /\ asking' = asking + 1
    /\ UNCHANGED <<cluster, shown, switchPeersId, layers, posts, reload, bounds, missed>>

\* The answer opens a dialog whose select is empty, over whatever is there.
PeersListed ==
    /\ asking > 0
    /\ asking' = asking - 1
    /\ layers' = Append(layers, With("switch", None))
    /\ UNCHANGED <<cluster, shown, switchPeersId, posts, reload, bounds, missed>>

\* It fails: $.post has no handler for that.
PeersBroken ==
    /\ asking > 0
    /\ Breaks
    /\ asking' = asking - 1
    /\ UNCHANGED <<cluster, shown, switchPeersId, layers, posts, reload, switches, missed>>

\* Mutated: the value of the empty option is taken over as it is.
SelectRaw(c) ==
    /\ Over("switch")
    /\ layers' = [layers EXCEPT ![Len(layers)].value = c]
    /\ Top.value # c
    /\ switchPeersId' = IF c = None THEN "" ELSE c
    /\ UNCHANGED <<cluster, shown, asking, posts, reload, bounds, missed>>

\* form.on("select(peers)"); c may be the empty option.
Select(c) ==
    /\ Over("switch")
    /\ layers' = [layers EXCEPT ![Len(layers)].value = c]
    /\ Top.value # c
    /\ switchPeersId' = c
    /\ UNCHANGED <<cluster, shown, asking, posts, reload, bounds, missed>>

Send(kind, value, layer) ==
    /\ posts' = posts \cup {[no |-> NewPost, kind |-> kind, value |-> value,
                             layer |-> layer, state |-> "sent", live |-> TRUE]}

\* yes: the dialog stays until the answer. (Nothing selected: only a message.)
ConfirmSwitch ==
    /\ Over("switch")
    /\ switchPeersId # None
    /\ switches < MaxSwitches
    /\ switches' = switches + 1
    /\ Send("switch", switchPeersId, Top.no)
    /\ UNCHANGED <<cluster, shown, switchPeersId, asking, layers, reload, broken, missed>>

\* Cancel, the cross, or a click beside the dialog; switchPeersId stays.
Cancel ==
    /\ Over("switch") \/ Over("confirm")
    /\ layers' = Without(Top.no)
    /\ UNCHANGED <<cluster, shown, switchPeersId, asking, posts, reload, bounds, missed>>

-----------------------------------------------------------------------------
(* The long operations.                                                    *)

ClickOp(op) ==
    /\ layers = <<>>
    /\ layers' = <<With("confirm", op)>>
    /\ UNCHANGED <<cluster, shown, switchPeersId, asking, posts, reload, bounds, missed>>

\* Mutated: no loader.
ConfirmOpBare ==
    /\ Over("confirm")
    /\ layers' = Without(Top.no)
    /\ Send("op", Top.value, NewLayer)
    /\ UNCHANGED <<cluster, shown, switchPeersId, asking, reload, bounds, missed>>

\* The dialog closes, a loader covers the page until the answer.
ConfirmOp ==
    /\ Over("confirm")
    /\ layers' = Append(Without(Top.no), With("load", Top.value))
    /\ Send("op", Top.value, NewLayer)
    /\ UNCHANGED <<cluster, shown, switchPeersId, asking, reload, bounds, missed>>

-----------------------------------------------------------------------------
(* The server and the network.                                             *)

Becomes(p, s) == posts' = (posts \ {p}) \cup s

\* Posts are handled in any order.
Serve(p) ==
    /\ p.state = "sent"
    /\ \/ /\ p.kind = "switch"
          /\ cluster' = p.value
          /\ missed' = (missed \/ ~p.live)
       \/ /\ p.kind = "op"
          /\ UNCHANGED <<cluster, missed>>
    /\ Becomes(p, IF p.live THEN {[p EXCEPT !.state = "ok"]} ELSE {})
    /\ UNCHANGED <<shown, switchPeersId, asking, layers, reload, bounds>>

\* It answers with another state: the page shows a message, the dialog stays.
NotSwitched(p) ==
    /\ p.state = "sent" /\ p.kind = "switch"
    /\ Becomes(p, {})
    /\ UNCHANGED <<cluster, shown, switchPeersId, asking, layers, reload, bounds, missed>>

\* The post or its answer is lost. Nobody is told, a loader stays.
Broken(p) ==
    /\ Breaks
    /\ missed' = (missed \/ (p.kind = "switch" /\ p.state = "ok"))
    /\ Becomes(p, {})
    /\ UNCHANGED <<cluster, shown, switchPeersId, asking, layers, reload, switches>>

-----------------------------------------------------------------------------
(* Answers, and the timer.                                                 *)

\* Mutated: the page is not reloaded.
SwitchedNoReload(p) ==
    /\ p.live /\ p.kind = "switch" /\ p.state = "ok"
    /\ Becomes(p, {})
    /\ layers' = Without(p.layer)
    /\ UNCHANGED <<cluster, shown, switchPeersId, asking, reload, bounds, missed>>

Switched(p) ==
    /\ p.live /\ p.kind = "switch" /\ p.state = "ok"
    /\ Becomes(p, {})
    /\ layers' = Without(p.layer)
    /\ reload' = TRUE
    /\ UNCHANGED <<cluster, shown, switchPeersId, asking, bounds, missed>>

OpAnswered(p) ==
    /\ p.live /\ p.kind = "op" /\ p.state = "ok"
    /\ Becomes(p, {})
    /\ layers' = Without(p.layer)
    /\ reload' = (reload \/ p.value \in ReloadOps)
    /\ UNCHANGED <<cluster, shown, switchPeersId, asking, bounds, missed>>

\* The page starts anew; a switch it sent may still reach the server (and an
\* operation runs on, which nothing here depends on).
Fresh ==
    /\ shown' = cluster
    /\ switchPeersId' = None
    /\ asking' = 0
    /\ layers' = <<>>
    /\ posts' = {[p EXCEPT !.live = FALSE] : p \in {q \in posts : q.kind = "switch" /\ q.state = "sent"}}
    /\ reload' = FALSE
    /\ missed' = FALSE
    /\ UNCHANGED <<cluster, bounds>>

\* The second is over.
Reload == reload /\ Fresh

\* The user reloads the page, at any time.
ReloadByHand == Fresh

-----------------------------------------------------------------------------

Answers(p) == Switched(p) \/ OpAnswered(p)

Next ==
    \/ ClickSwitch \/ PeersListed \/ PeersBroken
    \/ \E c \in Clusters \cup {None} : Select(c)
    \/ ConfirmSwitch \/ Cancel
    \/ \E op \in Ops : ClickOp(op)
    \/ ConfirmOp
    \/ \E p \in posts : Serve(p) \/ NotSwitched(p) \/ Broken(p) \/ Answers(p)
    \/ Reload \/ ReloadByHand

Spec == Init /\ [][Next]_vars

-----------------------------------------------------------------------------

TypeOK ==
    /\ cluster \in Clusters /\ shown \in Clusters
    /\ switchPeersId \in Clusters \cup {None}
    /\ asking \in Nat
    /\ layers \in Seq(Layer)
    /\ posts \subseteq Post
    /\ reload \in BOOLEAN /\ missed \in BOOLEAN
    /\ switches \in Nat /\ broken \in Nat

\* While one of its operations runs, a loader of its own covers the page (so the
\* page has one operation running at a time: "do not repeat the operation"), and
\* a loader without operation is left only by a post that failed.
LoaderTellsRunning ==
    LET running == {p \in posts : p.kind = "op" /\ p.live}
        loaders == {i \in 1 .. Len(layers) : layers[i].kind = "load"}
    IN  /\ \A p \in running : \E i \in loaders : layers[i].no = p.layer
        /\ Cardinality(running) <= 1 /\ Cardinality(loaders) <= 1
        /\ \A i \in loaders : broken > 0 \/ \E p \in running : p.layer = layers[i].no

\* The page shows the cluster of the session, or is about to be reloaded, unless
\* the answer of a switch was lost, or came after a reload.
ShowsCluster ==
    \/ shown = cluster
    \/ reload
    \/ \E p \in posts : p.live /\ p.kind = "switch" /\ p.state = "ok"
    \/ missed
=============================================================================

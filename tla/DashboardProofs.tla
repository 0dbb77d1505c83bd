--------------------------- MODULE DashboardProofs ---------------------------
(***************************************************************************)
(* The dashboard and the numbers it shows, for any number of clusters,     *)
(* posts, processes and files: js/main.js shows the cluster of the session *)
(* and tells what runs; the node's count of files is that of its logs.     *)
(***************************************************************************)
EXTENDS WebMain, Statistics, FiniteSetTheorems, SequenceTheorems, WellFoundedInduction, TLAPS

\* A post has the parts that ConfirmSwitch and ConfirmOp send.
IsPost(p) ==
    p \in [no : {p.no}, kind : {p.kind}, value : {p.value}, layer : {p.layer},
           state : {p.state}, live : BOOLEAN]

PostInv == \A p \in posts : IsPost(p)

\* A switch the server has made and the page is about to hear of.
Told(p) == p.live /\ p.kind = "switch" /\ p.state = "ok"

IInv == PostInv /\ ShowsCluster

LEMMA InitIInv == Init => IInv
BY DEF Init, IInv, PostInv, ShowsCluster

\* The actions that leave the posts, or add one to them.
LEMMA PageIInv ==
    ASSUME IInv, shown' = shown, cluster' = cluster, reload' = reload, missed' = missed,
           \/ posts' = posts
           \/ \E no, kind, value, layer : posts' = posts \cup
                {[no |-> no, kind |-> kind, value |-> value, layer |-> layer,
                  state |-> "sent", live |-> TRUE]}
    PROVE  IInv'
<1>1. posts \subseteq posts'
  OBVIOUS
<1>2. PostInv'
  <2>1. CASE posts' = posts
    BY <2>1 DEF IInv, PostInv
  <2>2. ASSUME NEW no, NEW kind, NEW value, NEW layer
        PROVE  IsPost([no |-> no, kind |-> kind, value |-> value, layer |-> layer,
                       state |-> "sent", live |-> TRUE])
    BY DEF IsPost
  <2>. QED BY <2>1, <2>2 DEF IInv, PostInv
<1>3. ShowsCluster'
  BY <1>1 DEF IInv, ShowsCluster
<1>. QED BY <1>2, <1>3 DEF IInv

\* What the server makes of a post: a switch made is told, or known to be missed.
LEMMA ServeIInv ==
    ASSUME IInv, NEW p \in posts, Serve(p)
    PROVE  IInv'
<1>. DEFINE answered == [p EXCEPT !.state = "ok"]
<1>1. /\ p.state = "sent" /\ IsPost(p)
      /\ posts' = (posts \ {p}) \cup (IF p.live THEN {answered} ELSE {})
      /\ UNCHANGED <<shown, reload>>
  BY DEF Serve, Becomes, IInv, PostInv
<1>2. IsPost(answered) /\ answered.kind = p.kind /\ answered.live = p.live
      /\ answered.state = "ok"
  BY <1>1 DEF IsPost
<1>. HIDE DEF answered
<1>3. PostInv'
  BY <1>1, <1>2 DEF IInv, PostInv
<1>4. ShowsCluster'
  <2>1. CASE p.kind = "switch" /\ p.live
    <3>1. answered \in posts' /\ Told(answered)
      BY <1>1, <1>2, <2>1 DEF Told
    <3>. QED BY <3>1 DEF ShowsCluster, Told
  <2>2. CASE p.kind = "switch" /\ ~p.live
    BY <2>2 DEF Serve, ShowsCluster
  <2>3. CASE p.kind # "switch"
    <3>1. UNCHANGED <<cluster, missed>>
      BY <2>3 DEF Serve
    <3>2. \A q \in posts : Told(q) => q \in posts'
      BY <1>1 DEF Told
    <3>. QED BY <1>1, <3>1, <3>2 DEF IInv, ShowsCluster, Told
  <2>. QED BY <2>1, <2>2, <2>3
<1>. QED BY <1>3, <1>4 DEF IInv

\* A post that goes without being heard of was no switch made, or is counted
\* as missed.
LEMMA GoneIInv ==
    ASSUME IInv, NEW p \in posts, NotSwitched(p) \/ Broken(p)
    PROVE  IInv'
<1>1. posts' = posts \ {p} /\ UNCHANGED <<shown, cluster, reload>>
  BY DEF NotSwitched, Broken, Becomes
<1>2. missed => missed'
  BY DEF NotSwitched, Broken
<1>3. Told(p) => missed'
  BY DEF NotSwitched, Broken, Told
<1>4. \A q \in posts : Told(q) => q \in posts' \/ missed'
  BY <1>1, <1>3
<1>5. PostInv'
  BY <1>1 DEF IInv, PostInv
<1>6. ShowsCluster'
  BY <1>1, <1>2, <1>4 DEF IInv, ShowsCluster, Told
<1>. QED BY <1>5, <1>6 DEF IInv

\* A switch that is heard of reloads the page; the answer of an operation is none.
LEMMA AnswersIInv ==
    ASSUME IInv, NEW p \in posts, Answers(p)
    PROVE  IInv'
<1>1. posts' = posts \ {p} /\ UNCHANGED <<shown, cluster, missed>>
  BY DEF Answers, Switched, OpAnswered, Becomes
<1>2. reload => reload'
  BY DEF Answers, Switched, OpAnswered
<1>3. Told(p) => reload'
  BY DEF Answers, Switched, OpAnswered, Told
<1>4. \A q \in posts : Told(q) => q \in posts' \/ reload'
  BY <1>1, <1>3
<1>5. PostInv'
  BY <1>1 DEF IInv, PostInv
<1>6. ShowsCluster'
  BY <1>1, <1>2, <1>4 DEF IInv, ShowsCluster, Told
<1>. QED BY <1>5, <1>6 DEF IInv

\* A page that starts anew shows the cluster of the session as it is.
LEMMA FreshIInv ==
    ASSUME IInv, Fresh
    PROVE  IInv'
<1>1. ShowsCluster'
  BY DEF Fresh, ShowsCluster
<1>2. PostInv'
  <2>1. ASSUME NEW q \in posts PROVE IsPost([q EXCEPT !.live = FALSE])
    BY DEF IInv, PostInv, IsPost
  <2>. QED BY <2>1 DEF Fresh, PostInv
<1>. QED BY <1>1, <1>2 DEF IInv

\* The strengthening is an invariant.
THEOREM Invariance == Spec => []IInv
<1>1. IInv /\ [Next]_vars => IInv'
  <2>1. SUFFICES ASSUME IInv, [Next]_vars PROVE IInv'
    OBVIOUS
  <2>2. CASE ClickSwitch \/ PeersListed \/ PeersBroken \/ Cancel
             \/ \E c \in Clusters \cup {None} : Select(c)
             \/ \E op \in Ops : ClickOp(op)
    BY <2>1, <2>2, PageIInv
       DEF ClickSwitch, PeersListed, PeersBroken, Cancel, Select, ClickOp
  <2>3. CASE ConfirmSwitch
    BY <2>1, <2>3, PageIInv DEF ConfirmSwitch, Send
  <2>4. CASE ConfirmOp
    BY <2>1, <2>4, PageIInv DEF ConfirmOp, Send
  <2>5. CASE \E p \in posts : Serve(p) \/ NotSwitched(p) \/ Broken(p) \/ Answers(p)
    BY <2>1, <2>5, ServeIInv, GoneIInv, AnswersIInv
  <2>6. CASE Reload \/ ReloadByHand
    BY <2>1, <2>6, FreshIInv DEF Reload, ReloadByHand
  <2>7. CASE UNCHANGED vars
    BY <2>1, <2>7, PageIInv DEF vars
  <2>. QED BY <2>1, <2>2, <2>3, <2>4, <2>5, <2>6, <2>7 DEF Next
<1>. QED BY InitIInv, <1>1, PTL DEF Spec

\* The dashboard shows the cluster of the session, is about to be reloaded or to
\* hear of the switch, or a switch was made whose answer it cannot get.
THEOREM ShownIsTheSession == Spec => []ShowsCluster
BY Invariance, PTL DEF IInv

-----------------------------------------------------------------------------
(* The dialogs and the operations.                                         *)

\* A number that no element of a finite set is.
LEMMA Unused ==
    ASSUME NEW S, IsFiniteSet(S)
    PROVE  \E n \in 1 .. Cardinality(S) + 1 : n \notin S
<1>. DEFINE N == Cardinality(S) + 1
<1>1. Cardinality(S) \in Nat
  BY FS_CardinalityType
<1>2. Cardinality(1 .. N) = N
  BY <1>1, FS_Interval
<1>3. SUFFICES ASSUME \A n \in 1 .. N : n \in S PROVE FALSE
  OBVIOUS
<1>4. (1 .. N) \in SUBSET S
  BY <1>3
<1>5. Cardinality(1 .. N) <= Cardinality(S)
  BY <1>4, FS_Subset
<1>. QED BY <1>1, <1>2, <1>5

\* The index of a new post.
LEMMA NewPostNat ==
    ASSUME IsFiniteSet(posts)
    PROVE  NewPost \in Nat
<1>. DEFINE nos == {p.no : p \in posts}
            f == [p \in posts |-> p.no]
<1>1. f \in Surjection(posts, nos)
  BY DEF Surjection
<1>2. IsFiniteSet(nos) /\ Cardinality(nos) <= Cardinality(posts)
  <2>. HIDE DEF f
  <2>. QED BY <1>1, FS_Surjection
<1>3. Cardinality(posts) \in Nat /\ Cardinality(nos) \in Nat
  BY <1>2, FS_CardinalityType
<1>4. PICK n \in 1 .. Cardinality(nos) + 1 : n \notin nos
  BY <1>2, Unused
<1>5. n \in 1 .. Cardinality(posts) + 1 /\ \A p \in posts : p.no # n
  BY <1>2, <1>3, <1>4
<1>6. NewPost \in 1 .. Cardinality(posts) + 1
  BY <1>5 DEF NewPost
<1>. QED BY <1>3, <1>6

\* The index of a new layer.
LEMMA NewLayerUnused ==
    ASSUME IsFiniteSet(posts), layers \in Seq(Layer)
    PROVE  /\ NewLayer \in Nat
           /\ \A i \in 1 .. Len(layers) : layers[i].no # NewLayer
           /\ \A p \in posts : p.layer # NewLayer
<1>. DEFINE N == 1 .. Len(layers)
            A == {layers[i].no : i \in N}
            B == {p.layer : p \in posts}
            f == [i \in N |-> layers[i].no]
            g == [p \in posts |-> p.layer]
<1>1. Len(layers) \in Nat
  BY LenProperties
<1>2. IsFiniteSet(N)
  BY <1>1, FS_Interval
<1>3. f \in Surjection(N, A) /\ g \in Surjection(posts, B)
  BY DEF Surjection
<1>4. IsFiniteSet(A) /\ IsFiniteSet(B)
  <2>. HIDE DEF f, g, N
  <2>. QED BY <1>2, <1>3, FS_Surjection
<1>5. IsFiniteSet(LayersInUse)
  <2>1. LayersInUse = A \cup B
    BY DEF LayersInUse
  <2>. HIDE DEF A, B
  <2>. QED BY <2>1, <1>4, FS_Union
<1>6. \E n \in 1 .. Cardinality(LayersInUse) + 1 : n \notin LayersInUse
  BY <1>5, Unused
<1>7. NewLayer \in 1 .. Cardinality(LayersInUse) + 1 /\ NewLayer \notin LayersInUse
  BY <1>6 DEF NewLayer
<1>8. NewLayer \in Nat
  BY <1>7
<1>. QED BY <1>7, <1>8 DEF LayersInUse

\* One element taken out.
LEMMA Removed ==
    ASSUME NEW S, NEW s \in Seq(S), NEW k \in 1 .. Len(s)
    PROVE  /\ RemoveAt(s, k) \in Seq(S)
           /\ Len(RemoveAt(s, k)) = Len(s) - 1
           /\ \A i \in 1 .. Len(s) - 1 :
                 RemoveAt(s, k)[i] = IF i < k THEN s[i] ELSE s[i + 1]
<1>. DEFINE a == SubSeq(s, 1, k - 1)
            b == SubSeq(s, k + 1, Len(s))
<1>1. Len(s) \in Nat /\ \A i \in 1 .. Len(s) : s[i] \in S
  BY LenProperties, ElementOfSeq
<1>2. /\ a \in Seq(S) /\ Len(a) = k - 1
      /\ \A i \in 1 .. k - 1 : a[i] = s[i]
  <2>1. \A i \in 1 .. k - 1 : s[i] \in S
    BY <1>1
  <2>. QED BY <2>1, <1>1, SubSeqProperties
<1>3. /\ b \in Seq(S) /\ Len(b) = Len(s) - k
      /\ \A i \in 1 .. Len(s) - k : b[i] = s[k + i]
  <2>1. \A i \in k + 1 .. Len(s) : s[i] \in S
    BY <1>1
  <2>. QED BY <2>1, <1>1, SubSeqProperties
<1>4. RemoveAt(s, k) = a \o b
  BY DEF RemoveAt
<1>. HIDE DEF a, b
<1>5. /\ a \o b \in Seq(S)
      /\ Len(a \o b) = Len(a) + Len(b)
      /\ \A i \in 1 .. Len(a) + Len(b) :
            (a \o b)[i] = IF i <= Len(a) THEN a[i] ELSE b[i - Len(a)]
  BY <1>2, <1>3, ConcatProperties
<1>6. ASSUME NEW i \in 1 .. Len(s) - 1
      PROVE  (a \o b)[i] = IF i < k THEN s[i] ELSE s[i + 1]
  <2>1. CASE i < k
    BY <2>1, <1>1, <1>2, <1>3, <1>5
  <2>2. CASE ~(i < k)
    <3>1. i - (k - 1) \in 1 .. Len(s) - k /\ k + (i - (k - 1)) = i + 1
      BY <2>2, <1>1
    <3>2. (a \o b)[i] = b[i - (k - 1)]
      BY <2>2, <1>1, <1>2, <1>3, <1>5
    <3>. QED BY <3>1, <3>2, <1>3, <2>2
  <2>. QED BY <2>1, <2>2
<1>. QED BY <1>1, <1>2, <1>3, <1>4, <1>5, <1>6

\* A long operation of the page that runs.
Running == {p \in posts : p.kind = "op" /\ p.live}

Typed ==
    /\ cluster \in Clusters /\ shown \in Clusters
    /\ switchPeersId \in Clusters \cup {None}
    /\ asking \in Nat /\ switches \in Nat /\ broken \in Nat
    /\ reload \in BOOLEAN /\ missed \in BOOLEAN
    /\ layers \in Seq(Layer)
    /\ posts \in SUBSET Post
    /\ IsFiniteSet(posts)
    /\ \A p \in posts : p.kind = "switch" => p.value \in Clusters

\* No two dialogs have one number, and at most one operation runs.
Unique ==
    /\ \A i, j \in 1 .. Len(layers) : layers[i].no = layers[j].no => i = j
    /\ \A p, q \in Running : p = q

\* What comes over the page after the first dialog asks for the cluster, and the
\* dialog that a switch's answer closes is one of these.
Stacked ==
    \A i \in 1 .. Len(layers) :
        /\ i > 1 => layers[i].kind = "switch"
        /\ layers[i].kind = "confirm" => layers[i].value \in Ops
        /\ \A p \in posts :
              p.live /\ p.kind = "switch" /\ layers[i].no = p.layer => layers[i].kind = "switch"

\* Loaders and operations belong together.
Covered ==
    /\ \A p \in Running : \E i \in 1 .. Len(layers) :
          layers[i].kind = "load" /\ layers[i].no = p.layer
    /\ \A i \in 1 .. Len(layers) : layers[i].kind = "load" =>
          broken > 0 \/ \E p \in Running : p.layer = layers[i].no

DInv == Typed /\ Unique /\ Stacked /\ Covered

LEMMA InitDInv == Init => DInv
<1>. SUFFICES ASSUME Init PROVE DInv
  OBVIOUS
<1>1. posts = {} /\ layers = <<>> /\ Len(layers) = 0
  BY DEF Init
<1>2. Typed
  BY <1>1, FS_EmptySet, EmptySeq DEF Init, Typed
<1>. QED BY <1>1, <1>2 DEF DInv, Unique, Stacked, Covered, Running

\* layer.close takes one dialog away, or none.
LEMMA Closed ==
    ASSUME layers \in Seq(Layer), NEW no
    PROVE  \/ /\ Without(no) = layers
              /\ \A i \in 1 .. Len(layers) : layers[i].no # no
           \/ \E k \in 1 .. Len(layers) :
                /\ layers[k].no = no
                /\ Without(no) \in Seq(Layer)
                /\ Len(Without(no)) = Len(layers) - 1
                /\ \A i \in 1 .. Len(layers) - 1 :
                      Without(no)[i] = IF i < k THEN layers[i] ELSE layers[i + 1]
<1>1. CASE Named(no) = {}
  BY <1>1 DEF Without, Named
<1>2. CASE Named(no) # {}
  <2>. DEFINE k == CHOOSE i \in Named(no) : TRUE
  <2>1. k \in Named(no)
    BY <1>2
  <2>2. Without(no) = RemoveAt(layers, k)
    BY <1>2 DEF Without
  <2>. HIDE DEF k
  <2>3. k \in 1 .. Len(layers) /\ layers[k].no = no
    BY <2>1 DEF Named
  <2>. QED BY <2>2, <2>3, Removed
<1>. QED BY <1>1, <1>2

\* Dialogs and posts stay.
LEMMA SameDInv ==
    ASSUME DInv, UNCHANGED <<layers, posts>>, broken' \in Nat, broken' >= broken, Typed'
    PROVE  DInv'
BY DEF DInv, Typed, Unique, Stacked, Covered, Running

\* The dialog of the clusters opens.
LEMMA PeersListedDInv ==
    ASSUME DInv, PeersListed
    PROVE  DInv'
<1>. DEFINE new == With("switch", None)
<1>1. Typed /\ Unique /\ Stacked /\ Covered
  BY DEF DInv
<1>2. layers \in Seq(Layer) /\ IsFiniteSet(posts) /\ Len(layers) \in Nat
  BY <1>1, LenProperties DEF Typed
<1>3. /\ NewLayer \in Nat
      /\ \A i \in 1 .. Len(layers) : layers[i].no # NewLayer
      /\ \A p \in posts : p.layer # NewLayer
  BY <1>2, NewLayerUnused
<1>4. new \in Layer /\ new.no = NewLayer /\ new.kind = "switch"
  BY <1>3 DEF With, Layer
<1>5. layers' = Append(layers, new) /\ posts' = posts /\ broken' = broken
  BY DEF PeersListed, bounds
<1>. HIDE DEF new
<1>6. /\ layers' \in Seq(Layer) /\ Len(layers') = Len(layers) + 1
      /\ \A i \in 1 .. Len(layers) : layers'[i] = layers[i]
      /\ layers'[Len(layers) + 1] = new
  BY <1>2, <1>4, <1>5, AppendProperties
<1>7. Running' = Running
  BY <1>5 DEF Running
<1>8. Typed'
  BY <1>1, <1>6, <1>5 DEF PeersListed, Typed, bounds
<1>9. Unique'
  BY <1>1, <1>2, <1>3, <1>4, <1>6, <1>7 DEF Unique
<1>10. Stacked'
  BY <1>1, <1>2, <1>3, <1>4, <1>5, <1>6 DEF Stacked
<1>11. Covered'
  BY <1>1, <1>2, <1>3, <1>4, <1>5, <1>6, <1>7 DEF Covered
<1>. QED BY <1>8, <1>9, <1>10, <1>11 DEF DInv

\* A choice in the top dialog.
LEMMA SelectDInv ==
    ASSUME DInv, NEW c \in Clusters \cup {None}, Select(c)
    PROVE  DInv'
<1>. DEFINE n == Len(layers)
            new == [layers[n] EXCEPT !.value = c]
<1>1. Typed /\ Unique /\ Stacked /\ Covered
  BY DEF DInv
<1>2. layers \in Seq(Layer) /\ n \in Nat /\ layers # <<>> /\ layers[n].kind = "switch"
  BY <1>1, LenProperties DEF Typed, Select, Over, Top
<1>3. n \in 1 .. Len(layers) /\ layers[n] \in Layer
  BY <1>2, EmptySeq, ElementOfSeq
<1>4. new \in Layer /\ new.no = layers[n].no /\ new.kind = "switch"
  BY <1>2, <1>3 DEF Layer
<1>5. layers' = [layers EXCEPT ![n] = new] /\ posts' = posts /\ broken' = broken
  BY DEF Select, bounds
<1>. HIDE DEF new
<1>6. /\ layers' \in Seq(Layer) /\ Len(layers') = n
      /\ \A i \in 1 .. n : layers'[i] = IF i = n THEN new ELSE layers[i]
  BY <1>2, <1>3, <1>4, <1>5, ExceptSeq
<1>7. /\ Running' = Running
      /\ \A i \in 1 .. n : layers'[i].no = layers[i].no /\ layers'[i].kind = layers[i].kind
  BY <1>2, <1>4, <1>5, <1>6 DEF Running
<1>8. Typed'
  BY <1>1, <1>6, <1>5 DEF Select, Typed, bounds
<1>9. Unique'
  BY <1>1, <1>6, <1>7 DEF Unique
<1>10. Stacked'
  <2>1. \A i \in 1 .. n : layers'[i].kind = "confirm" => layers'[i].value = layers[i].value
    BY <1>4, <1>6
  <2>2. ASSUME NEW i \in 1 .. n
        PROVE  /\ i > 1 => layers'[i].kind = "switch"
               /\ layers'[i].kind = "confirm" => layers'[i].value \in Ops
               /\ \A p \in posts :
                     p.live /\ p.kind = "switch" /\ layers'[i].no = p.layer
                        => layers'[i].kind = "switch"
    <3>1. layers'[i].no = layers[i].no /\ layers'[i].kind = layers[i].kind
      BY <1>7
    <3>. QED BY <1>1, <2>1, <3>1 DEF Stacked
  <2>. HIDE DEF n
  <2>. QED BY <2>2, <1>5, <1>6 DEF Stacked
<1>11. Covered'
  <2>1. ASSUME NEW p \in Running
        PROVE  \E i \in 1 .. n : layers'[i].kind = "load" /\ layers'[i].no = p.layer
    BY <1>1, <1>7 DEF Covered
  <2>2. \A i \in 1 .. n : layers'[i].kind = "load" =>
           broken > 0 \/ \E p \in Running : p.layer = layers'[i].no
    BY <1>1, <1>7 DEF Covered
  <2>. HIDE DEF n
  <2>. QED BY <2>1, <2>2, <1>5, <1>6, <1>7 DEF Covered
<1>. QED BY <1>8, <1>9, <1>10, <1>11 DEF DInv

\* A post for the cluster chosen; its answer will close the top dialog.
LEMMA ConfirmSwitchDInv ==
    ASSUME DInv, ConfirmSwitch
    PROVE  DInv'
<1>. DEFINE n == Len(layers)
            new == [no |-> NewPost, kind |-> "switch", value |-> switchPeersId,
                    layer |-> layers[n].no, state |-> "sent", live |-> TRUE]
<1>1. Typed /\ Unique /\ Stacked /\ Covered
  BY DEF DInv
<1>2. layers \in Seq(Layer) /\ n \in Nat /\ layers # <<>> /\ layers[n].kind = "switch"
  BY <1>1, LenProperties DEF Typed, ConfirmSwitch, Over, Top
<1>3. n \in 1 .. Len(layers) /\ layers[n] \in Layer
  BY <1>2, EmptySeq, ElementOfSeq
<1>4. NewPost \in Nat
  BY <1>1, NewPostNat DEF Typed
<1>5. /\ new \in Post /\ new.layer = layers[n].no /\ new.kind = "switch"
      /\ new.value \in Clusters
  BY <1>1, <1>3, <1>4 DEF Post, Layer, Typed, ConfirmSwitch
<1>6. posts' = posts \cup {new} /\ layers' = layers /\ broken' = broken
  BY DEF ConfirmSwitch, Send, Top
<1>. HIDE DEF new
<1>7. Running' = Running
  BY <1>5, <1>6 DEF Running
<1>8. Typed'
  BY <1>1, <1>5, <1>6, FS_AddElement DEF ConfirmSwitch, Typed
<1>9. Unique'
  BY <1>1, <1>6, <1>7 DEF Unique
<1>10. Stacked'
  BY <1>1, <1>2, <1>3, <1>5, <1>6 DEF Stacked, Unique
<1>11. Covered'
  BY <1>1, <1>6, <1>7 DEF Covered
<1>. QED BY <1>8, <1>9, <1>10, <1>11 DEF DInv

\* What stays of the dialogs when one of them, no loader with an operation, closes.
LEMMA CloseDInv ==
    ASSUME DInv, Typed', NEW no, layers' = Without(no), broken' >= broken,
           Running' = Running, \A p \in posts' : p.live /\ p.kind = "switch" => p \in posts,
           \A i \in 1 .. Len(layers) : layers[i].no = no => layers[i].kind # "load"
    PROVE  DInv'
<1>1. Typed /\ Unique /\ Stacked /\ Covered
  BY DEF DInv
<1>2. layers \in Seq(Layer) /\ Len(layers) \in Nat /\ broken \in Nat /\ broken' \in Nat
  BY <1>1, LenProperties DEF Typed
<1>3. CASE layers' = layers
  BY <1>1, <1>2, <1>3 DEF DInv, Unique, Stacked, Covered
<1>4. ASSUME NEW k \in 1 .. Len(layers), layers[k].no = no,
             Len(layers') = Len(layers) - 1,
             \A i \in 1 .. Len(layers) - 1 :
                layers'[i] = IF i < k THEN layers[i] ELSE layers[i + 1]
      PROVE  DInv'
  <2>. DEFINE m == Len(layers) - 1
              old(i) == IF i < k THEN i ELSE i + 1
  <2>1. \A i \in 1 .. m : old(i) \in 1 .. Len(layers) /\ old(i) >= i /\ layers'[i] = layers[old(i)]
    BY <1>2, <1>4
  <2>2. \A i, j \in 1 .. m : old(i) = old(j) => i = j
    BY <1>2
  <2>3. \A j \in 1 .. Len(layers) : j # k => \E i \in 1 .. m : old(i) = j
    <3>1. ASSUME NEW j \in 1 .. Len(layers), j < k PROVE j \in 1 .. m /\ old(j) = j
      BY <3>1, <1>2
    <3>2. ASSUME NEW j \in 1 .. Len(layers), j > k
          PROVE  j - 1 \in 1 .. m /\ old(j - 1) = j
      BY <3>2, <1>2
    <3>. QED BY <3>1, <3>2, <1>2
  <2>4. m \in Int
    BY <1>2
  <2>. HIDE DEF old
  <2>5. Unique'
    BY <1>1, <1>4, <2>1, <2>2, <2>4 DEF Unique
  <2>6. Stacked'
    BY <1>1, <1>4, <1>2, <2>1, <2>4 DEF Stacked
  <2>7. Covered'
    <3>1. ASSUME NEW p \in Running
          PROVE  \E i \in 1 .. m : layers'[i].kind = "load" /\ layers'[i].no = p.layer
      <4>1. PICK j \in 1 .. Len(layers) : layers[j].kind = "load" /\ layers[j].no = p.layer
        BY <1>1 DEF Covered
      <4>2. j # k
        BY <4>1, <1>4
      <4>3. PICK i \in 1 .. m : old(i) = j
        BY <4>2, <2>3
      <4>4. layers'[i] = layers[j]
        BY <4>3, <2>1
      <4>. QED BY <4>1, <4>4
    <3>2. ASSUME NEW i \in 1 .. m, layers'[i].kind = "load"
          PROVE  broken' > 0 \/ \E p \in Running : p.layer = layers'[i].no
      <4>1. old(i) \in 1 .. Len(layers) /\ layers'[i] = layers[old(i)]
        BY <2>1
      <4>2. broken > 0 \/ \E p \in Running : p.layer = layers[old(i)].no
        BY <4>1, <3>2, <1>1 DEF Covered
      <4>. QED BY <4>1, <4>2, <1>2
    <3>. QED BY <3>1, <3>2, <1>4 DEF Covered
  <2>. QED BY <2>5, <2>6, <2>7 DEF DInv
<1>. QED BY <1>2, <1>3, <1>4, Closed

\* A dialog is left.
LEMMA CancelDInv ==
    ASSUME DInv, Cancel
    PROVE  DInv'
<1>. DEFINE n == Len(layers)
<1>1. Typed /\ Unique /\ Stacked /\ Covered
  BY DEF DInv
<1>2. /\ layers \in Seq(Layer) /\ n \in Nat /\ layers # <<>>
      /\ layers[n].kind # "load"
      /\ layers' = Without(layers[n].no)
  BY <1>1, LenProperties DEF Typed, Cancel, Over, Top
<1>3. n \in 1 .. Len(layers)
  BY <1>2, EmptySeq
<1>4. \A i \in 1 .. Len(layers) : layers[i].no = layers[n].no => layers[i].kind # "load"
  BY <1>1, <1>2, <1>3 DEF Unique
<1>5. layers' \in Seq(Layer)
  BY <1>2, Closed
<1>6. posts' = posts /\ broken' = broken /\ Running' = Running
  BY DEF Cancel, bounds, Running
<1>7. Typed'
  BY <1>1, <1>5, <1>6 DEF Typed, Cancel, bounds
<1>8. broken' >= broken
  BY <1>1, <1>6 DEF Typed
<1>. HIDE DEF n
<1>. QED BY <1>2, <1>4, <1>6, <1>7, <1>8, CloseDInv

\* The question whether an operation is meant: nothing else is over the page.
LEMMA ClickOpDInv ==
    ASSUME DInv, NEW op \in Ops, ClickOp(op)
    PROVE  DInv'
<1>. DEFINE new == With("confirm", op)
<1>1. Typed /\ Unique /\ Stacked /\ Covered
  BY DEF DInv
<1>2. layers = <<>> /\ layers \in Seq(Layer) /\ IsFiniteSet(posts)
  BY <1>1 DEF Typed, ClickOp
<1>3. NewLayer \in Nat /\ \A p \in posts : p.layer # NewLayer
  BY <1>2, NewLayerUnused
<1>4. new \in Layer /\ new.no = NewLayer /\ new.kind = "confirm" /\ new.value = op
  BY <1>3 DEF With, Layer
<1>5. layers' = <<new>> /\ posts' = posts /\ broken' = broken
  BY DEF ClickOp, bounds
<1>. HIDE DEF new
<1>6. layers' \in Seq(Layer) /\ Len(layers') = 1 /\ layers'[1] = new
  BY <1>4, <1>5
<1>7. Running = {} /\ Running' = {}
  <2>1. Len(layers) = 0
    BY <1>2
  <2>2. Running = {}
    BY <1>1, <2>1 DEF Covered
  <2>. QED BY <2>2, <1>5 DEF Running
<1>8. Typed'
  BY <1>1, <1>5, <1>6 DEF Typed, ClickOp, bounds
<1>9. Unique'
  BY <1>6, <1>7 DEF Unique
<1>10. Stacked'
  BY <1>3, <1>4, <1>5, <1>6 DEF Stacked
<1>11. Covered'
  BY <1>4, <1>6, <1>7 DEF Covered
<1>. QED BY <1>8, <1>9, <1>10, <1>11 DEF DInv

\* The question is the only dialog; its loader takes its place.
LEMMA ConfirmOpDInv ==
    ASSUME DInv, ConfirmOp
    PROVE  DInv'
<1>. DEFINE n == Len(layers)
            new == With("load", layers[n].value)
            post == [no |-> NewPost, kind |-> "op", value |-> layers[n].value,
                     layer |-> NewLayer, state |-> "sent", live |-> TRUE]
            rest == Without(layers[n].no)
<1>1. Typed /\ Unique /\ Stacked /\ Covered
  BY DEF DInv
<1>2. layers \in Seq(Layer) /\ n \in Nat /\ layers # <<>> /\ layers[n].kind = "confirm"
  BY <1>1, LenProperties DEF Typed, ConfirmOp, Over, Top
<1>3. n \in 1 .. Len(layers) /\ n = 1 /\ layers[n].value \in Ops
  <2>1. n \in 1 .. Len(layers)
    BY <1>2, EmptySeq
  <2>2. ~(n > 1) /\ layers[n].value \in Ops
    BY <1>1, <1>2, <2>1 DEF Stacked
  <2>3. n = 1
    <3>1. n \in Nat /\ n \in 1 .. n /\ ~(n > 1)
      BY <1>2, <2>1, <2>2
    <3>. HIDE DEF n
    <3>. QED BY <3>1
  <2>. QED BY <2>1, <2>2, <2>3
<1>4. NewPost \in Nat /\ NewLayer \in Nat /\ \A p \in posts : p.layer # NewLayer
  BY <1>1, NewPostNat, NewLayerUnused DEF Typed
<1>5. new \in Layer /\ new.no = NewLayer /\ new.kind = "load"
  BY <1>3, <1>4 DEF With, Layer
<1>6. post \in Post /\ post.layer = NewLayer /\ post.kind = "op" /\ post.live
  BY <1>3, <1>4 DEF Post
<1>7. layers' = Append(rest, new) /\ posts' = posts \cup {post} /\ broken' = broken
  BY DEF ConfirmOp, Send, Top, bounds
<1>8. rest \in Seq(Layer) /\ Len(rest) = 0
  <2>1. ~(\A i \in 1 .. Len(layers) : layers[i].no # layers[n].no)
    BY <1>3
  <2>2. rest \in Seq(Layer) /\ Len(rest) = n - 1
    BY <1>2, <2>1, Closed
  <2>. QED BY <2>2, <1>3
<1>9. \A i \in 1 .. Len(layers) : layers[i].kind # "load"
  BY <1>2, <1>3
<1>10. Running = {}
  BY <1>1, <1>9 DEF Covered
<1>. HIDE DEF new, post, rest
<1>11. layers' \in Seq(Layer) /\ Len(layers') = 1 /\ layers'[1] = new
  BY <1>5, <1>7, <1>8, AppendProperties
<1>12. Running' = {post}
  BY <1>6, <1>7, <1>10 DEF Running
<1>13. Typed'
  BY <1>1, <1>6, <1>7, <1>11, FS_AddElement DEF ConfirmOp, Typed, bounds
<1>14. Unique'
  BY <1>11, <1>12 DEF Unique
<1>15. Stacked'
  BY <1>4, <1>5, <1>6, <1>7, <1>11 DEF Stacked
<1>16. Covered'
  BY <1>5, <1>6, <1>11, <1>12 DEF Covered
<1>. QED BY <1>13, <1>14, <1>15, <1>16 DEF DInv

\* A post answered keeps its kind and its dialog; one of a page gone goes.
LEMMA ServeDInv ==
    ASSUME DInv, NEW p \in posts, Serve(p)
    PROVE  DInv'
<1>. DEFINE answered == [p EXCEPT !.state = "ok"]
<1>1. Typed /\ Unique /\ Stacked /\ Covered
  BY DEF DInv
<1>2. p \in Post /\ IsFiniteSet(posts) /\ posts \in SUBSET Post
  BY <1>1 DEF Typed
<1>3. /\ answered \in Post /\ answered.kind = p.kind /\ answered.live = p.live
      /\ answered.layer = p.layer /\ answered.value = p.value
  BY <1>2 DEF Post
<1>4. posts' = (posts \ {p}) \cup (IF p.live THEN {answered} ELSE {})
  BY DEF Serve, Becomes
<1>5. layers' = layers /\ broken' = broken
  BY DEF Serve, bounds
<1>. HIDE DEF answered
<1>6. IsFiniteSet(posts') /\ posts' \in SUBSET Post
  <2>1. IsFiniteSet(posts \ {p})
    BY <1>2, FS_RemoveElement
  <2>2. IsFiniteSet((posts \ {p}) \cup {answered})
    BY <2>1, FS_AddElement
  <2>3. posts' = (posts \ {p}) \cup {answered} \/ posts' = posts \ {p}
    BY <1>4
  <2>4. posts' \in SUBSET Post
    BY <1>2, <1>3, <2>3
  <2>. QED BY <2>1, <2>2, <2>3, <2>4
<1>7. /\ \A q \in Running' : \E r \in Running : r.layer = q.layer /\ (q # r => r = p /\ q = answered)
      /\ \A r \in Running : \E q \in Running' : r.layer = q.layer
  BY <1>3, <1>4 DEF Running
<1>8. Typed'
  <2>1. cluster' \in Clusters
    <3>1. CASE p.kind = "switch" /\ cluster' = p.value
      BY <3>1, <1>1 DEF Typed
    <3>. QED BY <1>1, <3>1 DEF Serve, Typed
  <2>2. missed' \in BOOLEAN
    BY <1>1, <1>2 DEF Serve, Typed, Post
  <2>3. \A q \in posts' : q.kind = "switch" => q.value \in Clusters
    BY <1>1, <1>3, <1>4 DEF Typed
  <2>. QED BY <1>1, <1>6, <2>1, <2>2, <2>3 DEF Serve, Typed, bounds
<1>9. Unique'
  BY <1>1, <1>3, <1>4, <1>5 DEF Unique, Running
<1>10. Stacked'
  BY <1>1, <1>3, <1>4, <1>5 DEF Stacked
<1>11. Covered'
  <2>1. ASSUME NEW q \in Running'
        PROVE  \E i \in 1 .. Len(layers) : layers[i].kind = "load" /\ layers[i].no = q.layer
    BY <1>1, <1>7 DEF Covered
  <2>2. ASSUME NEW i \in 1 .. Len(layers), layers[i].kind = "load"
        PROVE  broken > 0 \/ \E q \in Running' : q.layer = layers[i].no
    <3>1. broken > 0 \/ \E r \in Running : r.layer = layers[i].no
      BY <1>1, <2>2 DEF Covered
    <3>. QED BY <3>1, <1>7
  <2>. QED BY <2>1, <2>2, <1>5 DEF Covered
<1>. QED BY <1>8, <1>9, <1>10, <1>11 DEF DInv

\* A post that fails, or whose answer changes nothing.
LEMMA GoneDInv ==
    ASSUME DInv, NEW p \in posts, NotSwitched(p) \/ Broken(p)
    PROVE  DInv'
<1>1. Typed /\ Unique /\ Stacked /\ Covered
  BY DEF DInv
<1>2. /\ posts' = posts \ {p} /\ layers' = layers
      /\ broken \in Nat /\ broken' \in Nat /\ broken' >= broken
      /\ p.kind = "op" => broken' > 0
  BY <1>1 DEF NotSwitched, Broken, Becomes, Breaks, Typed, bounds
<1>3. Typed'
  <2>1. missed' \in BOOLEAN
    BY <1>1 DEF NotSwitched, Broken, Typed
  <2>2. IsFiniteSet(posts')
    BY <1>1, <1>2, FS_RemoveElement DEF Typed
  <2>. QED BY <1>1, <1>2, <2>1, <2>2 DEF Typed, NotSwitched, Broken, Breaks, bounds
<1>4. Unique'
  BY <1>1, <1>2 DEF Unique, Running
<1>5. Stacked'
  BY <1>1, <1>2 DEF Stacked
<1>6. Covered'
  BY <1>1, <1>2 DEF Covered, Running
<1>. QED BY <1>3, <1>4, <1>5, <1>6 DEF DInv

\* The types after an answer.
LEMMA AnsweredTyped ==
    ASSUME DInv, NEW p \in posts, Answers(p)
    PROVE  /\ Typed' /\ posts' = posts \ {p} /\ layers' = Without(p.layer)
           /\ broken' = broken
<1>1. Typed
  BY DEF DInv
<1>2. /\ posts' = posts \ {p} /\ layers' = Without(p.layer)
      /\ UNCHANGED <<cluster, shown, switchPeersId, asking, switches, broken, missed>>
  BY DEF Answers, Switched, OpAnswered, Becomes, bounds
<1>3. reload' \in BOOLEAN
  BY <1>1 DEF Answers, Switched, OpAnswered, Typed
<1>4. layers' \in Seq(Layer)
  BY <1>1, <1>2, Closed DEF Typed
<1>5. IsFiniteSet(posts')
  BY <1>1, <1>2, FS_RemoveElement DEF Typed
<1>. QED BY <1>1, <1>2, <1>3, <1>4, <1>5 DEF Typed

\* A switch that is heard of closes a dialog that asks for the cluster.
LEMMA SwitchedDInv ==
    ASSUME DInv, NEW p \in posts, Switched(p)
    PROVE  DInv'
<1>1. /\ Typed' /\ posts' = posts \ {p} /\ layers' = Without(p.layer)
      /\ broken' = broken
  BY AnsweredTyped DEF Answers
<1>2. p.live /\ p.kind = "switch"
  BY DEF Switched
<1>3. Running' = Running
  BY <1>1, <1>2 DEF Running
<1>4. \A i \in 1 .. Len(layers) : layers[i].no = p.layer => layers[i].kind # "load"
  BY <1>2 DEF DInv, Stacked
<1>5. broken' >= broken
  BY <1>1 DEF DInv, Typed
<1>. QED BY <1>1, <1>3, <1>4, <1>5, CloseDInv

\* An operation's answer closes its loader, the first of the dialogs.
LEMMA OpAnsweredDInv ==
    ASSUME DInv, NEW p \in posts, OpAnswered(p)
    PROVE  DInv'
<1>1. Typed /\ Unique /\ Stacked /\ Covered
  BY DEF DInv
<1>2. /\ Typed' /\ posts' = posts \ {p} /\ layers' = Without(p.layer)
      /\ broken' = broken
  BY AnsweredTyped DEF Answers
<1>3. p \in Running
  BY DEF OpAnswered, Running
<1>4. Running' = {}
  BY <1>1, <1>2, <1>3 DEF Unique, Running
<1>5. layers \in Seq(Layer) /\ Len(layers) \in Nat
  BY <1>1, LenProperties DEF Typed
<1>6. PICK l \in 1 .. Len(layers) : layers[l].kind = "load" /\ layers[l].no = p.layer
  BY <1>1, <1>3 DEF Covered
<1>7. PICK k \in 1 .. Len(layers) :
          /\ layers[k].no = p.layer
          /\ Len(layers') = Len(layers) - 1
          /\ \A i \in 1 .. Len(layers) - 1 :
                layers'[i] = IF i < k THEN layers[i] ELSE layers[i + 1]
  BY <1>2, <1>5, <1>6, Closed
<1>8. k = 1
  BY <1>1, <1>6, <1>7 DEF Unique, Stacked
<1>9. \A i \in 1 .. Len(layers') :
          i + 1 \in 1 .. Len(layers) /\ i + 1 > 1 /\ layers'[i] = layers[i + 1]
  BY <1>5, <1>7, <1>8
<1>10. \A i \in 1 .. Len(layers') : layers'[i].kind = "switch"
  BY <1>1, <1>9 DEF Stacked
<1>11. \A i, j \in 1 .. Len(layers') : layers'[i].no = layers'[j].no => i = j
  <2>1. ASSUME NEW i \in 1 .. Len(layers'), NEW j \in 1 .. Len(layers'),
               layers'[i].no = layers'[j].no
        PROVE  i = j
    <3>1. i + 1 = j + 1
      BY <1>1, <1>9, <2>1 DEF Unique
    <3>. QED BY <3>1
  <2>. QED BY <2>1
<1>12. Unique'
  BY <1>4, <1>11 DEF Unique
<1>13. Stacked'
  BY <1>10 DEF Stacked
<1>14. Covered'
  BY <1>4, <1>10 DEF Covered
<1>. QED BY <1>2, <1>12, <1>13, <1>14 DEF DInv

\* The page anew: no dialog, and the posts left are nobody's.
LEMMA FreshDInv ==
    ASSUME DInv, Fresh
    PROVE  DInv'
<1>. DEFINE old == {q \in posts : q.kind = "switch" /\ q.state = "sent"}
            gone(q) == [q EXCEPT !.live = FALSE]
            f == [q \in old |-> gone(q)]
<1>1. Typed
  BY DEF DInv
<1>2. posts' = {gone(q) : q \in old} /\ layers' = <<>>
  BY DEF Fresh
<1>3. \A q \in old : gone(q) \in Post /\ gone(q).kind = "switch"
                     /\ gone(q).value = q.value /\ ~gone(q).live
  BY <1>1 DEF Typed, Post
<1>4. \A q \in posts' : q \in Post /\ q.kind = "switch" /\ q.value \in Clusters /\ ~q.live
  BY <1>1, <1>2, <1>3 DEF Typed
<1>5. IsFiniteSet(posts')
  <2>1. IsFiniteSet(old)
    BY <1>1, FS_Subset DEF Typed
  <2>2. f \in Surjection(old, posts')
    BY <1>2 DEF Surjection
  <2>. HIDE DEF f, old
  <2>. QED BY <2>1, <2>2, FS_Surjection
<1>6. layers' \in Seq(Layer) /\ Len(layers') = 0
  BY <1>2
<1>7. Running' = {}
  BY <1>4 DEF Running
<1>8. Typed'
  BY <1>1, <1>4, <1>5, <1>6 DEF Fresh, Typed, bounds
<1>. QED BY <1>6, <1>7, <1>8 DEF DInv, Unique, Stacked, Covered

\* The strengthening for the dialogs is an invariant.
THEOREM DialogInvariance == Spec => []DInv
<1>1. DInv /\ [Next]_vars => DInv'
  <2>1. SUFFICES ASSUME DInv, [Next]_vars PROVE DInv'
    OBVIOUS
  <2>2. CASE ClickSwitch \/ PeersBroken \/ UNCHANGED vars
    <3>1. Typed
      BY <2>1 DEF DInv
    <3>2. UNCHANGED <<layers, posts>> /\ broken' \in Nat /\ broken' >= broken
      BY <2>2, <3>1 DEF ClickSwitch, PeersBroken, Breaks, Typed, vars, bounds
    <3>3. Typed'
      BY <2>2, <3>1, <3>2 DEF ClickSwitch, PeersBroken, Typed, vars, bounds
    <3>. QED BY <2>1, <3>2, <3>3, SameDInv
  <2>3. CASE PeersListed \/ Cancel \/ ConfirmSwitch \/ ConfirmOp
    BY <2>1, <2>3, PeersListedDInv, CancelDInv, ConfirmSwitchDInv, ConfirmOpDInv
  <2>4. CASE \E c \in Clusters \cup {None} : Select(c)
    BY <2>1, <2>4, SelectDInv
  <2>5. CASE \E op \in Ops : ClickOp(op)
    BY <2>1, <2>5, ClickOpDInv
  <2>6. CASE \E p \in posts : Serve(p) \/ NotSwitched(p) \/ Broken(p) \/ Answers(p)
    BY <2>1, <2>6, ServeDInv, GoneDInv, SwitchedDInv, OpAnsweredDInv DEF Answers
  <2>7. CASE Reload \/ ReloadByHand
    BY <2>1, <2>7, FreshDInv DEF Reload, ReloadByHand
  <2>. QED BY <2>1, <2>2, <2>3, <2>4, <2>5, <2>6, <2>7 DEF Next
<1>. QED BY InitDInv, <1>1, PTL DEF Spec

\* Types.
THEOREM TypeCorrect == Spec => []TypeOK
<1>1. DInv => TypeOK
  BY DEF DInv, Typed, TypeOK
<1>. QED BY <1>1, DialogInvariance, PTL

\* A set without two different elements has at most one.
LEMMA AtMostOne ==
    ASSUME NEW S, \A x, y \in S : x = y
    PROVE  Cardinality(S) <= 1
<1>1. CASE S = {}
  BY <1>1, FS_EmptySet
<1>2. CASE \E x : S = {x}
  BY <1>2, FS_Singleton
<1>. QED BY <1>1, <1>2

\* A running operation of the page is covered by its loader and is the only one,
\* and a loader has an operation unless a post failed.
THEOREM LoadersTell == Spec => []LoaderTellsRunning
<1>1. DInv => LoaderTellsRunning
  <2>. DEFINE loaders == {i \in 1 .. Len(layers) : layers[i].kind = "load"}
  <2>. SUFFICES ASSUME DInv PROVE LoaderTellsRunning
    OBVIOUS
  <2>1. Typed /\ Unique /\ Stacked /\ Covered
    BY DEF DInv
  <2>2. Cardinality(Running) <= 1
    BY <2>1, AtMostOne DEF Unique
  <2>3. Cardinality(loaders) <= 1
    <3>1. \A i \in loaders : ~(i > 1)
      BY <2>1 DEF Stacked
    <3>2. \A i, j \in loaders : i = j
      BY <3>1
    <3>. QED BY <3>2, AtMostOne
  <2>4. \A p \in Running : \E i \in loaders : layers[i].no = p.layer
    BY <2>1 DEF Covered
  <2>5. \A i \in loaders : broken > 0 \/ \E p \in Running : p.layer = layers[i].no
    BY <2>1 DEF Covered
  <2>. QED BY <2>2, <2>3, <2>4, <2>5 DEF LoaderTellsRunning, Running
<1>. QED BY <1>1, DialogInvariance, PTL

-----------------------------------------------------------------------------
(* The statistics: the inductive invariant.                                *)

\* Counts of days.
IsCounts(m) == DOMAIN m \in SUBSET Days /\ \A d \in DOMAIN m : m[d] \in Int
Same(a, b) == \A d \in Days : Count(a, d) = Count(b, d)

\* A process at work has the fields of Idle, and is a pass or a repair.
Shape(r) ==
    r \in [step : {r.step}, kind : {r.kind}, day : {r.day}, file : {r.file},
           count : {r.count}, stat : {r.stat}]
PassSteps == {"check", "add", "get", "open", "write", "log", "record"}
PassStep(kind, k) ==
    \/ kind = "save" /\ k \in PassSteps \cup {"again"}
    \/ kind = "remove" /\ k \in PassSteps
    \/ kind = "info" /\ k \in {"record", "again"}
IsPass(r) == r.day \in Days /\ r.file \in Files /\ PassStep(r.kind, r.step)
IsRepair(r) ==
    /\ r.kind = "repair" /\ r.day \in Days /\ r.file = "none" /\ r.count \in Int
    /\ r.step \in {"put", "get", "open", "write"}

ProcsTyped ==
    \A p \in Procs :
        \/ proc[p] = Idle
        \/ /\ Shape(proc[p])
           /\ IsPass(proc[p]) \/ IsRepair(proc[p])
           /\ proc[p].step \in {"open", "write"} => IsCounts(proc[p].stat)

StatTyped ==
    /\ today \in Days
    /\ IsCounts(statMap)
    /\ Readable => IsCounts(statFile)
    /\ ldb \in [Files -> Days \cup {NoDay}]
    /\ filesLog \in SUBSET seen /\ seen \in SUBSET (Days \X Files)
    /\ IsFiniteSet(filesLog)
    /\ removes \in SUBSET (Days \X Files) /\ unlinks \in SUBSET Files
    /\ drifted \in SUBSET Days /\ raced \in BOOLEAN
    /\ proc = [p \in Procs |-> proc[p]] /\ ProcsTyped

\* What a pass is over has been seen.
Known ==
    \A p \in Procs :
        proc[p].kind \in {"save", "remove", "info"} => <<proc[p].day, proc[p].file>> \in seen

\* On a day that has not drifted, passes are over different files, and a repair
\* is alone.
Apart(d) ==
    \A p, q \in Active(d) : p # q => proc[p].kind # "repair" /\ proc[p].file # proc[q].file

\* A file about to be counted has no entry, one about to be discounted has; a pass
\* about to save the record finds the entry there; a repair has counted the entries.
Placed(d) ==
    \A p \in Active(d) :
        /\ proc[p].kind = "save" /\ At(p, "add") => proc[p].file \notin Entries(d)
        /\ proc[p].kind = "remove" /\ At(p, "add") => proc[p].file \in Entries(d)
        /\ proc[p].kind \in {"save", "info"} /\ (At(p, "record") \/ At(p, "again")) =>
              proc[p].file \in Entries(d)
        /\ At(p, "put") => proc[p].count = Cardinality(Entries(d))

\* The files that statMap counts: those with an entry, and those whose pass is
\* past the count and has still to make, or take away, the entry.
Past == {"get", "open", "write", "log", "record", "again"}
Through(d, kind) ==
    {proc[p].file : p \in {q \in Active(d) : proc[q].kind = kind /\ proc[q].step \in Past}}
Counted(d) == (Entries(d) \cup Through(d, "save")) \ Through(d, "remove")

Counting(d) == \E p \in Active(d) : At(p, "put")

DayInv(d) ==
    /\ Apart(d) /\ Placed(d)
    /\ Counting(d) \/ (IsFiniteSet(Counted(d)) /\ Count(statMap, d) = Cardinality(Counted(d)))

\* Unless calls of SaveStat overlapped, one is between the copy and the end of the
\* write; what it writes, or else what is written, is statMap, but for a change
\* whose own call is still to come.
Getting == {p \in Procs : At(p, "get")}
SaveInv ==
    ~raced =>
        /\ \A p, q \in Saving : p = q
        /\ \A p \in Saving : At(p, "write") => statFile = Empty
        /\ Getting = {} =>
              /\ Saving = {} => Same(statFile, statMap)
              /\ \A p \in Saving : Same(proc[p].stat, statMap)

SInv == StatTyped /\ Known /\ SaveInv /\ \A d \in Days \ drifted : DayInv(d)

-----------------------------------------------------------------------------
(* The lemmas.                                                             *)

\* Put changes the count of one day.
LEMMA PutCounts ==
    ASSUME NEW d \in Days, NEW n \in Int, IsCounts(statMap)
    PROVE  /\ IsCounts(Put(d, n))
           /\ \A e : Count(Put(d, n), e) = IF e = d THEN n ELSE Count(statMap, e)
BY DEF IsCounts, Put, Count

\* A day's count is a number.
LEMMA CountInt ==
    ASSUME NEW m, IsCounts(m), NEW d
    PROVE  Count(m, d) \in Int
BY DEF IsCounts, Count

\* Idle is at work on no day and no file.
LEMMA IdleIs ==
    /\ Idle.step = "idle" /\ Idle.kind = "none" /\ Idle.day = NoDay /\ Idle.file = "none"
    /\ NoDay \notin Days /\ Idle.day \notin Days /\ "none" \notin Files
BY StatisticsAssumption DEF Idle, Days

\* What is at work on a day is one of two things.
LEMMA AtWork ==
    ASSUME SInv, NEW p \in Procs, proc[p].step # "idle" \/ proc[p] # Idle \/ proc[p].day \in Days
    PROVE  /\ Shape(proc[p])
           /\ IsPass(proc[p]) \/ IsRepair(proc[p])
           /\ proc[p].step \in {"open", "write"} => IsCounts(proc[p].stat)
           /\ proc[p].step # "idle" /\ proc[p] # Idle
           /\ proc[p].day \in Days /\ p \in Active(proc[p].day)
<1>1. proc[p] # Idle
  BY IdleIs
<1>2. /\ Shape(proc[p])
      /\ IsPass(proc[p]) \/ IsRepair(proc[p])
      /\ proc[p].step \in {"open", "write"} => IsCounts(proc[p].stat)
  BY <1>1 DEF SInv, StatTyped, ProcsTyped
<1>3. proc[p].day \in Days /\ proc[p].step # "idle"
  BY <1>2 DEF IsPass, IsRepair, PassStep, PassSteps
<1>. QED BY <1>1, <1>2, <1>3 DEF Active

\* One process changes.
LEMMA Changed ==
    ASSUME proc = [q \in Procs |-> proc[q]], NEW p \in Procs, NEW r, proc' = [proc EXCEPT ![p] = r]
    PROVE  /\ proc' = [q \in Procs |-> proc'[q]]
           /\ proc'[p] = r
           /\ \A q \in Procs : q # p => proc'[q] = proc[q]
OBVIOUS

\* It goes to another step.
LEMMA GotoIs ==
    ASSUME proc = [q \in Procs |-> proc[q]], NEW p \in Procs, Shape(proc[p]), NEW s, Goto(p, s)
    PROVE  /\ proc' = [q \in Procs |-> proc'[q]]
           /\ \A q \in Procs : q # p => proc'[q] = proc[q]
           /\ proc'[p].step = s /\ Shape(proc'[p])
           /\ proc'[p].kind = proc[p].kind /\ proc'[p].day = proc[p].day
           /\ proc'[p].file = proc[p].file /\ proc'[p].count = proc[p].count
           /\ proc'[p].stat = proc[p].stat
<1>. DEFINE r == [proc[p] EXCEPT !.step = s]
<1>1. proc' = [proc EXCEPT ![p] = r]
  BY DEF Goto
<1>2. /\ r.step = s /\ r.kind = proc[p].kind /\ r.day = proc[p].day
      /\ r.file = proc[p].file /\ r.count = proc[p].count /\ r.stat = proc[p].stat
      /\ Shape(r)
  BY DEF Shape
<1>. HIDE DEF r
<1>3. /\ proc' = [q \in Procs |-> proc'[q]]
      /\ proc'[p] = r
      /\ \A q \in Procs : q # p => proc'[q] = proc[q]
  BY <1>1, Changed
<1>. QED BY <1>2, <1>3

\* A day nobody touches.
LEMMA OtherDay ==
    ASSUME NEW e, DayInv(e), Entries(e)' = Entries(e),
           Count(statMap, e)' = Count(statMap, e),
           \A q \in Procs : proc[q].day = e \/ proc'[q].day = e => proc'[q] = proc[q]
    PROVE  DayInv(e)'
<1>1. Active(e)' = Active(e)
  BY DEF Active
<1>2. \A q \in Active(e) : proc'[q] = proc[q]
  BY DEF Active
<1>3. Apart(e)'
  BY <1>1, <1>2 DEF DayInv, Apart
<1>4. Placed(e)'
  BY <1>1, <1>2 DEF DayInv, Placed, At
<1>5. Counting(e)' <=> Counting(e)
  BY <1>1, <1>2 DEF Counting, At
<1>6. ASSUME NEW k PROVE Through(e, k)' = Through(e, k)
  BY <1>1, <1>2 DEF Through
<1>7. Counted(e)' = Counted(e)
  BY <1>6 DEF Counted
<1>. QED BY <1>3, <1>4, <1>5, <1>7 DEF DayInv

\* p goes to step k, the others stay.
Moves(p, k) ==
    /\ \A q \in Procs : q # p => proc'[q] = proc[q]
    /\ proc'[p].step = k
    /\ proc'[p].kind = proc[p].kind /\ proc'[p].day = proc[p].day
    /\ proc'[p].file = proc[p].file /\ proc'[p].count = proc[p].count

\* Who is at work on a day stays.
LEMMA MoveDay ==
    ASSUME NEW d, DayInv(d), NEW p \in Active(d), NEW k, Moves(p, k)
    PROVE  /\ Active(d)' = Active(d) /\ Apart(d)'
           /\ \A q \in Active(d) :
                /\ proc'[q].kind = proc[q].kind /\ proc'[q].file = proc[q].file
                /\ proc'[q].count = proc[q].count
                /\ proc'[q].step = IF q = p THEN k ELSE proc[q].step
<1>1. Active(d)' = Active(d)
  BY DEF Active, Moves
<1>2. \A q \in Active(d) :
         /\ proc'[q].kind = proc[q].kind /\ proc'[q].file = proc[q].file
         /\ proc'[q].count = proc[q].count
         /\ proc'[q].step = IF q = p THEN k ELSE proc[q].step
  BY DEF Active, Moves
<1>3. Apart(d)'
  BY <1>1, <1>2 DEF DayInv, Apart
<1>. QED BY <1>1, <1>2, <1>3

\* On from one step after the count to the next.
LEMMA PastDay ==
    ASSUME NEW d, DayInv(d), NEW p \in Active(d), NEW k \in Past, Moves(p, k),
           proc[p].step \in Past, Entries(d)' = Entries(d),
           Count(statMap, d)' = Count(statMap, d),
           k \in {"record", "again"} /\ proc[p].kind \in {"save", "info"} =>
                proc[p].file \in Entries(d)
    PROVE  DayInv(d)'
<1>1. /\ Active(d)' = Active(d) /\ Apart(d)'
      /\ \A q \in Active(d) :
           /\ proc'[q].kind = proc[q].kind /\ proc'[q].file = proc[q].file
           /\ proc'[q].count = proc[q].count
           /\ proc'[q].step = IF q = p THEN k ELSE proc[q].step
  BY MoveDay
<1>2. Placed(d)'
  <2>1. SUFFICES ASSUME NEW q \in Active(d)
        PROVE  /\ proc'[q].kind = "save" /\ proc'[q].step = "add" => proc'[q].file \notin Entries(d)
               /\ proc'[q].kind = "remove" /\ proc'[q].step = "add" => proc'[q].file \in Entries(d)
               /\ proc'[q].kind \in {"save", "info"} /\ proc'[q].step \in {"record", "again"} =>
                       proc'[q].file \in Entries(d)
               /\ proc'[q].step = "put" => proc'[q].count = Cardinality(Entries(d))
    BY <1>1 DEF Placed, At
  <2>2. CASE q = p
    BY <2>2, <1>1 DEF Past
  <2>3. CASE q # p
    BY <2>3, <1>1 DEF DayInv, Placed, At
  <2>. QED BY <2>2, <2>3
<1>3. Counting(d)' <=> Counting(d)
  BY <1>1 DEF Counting, At, Past
<1>4. ASSUME NEW i PROVE Through(d, i)' = Through(d, i)
  <2>1. ASSUME NEW q \in Active(d)
        PROVE  proc'[q].step \in Past <=> proc[q].step \in Past
    BY <1>1
  <2>. QED BY <1>1, <2>1 DEF Through
<1>5. Counted(d)' = Counted(d)
  BY <1>4 DEF Counted
<1>. QED BY <1>1, <1>2, <1>3, <1>5 DEF DayInv

\* The entry is made for a file already counted.
LEMMA LogDay ==
    ASSUME NEW d, DayInv(d), NEW p \in Active(d), Moves(p, "record"),
           proc[p].step = "log", proc[p].kind = "save",
           Entries(d)' = Entries(d) \cup {proc[p].file},
           Count(statMap, d)' = Count(statMap, d), ~Counting(d)
    PROVE  DayInv(d)'
<1>. DEFINE f == proc[p].file
<1>1. /\ Active(d)' = Active(d) /\ Apart(d)'
      /\ \A q \in Active(d) :
           /\ proc'[q].kind = proc[q].kind /\ proc'[q].file = proc[q].file
           /\ proc'[q].count = proc[q].count
           /\ proc'[q].step = IF q = p THEN "record" ELSE proc[q].step
  BY MoveDay
<1>2. Placed(d)'
  <2>1. SUFFICES ASSUME NEW q \in Active(d)
        PROVE  /\ proc'[q].kind = "save" /\ proc'[q].step = "add" => proc'[q].file \notin Entries(d)'
               /\ proc'[q].kind = "remove" /\ proc'[q].step = "add" => proc'[q].file \in Entries(d)'
               /\ proc'[q].kind \in {"save", "info"} /\ proc'[q].step \in {"record", "again"} =>
                       proc'[q].file \in Entries(d)'
               /\ proc'[q].step # "put"
    BY <1>1 DEF Placed, At
  <2>2. CASE q = p
    BY <2>2, <1>1
  <2>3. CASE q # p
    BY <2>3, <1>1 DEF DayInv, Placed, At, Apart, Counting
  <2>. QED BY <2>2, <2>3
<1>3. ~Counting(d)'
  BY <1>1 DEF Counting, At
<1>4. ASSUME NEW i PROVE Through(d, i)' = Through(d, i)
  <2>1. ASSUME NEW q \in Active(d)
        PROVE  proc'[q].step \in Past <=> proc[q].step \in Past
    BY <1>1 DEF Past
  <2>. QED BY <1>1, <2>1 DEF Through
<1>5. f \in Through(d, "save") /\ f \notin Through(d, "remove")
  BY DEF Through, Past, DayInv, Apart
<1>6. Counted(d)' = Counted(d)
  BY <1>4, <1>5 DEF Counted
<1>. QED BY <1>1, <1>2, <1>3, <1>6 DEF DayInv

\* A file not yet counted, and the file of a deletion whose entry is still counted.
LEMMA Uncounted ==
    ASSUME NEW d, DayInv(d), NEW p \in Active(d), proc[p].step \in {"check", "add"},
           proc[p].kind \in {"save", "remove"}, NEW i
    PROVE  proc[p].file \notin Through(d, i)
BY DEF DayInv, Apart, Through, Past

\* What comes through joins those that did.
LEMMA JoinsThrough ==
    ASSUME NEW d, DayInv(d), NEW p \in Active(d), NEW k \in Past, Moves(p, k), NEW i
    PROVE  Through(d, i)' = IF proc[p].kind = i THEN Through(d, i) \cup {proc[p].file}
                                               ELSE Through(d, i)
<1>1. /\ Active(d)' = Active(d)
      /\ \A q \in Active(d) :
           /\ proc'[q].kind = proc[q].kind /\ proc'[q].file = proc[q].file
           /\ proc'[q].step = IF q = p THEN k ELSE proc[q].step
  BY MoveDay
<1>2. Through(d, i)' =
        {proc[q].file : q \in {r \in Active(d) : proc[r].kind = i /\ (r = p \/ proc[r].step \in Past)}}
  <2>1. ASSUME NEW q \in Active(d)
        PROVE  proc'[q].step \in Past <=> (q = p \/ proc[q].step \in Past)
    BY <1>1
  <2>. QED BY <1>1, <2>1 DEF Through
<1>3. CASE proc[p].kind = i
  BY <1>2, <1>3 DEF Through
<1>4. CASE proc[p].kind # i
  BY <1>2, <1>4 DEF Through
<1>. QED BY <1>3, <1>4

\* The record is as the entry: nothing is counted, the file goes through as it is.
LEMMA CheckDay ==
    ASSUME NEW d, DayInv(d), NEW p \in Active(d), NEW k \in {"add", "log"}, Moves(p, k),
           proc[p].step = "check", proc[p].kind \in {"save", "remove"},
           Entries(d)' = Entries(d), Count(statMap, d)' = Count(statMap, d),
           (proc[p].file \in Entries(d)) = ((proc[p].kind = "save") = (k = "log"))
    PROVE  DayInv(d)'
<1>. DEFINE f == proc[p].file
<1>1. /\ Active(d)' = Active(d) /\ Apart(d)'
      /\ \A q \in Active(d) :
           /\ proc'[q].kind = proc[q].kind /\ proc'[q].file = proc[q].file
           /\ proc'[q].count = proc[q].count
           /\ proc'[q].step = IF q = p THEN k ELSE proc[q].step
  BY MoveDay
<1>2. Placed(d)'
  <2>1. SUFFICES ASSUME NEW q \in Active(d)
        PROVE  /\ proc'[q].kind = "save" /\ proc'[q].step = "add" => proc'[q].file \notin Entries(d)
               /\ proc'[q].kind = "remove" /\ proc'[q].step = "add" => proc'[q].file \in Entries(d)
               /\ proc'[q].kind \in {"save", "info"} /\ proc'[q].step \in {"record", "again"} =>
                       proc'[q].file \in Entries(d)
               /\ proc'[q].step = "put" => proc'[q].count = Cardinality(Entries(d))
    BY <1>1 DEF Placed, At
  <2>2. CASE q = p
    BY <2>2, <1>1
  <2>3. CASE q # p
    BY <2>3, <1>1 DEF DayInv, Placed, At
  <2>. QED BY <2>2, <2>3
<1>3. Counting(d)' <=> Counting(d)
  BY <1>1 DEF Counting, At
<1>4. Counted(d)' = Counted(d)
  <2>1. CASE k = "add"
    <3>1. ASSUME NEW i PROVE Through(d, i)' = Through(d, i)
      <4>1. ASSUME NEW q \in Active(d)
            PROVE  proc'[q].step \in Past <=> proc[q].step \in Past
        BY <1>1, <2>1 DEF Past
      <4>. QED BY <1>1, <4>1 DEF Through
    <3>. QED BY <3>1 DEF Counted
  <2>2. CASE k = "log"
    <3>1. f \notin Through(d, "save") /\ f \notin Through(d, "remove")
      BY Uncounted
    <3>2. k \in Past
      BY <2>2 DEF Past
    <3>3. CASE proc[p].kind = "save"
      <4>1. /\ Through(d, "save")' = Through(d, "save") \cup {f}
            /\ Through(d, "remove")' = Through(d, "remove") /\ f \in Entries(d)
        BY <3>2, <3>3, <2>2, JoinsThrough
      <4>. QED BY <4>1, <3>1 DEF Counted
    <3>4. CASE proc[p].kind = "remove"
      <4>1. /\ Through(d, "save")' = Through(d, "save")
            /\ Through(d, "remove")' = Through(d, "remove") \cup {f} /\ f \notin Entries(d)
        BY <3>2, <3>4, <2>2, JoinsThrough
      <4>. QED BY <4>1, <3>1 DEF Counted
    <3>. QED BY <3>3, <3>4
  <2>. QED BY <2>1, <2>2
<1>. QED BY <1>1, <1>2, <1>3, <1>4 DEF DayInv

\* The file is counted, or no longer.
LEMMA AddDay ==
    ASSUME NEW d, DayInv(d), NEW p \in Active(d), Moves(p, "get"),
           proc[p].step = "add", proc[p].kind \in {"save", "remove"},
           Entries(d)' = Entries(d), ~Counting(d),
           Count(statMap, d)' = Count(statMap, d) + (IF proc[p].kind = "save" THEN 1 ELSE -1)
    PROVE  DayInv(d)'
<1>. DEFINE f == proc[p].file
<1>1. /\ Active(d)' = Active(d) /\ Apart(d)'
      /\ \A q \in Active(d) :
           /\ proc'[q].kind = proc[q].kind /\ proc'[q].file = proc[q].file
           /\ proc'[q].count = proc[q].count
           /\ proc'[q].step = IF q = p THEN "get" ELSE proc[q].step
  BY MoveDay
<1>2. Placed(d)'
  <2>1. SUFFICES ASSUME NEW q \in Active(d)
        PROVE  /\ proc'[q].kind = "save" /\ proc'[q].step = "add" => proc'[q].file \notin Entries(d)
               /\ proc'[q].kind = "remove" /\ proc'[q].step = "add" => proc'[q].file \in Entries(d)
               /\ proc'[q].kind \in {"save", "info"} /\ proc'[q].step \in {"record", "again"} =>
                       proc'[q].file \in Entries(d)
               /\ proc'[q].step = "put" => proc'[q].count = Cardinality(Entries(d))
    BY <1>1 DEF Placed, At
  <2>2. CASE q = p
    BY <2>2, <1>1
  <2>3. CASE q # p
    BY <2>3, <1>1 DEF DayInv, Placed, At
  <2>. QED BY <2>2, <2>3
<1>3. f \notin Through(d, "save") /\ f \notin Through(d, "remove")
  BY Uncounted
<1>4. IsFiniteSet(Counted(d)) /\ Count(statMap, d) = Cardinality(Counted(d))
      /\ Cardinality(Counted(d)) \in Nat
  BY FS_CardinalityType DEF DayInv
<1>5. IsFiniteSet(Counted(d)') /\ Count(statMap, d)' = Cardinality(Counted(d)')
  <2>1. CASE proc[p].kind = "save"
    <3>1. /\ Through(d, "save")' = Through(d, "save") \cup {f}
          /\ Through(d, "remove")' = Through(d, "remove") /\ f \notin Entries(d)
      BY <2>1, JoinsThrough DEF Past, DayInv, Placed, At
    <3>2. Counted(d)' = Counted(d) \cup {f} /\ f \notin Counted(d)
      BY <3>1, <1>3 DEF Counted
    <3>3. /\ IsFiniteSet(Counted(d) \cup {f})
          /\ Cardinality(Counted(d) \cup {f}) = Cardinality(Counted(d)) + 1
      BY <3>2, <1>4, FS_AddElement
    <3>4. Counted(d)' = Counted(d) \cup {f}
      BY <3>2
    <3>. HIDE DEF f
    <3>. QED BY <3>3, <3>4, <1>4, <2>1
  <2>2. CASE proc[p].kind = "remove"
    <3>1. /\ Through(d, "save")' = Through(d, "save")
          /\ Through(d, "remove")' = Through(d, "remove") \cup {f} /\ f \in Entries(d)
      BY <2>2, JoinsThrough DEF Past, DayInv, Placed, At
    <3>2. Counted(d)' = Counted(d) \ {f} /\ f \in Counted(d)
      BY <3>1, <1>3 DEF Counted
    <3>3. /\ IsFiniteSet(Counted(d) \ {f})
          /\ Cardinality(Counted(d) \ {f}) = Cardinality(Counted(d)) - 1
      BY <3>2, <1>4, FS_RemoveElement
    <3>4. Counted(d)' = Counted(d) \ {f}
      BY <3>2
    <3>. HIDE DEF f
    <3>. QED BY <3>3, <3>4, <1>4, <2>2
  <2>. QED BY <2>1, <2>2
<1>. QED BY <1>1, <1>2, <1>5 DEF DayInv

\* p is idle from here on, the others stay.
Leaves(p) ==
    /\ \A q \in Procs : q # p => proc'[q] = proc[q]
    /\ proc'[p] = Idle

\* One less is at work on the day.
LEMMA LeavesDay ==
    ASSUME NEW d \in Days, DayInv(d), NEW p \in Active(d), Leaves(p)
    PROVE  /\ Active(d)' = Active(d) \ {p} /\ Apart(d)'
           /\ \A q \in Active(d) \ {p} : proc'[q] = proc[q]
<1>1. p \notin Active(d)'
  BY IdleIs DEF Active, Leaves
<1>2. /\ Active(d)' = Active(d) \ {p}
      /\ \A q \in Active(d) \ {p} : proc'[q] = proc[q]
  BY <1>1 DEF Active, Leaves
<1>3. Apart(d)'
  BY <1>2 DEF DayInv, Apart
<1>. QED BY <1>2, <1>3

\* What has been through stays counted as its entry is, or is not, there.
LEMMA DoneDay ==
    ASSUME NEW d \in Days, DayInv(d), NEW p \in Active(d), Leaves(p),
           \/ /\ proc[p].step = "again" /\ proc[p].kind \in {"save", "info"}
              /\ Entries(d)' = Entries(d)
           \/ /\ proc[p].step = "record" /\ proc[p].kind = "remove"
              /\ Entries(d)' = Entries(d) \ {proc[p].file},
           Count(statMap, d)' = Count(statMap, d), ~Counting(d)
    PROVE  DayInv(d)'
<1>. DEFINE f == proc[p].file
<1>1. /\ Active(d)' = Active(d) \ {p} /\ Apart(d)'
      /\ \A q \in Active(d) \ {p} : proc'[q] = proc[q]
  BY LeavesDay
<1>2. \A q \in Active(d) \ {p} : proc[q].file # f
  BY DEF DayInv, Apart
<1>3. Placed(d)'
  <2>1. SUFFICES ASSUME NEW q \in Active(d) \ {p}
        PROVE  /\ proc[q].kind = "save" /\ proc[q].step = "add" => proc[q].file \notin Entries(d)'
               /\ proc[q].kind = "remove" /\ proc[q].step = "add" => proc[q].file \in Entries(d)'
               /\ proc[q].kind \in {"save", "info"} /\ proc[q].step \in {"record", "again"} =>
                       proc[q].file \in Entries(d)'
               /\ proc[q].step # "put"
    BY <1>1 DEF Placed, At
  <2>. QED BY <1>2 DEF DayInv, Placed, At, Counting
<1>4. ~Counting(d)'
  BY <1>1 DEF Counting, At
<1>5. ASSUME NEW i
      PROVE  Through(d, i)' = IF proc[p].kind = i THEN Through(d, i) \ {f} ELSE Through(d, i)
  <2>1. Through(d, i)' =
          {proc[q].file : q \in {r \in Active(d) \ {p} : proc[r].kind = i /\ proc[r].step \in Past}}
    BY <1>1 DEF Through
  <2>2. f \notin Through(d, i)'
    BY <1>2, <2>1
  <2>3. CASE proc[p].kind = i
    BY <2>1, <2>2, <2>3 DEF Through
  <2>4. CASE proc[p].kind # i
    BY <2>1, <2>4 DEF Through
  <2>. QED BY <2>3, <2>4
<1>6. Counted(d)' = Counted(d)
  <2>1. CASE proc[p].kind = "save"
    <3>1. f \in Entries(d) /\ f \notin Through(d, "remove")
      BY <2>1 DEF DayInv, Placed, At, Apart, Through
    <3>. QED BY <3>1, <2>1, <1>5 DEF Counted
  <2>2. CASE proc[p].kind = "remove"
    <3>1. f \notin Through(d, "save") /\ f \in Through(d, "remove")
      BY <2>2 DEF DayInv, Apart, Through, Past
    <3>. QED BY <3>1, <2>2, <1>5 DEF Counted
  <2>3. CASE proc[p].kind = "info"
    BY <2>3, <1>5 DEF Counted
  <2>. QED BY <2>1, <2>2, <2>3
<1>. QED BY <1>1, <1>3, <1>4, <1>6 DEF DayInv

\* A repair has its day for itself.
LEMMA AloneDay ==
    ASSUME NEW d, DayInv(d), NEW p \in Active(d), proc[p].kind = "repair"
    PROVE  Active(d) = {p} /\ Counted(d) = Entries(d)
<1>1. Active(d) = {p}
  BY DEF DayInv, Apart
<1>2. Through(d, "save") = {} /\ Through(d, "remove") = {}
  BY <1>1 DEF Through
<1>. QED BY <1>1, <1>2 DEF Counted

\* A repair puts the number of entries it found.
LEMMA PutDay ==
    ASSUME NEW d, DayInv(d), NEW p \in Active(d), Moves(p, "get"), IsFiniteSet(Entries(d)),
           proc[p].step = "put", proc[p].kind = "repair",
           Entries(d)' = Entries(d), Count(statMap, d)' = proc[p].count
    PROVE  DayInv(d)'
<1>1. /\ Active(d)' = Active(d) /\ Apart(d)' /\ Active(d) = {p}
      /\ proc'[p].step = "get" /\ proc'[p].kind = "repair"
  BY MoveDay, AloneDay DEF Moves
<1>2. Placed(d)' /\ ~Counting(d)'
  BY <1>1 DEF Placed, Counting, At
<1>3. Through(d, "save")' = {} /\ Through(d, "remove")' = {}
  BY <1>1 DEF Through
<1>4. Counted(d)' = Entries(d)
  BY <1>3 DEF Counted
<1>5. proc[p].count = Cardinality(Entries(d))
  BY DEF DayInv, Placed, At
<1>. QED BY <1>1, <1>2, <1>4, <1>5 DEF DayInv

\* A day with nothing at work.
LEMMA QuietDay ==
    ASSUME NEW d, Active(d)' = {}, IsFiniteSet(Entries(d)'), Count(statMap, d)' = Cardinality(Entries(d)')
    PROVE  DayInv(d)'
<1>1. Through(d, "save")' = {} /\ Through(d, "remove")' = {}
  BY DEF Through
<1>2. Counted(d)' = Entries(d)'
  BY <1>1 DEF Counted
<1>. QED BY <1>2 DEF DayInv, Apart, Placed

\* A repair is done.
LEMMA RepairedDay ==
    ASSUME NEW d \in Days, DayInv(d), NEW p \in Active(d), Leaves(p), proc[p].kind = "repair",
           proc[p].step # "put", Entries(d)' = Entries(d), Count(statMap, d)' = Count(statMap, d)
    PROVE  DayInv(d)'
<1>1. Active(d) = {p} /\ Counted(d) = Entries(d) /\ Active(d)' = {}
  BY AloneDay, LeavesDay
<1>2. ~Counting(d)
  BY <1>1 DEF Counting, At
<1>3. IsFiniteSet(Entries(d)) /\ Count(statMap, d) = Cardinality(Entries(d))
  BY <1>1, <1>2 DEF DayInv
<1>. QED BY <1>1, <1>3, QuietDay

\* A pass over another file joins those at work on a day.
LEMMA BeginDay ==
    ASSUME NEW d \in Days, DayInv(d), NEW p \in Procs, proc[p] = Idle,
           \A q \in Procs : q # p => proc'[q] = proc[q],
           proc'[p].day = d,
           \/ proc'[p].step = "check" /\ proc'[p].kind \in {"save", "remove"}
           \/ proc'[p].step = "record" /\ proc'[p].kind = "info" /\ proc'[p].file \in Entries(d),
           \A q \in Active(d) : proc[q].kind # "repair" /\ proc[q].file # proc'[p].file,
           Entries(d)' = Entries(d), Count(statMap, d)' = Count(statMap, d)
    PROVE  DayInv(d)'
<1>1. p \notin Active(d)
  BY IdleIs DEF Active
<1>2. Active(d)' = Active(d) \cup {p} /\ \A q \in Active(d) : proc'[q] = proc[q]
  BY <1>1 DEF Active
<1>3. Apart(d)'
  <2>1. SUFFICES ASSUME NEW q \in Active(d) \cup {p}, NEW r \in Active(d) \cup {p}, q # r
        PROVE  proc'[q].kind # "repair" /\ proc'[q].file # proc'[r].file
    BY <1>2 DEF Apart
  <2>2. CASE q = p
    BY <2>1, <2>2, <1>2
  <2>3. CASE q # p
    BY <2>1, <2>3, <1>2 DEF DayInv, Apart
  <2>. QED BY <2>2, <2>3
<1>4. Placed(d)'
  BY <1>2 DEF DayInv, Placed, At
<1>5. Counting(d)' <=> Counting(d)
  BY <1>2 DEF Counting, At
<1>6. ASSUME NEW i \in {"save", "remove"} PROVE Through(d, i)' = Through(d, i)
  BY <1>1, <1>2 DEF Through, Past
<1>7. Counted(d)' = Counted(d)
  BY <1>6 DEF Counted
<1>. QED BY <1>3, <1>4, <1>5, <1>7 DEF DayInv

\* A repair looks at a day on which nothing is at work.
LEMMA ScanDay ==
    ASSUME NEW d \in Days, Active(d) = {}, NEW p \in Procs,
           \A q \in Procs : q # p => proc'[q] = proc[q],
           proc'[p].step = "put", proc'[p].kind = "repair", proc'[p].day = d,
           proc'[p].count = Cardinality(Entries(d)), Entries(d)' = Entries(d)
    PROVE  DayInv(d)'
<1>1. Active(d)' = {p}
  BY DEF Active
<1>. QED BY <1>1 DEF DayInv, Apart, Placed, Counting, At

\* The steps of SaveStat.
SaveSteps == {"get", "open", "write"}

\* No step of SaveStat.
LEMMA QuietSave ==
    ASSUME SaveInv, UNCHANGED <<raced, statFile, statMap>>,
           \A q \in Procs : proc[q].step \in SaveSteps \/ proc'[q].step \in SaveSteps =>
                proc'[q].step = proc[q].step /\ proc'[q].stat = proc[q].stat
    PROVE  SaveInv'
<1>1. Saving' = Saving /\ Getting' = Getting
  BY DEF Saving, Getting, At, SaveSteps
<1>2. \A q \in Saving : proc'[q].step = proc[q].step /\ proc'[q].stat = proc[q].stat
  BY DEF Saving, SaveSteps
<1>. QED BY <1>1, <1>2 DEF SaveInv, At, Same

\* A process that goes to a step of its own kind.
LEMMA GotoTyped ==
    ASSUME SInv, NEW p \in Procs, proc[p].step # "idle", NEW k, Goto(p, k),
           k \in {"open", "write"} => IsCounts(proc[p].stat),
           \/ IsPass(proc[p]) /\ PassStep(proc[p].kind, k)
           \/ IsRepair(proc[p]) /\ k \in {"put", "get", "open", "write"}
    PROVE  /\ proc' = [q \in Procs |-> proc'[q]] /\ ProcsTyped'
           /\ Moves(p, k) /\ proc'[p].stat = proc[p].stat
<1>0. proc[p].step # "idle" \/ proc[p] # Idle \/ proc[p].day \in Days
  OBVIOUS
<1>1. Shape(proc[p])
  BY <1>0, AtWork
<1>2. /\ proc' = [q \in Procs |-> proc'[q]]
      /\ \A q \in Procs : q # p => proc'[q] = proc[q]
      /\ proc'[p].step = k /\ Shape(proc'[p])
      /\ proc'[p].kind = proc[p].kind /\ proc'[p].day = proc[p].day
      /\ proc'[p].file = proc[p].file /\ proc'[p].count = proc[p].count
      /\ proc'[p].stat = proc[p].stat
  BY <1>1, GotoIs DEF SInv, StatTyped
<1>3. IsPass(proc'[p]) \/ IsRepair(proc'[p])
  BY <1>2 DEF IsPass, IsRepair
<1>4. ProcsTyped'
  <2>1. SUFFICES ASSUME NEW q \in Procs
        PROVE  \/ proc'[q] = Idle
               \/ /\ Shape(proc'[q])
                  /\ IsPass(proc'[q]) \/ IsRepair(proc'[q])
                  /\ proc'[q].step \in {"open", "write"} => IsCounts(proc'[q].stat)
    BY DEF ProcsTyped
  <2>2. CASE q = p
    BY <2>2, <1>2, <1>3
  <2>3. CASE q # p
    BY <2>3, <1>2 DEF SInv, StatTyped, ProcsTyped
  <2>. QED BY <2>2, <2>3
<1>. QED BY <1>2, <1>4 DEF Moves

\* A process that is done.
LEMMA DoneTyped ==
    ASSUME SInv, NEW p \in Procs, Done(p)
    PROVE  proc' = [q \in Procs |-> proc'[q]] /\ ProcsTyped' /\ Leaves(p)
<1>1. /\ proc' = [q \in Procs |-> proc'[q]]
      /\ proc'[p] = Idle
      /\ \A q \in Procs : q # p => proc'[q] = proc[q]
  <2>1. proc = [q \in Procs |-> proc[q]] /\ proc' = [proc EXCEPT ![p] = Idle]
    BY DEF SInv, StatTyped, Done
  <2>. QED BY <2>1, Changed
<1>2. ProcsTyped'
  BY <1>1 DEF SInv, StatTyped, ProcsTyped
<1>. QED BY <1>1, <1>2 DEF Leaves

\* The days, when one process is at work and on day d only.
LEMMA OneDay ==
    ASSUME SInv, NEW p \in Procs, NEW d \in Days, StatTyped', SaveInv', Known',
           \A q \in Procs : q # p => proc'[q] = proc[q],
           proc[p].day \in {d, NoDay}, proc'[p].day \in {d, NoDay},
           \A e \in Days : e # d => Entries(e)' = Entries(e)
                                   /\ Count(statMap, e)' = Count(statMap, e),
           \A e \in drifted : e # d => e \in drifted',
           d \notin drifted' => DayInv(d)'
    PROVE  SInv'
<1>1. ASSUME NEW e \in Days, e \notin drifted', e # d
      PROVE  DayInv(e)'
  <2>1. \A q \in Procs : proc[q].day = e \/ proc'[q].day = e => proc'[q] = proc[q]
    BY <1>1, IdleIs
  <2>2. DayInv(e) /\ Entries(e)' = Entries(e) /\ Count(statMap, e)' = Count(statMap, e)
    BY <1>1 DEF SInv
  <2>. QED BY <2>1, <2>2, OtherDay
<1>. QED BY <1>1 DEF SInv

\* The same day, when neither count nor log changes.
LEMMA SameLog ==
    ASSUME NEW e, UNCHANGED <<statMap, filesLog>>
    PROVE  Entries(e)' = Entries(e) /\ Count(statMap, e)' = Count(statMap, e)
BY DEF Entries

\* What is at a step of saveFileMd5Log alone.
LEMMA PassIs ==
    ASSUME SInv, NEW p \in Procs, proc[p].step \in {"check", "add", "log", "record", "again"}
    PROVE  /\ proc[p].day \in Days /\ proc[p].file \in Files
           /\ IsPass(proc[p]) /\ p \in Active(proc[p].day)
           /\ proc[p].step \in {"check", "add", "log"} => proc[p].kind \in {"save", "remove"}
           /\ proc[p].kind \in {"save", "remove", "info"}
           /\ proc[p].step = "again" => proc[p].kind \in {"save", "info"}
<1>1. proc[p].step # "idle"
  OBVIOUS
<1>2. IsPass(proc[p]) \/ IsRepair(proc[p])
  BY <1>1, AtWork
<1>3. p \in Active(proc[p].day)
  BY <1>1, AtWork
<1>. QED BY <1>2, <1>3 DEF IsPass, IsRepair, PassStep, PassSteps

\* What a process is at work on stays seen.
LEMMA KnownStays ==
    ASSUME SInv, NEW p \in Procs, seen \subseteq seen',
           \A q \in Procs : q # p => proc'[q] = proc[q],
           \/ proc'[p] = Idle \/ proc'[p].kind = "repair"
           \/ proc'[p].kind = proc[p].kind /\ proc'[p].day = proc[p].day /\ proc'[p].file = proc[p].file
    PROVE  Known'
<1>1. SUFFICES ASSUME NEW q \in Procs, proc'[q].kind \in {"save", "remove", "info"}
      PROVE  <<proc'[q].day, proc'[q].file>> \in seen'
  BY DEF Known
<1>2. CASE q = p
  BY <1>1, <1>2, IdleIs DEF SInv, Known
<1>3. CASE q # p
  BY <1>1, <1>3 DEF SInv, Known
<1>. QED BY <1>2, <1>3

\* saveFileMd5Log looks at the record: on a day that has not drifted, that tells
\* whether the entry is there.
LEMMA CheckSInv ==
    ASSUME SInv, NEW p \in Procs, Check(p)
    PROVE  SInv'
<1>0. proc[p].step = "check"
  BY DEF Check, At
<1>1. PICK d \in Days, f \in Files :
         /\ d = proc[p].day /\ f = proc[p].file
         /\ IsPass(proc[p]) /\ p \in Active(d) /\ proc[p].kind \in {"save", "remove"}
  BY <1>0, PassIs
<1>2. PICK k \in {"add", "log"} :
         /\ Goto(p, k) /\ (((proc[p].kind = "save") = (k = "log")) <=> (ldb[f] # NoDay))
         /\ drifted' = drifted \cup Astray(d, f)
  <2>1. CASE (ldb[f] = NoDay) = (proc[p].kind = "save")
    BY <1>1, <2>1 DEF Check
  <2>2. CASE ~((ldb[f] = NoDay) = (proc[p].kind = "save"))
    BY <1>1, <2>2 DEF Check
  <2>. QED BY <2>1, <2>2
<1>5. /\ proc' = [q \in Procs |-> proc'[q]] /\ ProcsTyped'
      /\ Moves(p, k)
  BY <1>0, <1>1, <1>2, GotoTyped DEF PassStep, PassSteps
<1>6. UNCHANGED <<today, statMap, statFile, ldb, filesLog, seen, removes, unlinks, raced>>
  BY DEF Check, count, store, queues, history
<1>7. StatTyped'
  <2>1. drifted' \in SUBSET Days
    BY <1>1, <1>2 DEF Astray, SInv, StatTyped
  <2>. QED BY <2>1, <1>5, <1>6 DEF SInv, StatTyped, Readable
<1>8. SaveInv'
  <2>1. \A q \in Procs : proc[q].step \in SaveSteps \/ proc'[q].step \in SaveSteps =>
            proc'[q].step = proc[q].step /\ proc'[q].stat = proc[q].stat
    BY <1>1, <1>0, <1>5 DEF Moves, SaveSteps
  <2>. QED BY <2>1, <1>6, QuietSave DEF SInv
<1>9. ASSUME d \notin drifted' PROVE DayInv(d)'
  <2>1. DayInv(d) /\ (f \in Entries(d) <=> ldb[f] # NoDay)
    BY <1>2, <1>9 DEF SInv, Astray
  <2>2. (f \in Entries(d)) = ((proc[p].kind = "save") = (k = "log"))
    BY <2>1, <1>2
  <2>3. Entries(d)' = Entries(d) /\ Count(statMap, d)' = Count(statMap, d)
    BY <1>6, SameLog
  <2>. QED BY <2>1, <2>2, <2>3, <1>0, <1>1, <1>5, CheckDay
<1>10. proc[p].day \in {d, NoDay} /\ proc'[p].day \in {d, NoDay}
  BY <1>1, <1>5 DEF Moves
<1>11. \A e \in Days : Entries(e)' = Entries(e) /\ Count(statMap, e)' = Count(statMap, e)
  BY <1>6, SameLog
<1>12. \A e \in drifted : e \in drifted'
  BY <1>2
<1>13. \A q \in Procs : q # p => proc'[q] = proc[q]
  BY <1>5 DEF Moves
<1>14. Known'
  BY <1>5, <1>6, <1>13, KnownStays DEF Moves
<1>. QED BY <1>7, <1>8, <1>9, <1>10, <1>11, <1>12, <1>13, <1>14, OneDay

\* Beside a pass no repair counts.
LEMMA PassAlone ==
    ASSUME SInv, NEW d \in Days, DayInv(d), NEW p \in Active(d), proc[p].step # "put"
    PROVE  ~Counting(d)
<1>1. SUFFICES ASSUME NEW q \in Active(d), proc[q].step = "put" PROVE FALSE
  BY DEF Counting, At
<1>2. q \in Procs /\ proc[q].step # "idle"
  BY <1>1 DEF Active
<1>3. proc[q].kind = "repair"
  BY <1>1, <1>2, AtWork DEF IsPass, IsRepair, PassStep, PassSteps
<1>. QED BY <1>1, <1>3 DEF DayInv, Apart

\* The file is counted.
LEMMA AddSInv ==
    ASSUME SInv, NEW p \in Procs, Add(p)
    PROVE  SInv'
<1>0. proc[p].step = "add" /\ Goto(p, "get")
  BY DEF Add, At
<1>1. PICK d \in Days, f \in Files :
         /\ d = proc[p].day /\ f = proc[p].file
         /\ IsPass(proc[p]) /\ p \in Active(d) /\ proc[p].kind \in {"save", "remove"}
  BY <1>0, PassIs
<1>2. PICK n \in {1, -1} :
         statMap' = Put(d, Count(statMap, d) + n) /\ n = (IF proc[p].kind = "save" THEN 1 ELSE -1)
  BY <1>1 DEF Add, AddCount
<1>3. IsCounts(statMap) /\ Count(statMap, d) + n \in Int
  BY <1>2, CountInt DEF SInv, StatTyped
<1>4. /\ IsCounts(statMap')
      /\ \A e : Count(statMap, e)' = IF e = d THEN Count(statMap, d) + n ELSE Count(statMap, e)
  BY <1>2, <1>3, PutCounts
<1>5. /\ proc' = [q \in Procs |-> proc'[q]] /\ ProcsTyped'
      /\ Moves(p, "get") /\ proc'[p].stat = proc[p].stat
  BY <1>0, <1>1, GotoTyped DEF PassStep, PassSteps
<1>6. UNCHANGED <<today, statFile, ldb, filesLog, seen, removes, unlinks, drifted, raced>>
  BY DEF Add, count, store, queues, history
<1>7. StatTyped'
  BY <1>4, <1>5, <1>6 DEF SInv, StatTyped, Readable
<1>8. SaveInv'
  <2>1. p \in Getting'
    BY <1>5 DEF Getting, At, Moves
  <2>2. Saving' = Saving /\ \A q \in Saving : proc'[q] = proc[q]
    BY <1>0, <1>5 DEF Saving, Moves
  <2>. QED BY <2>1, <2>2, <1>6 DEF SInv, SaveInv, At
<1>9. \A e : Entries(e)' = Entries(e)
  BY <1>6 DEF Entries
<1>10. ASSUME d \notin drifted' PROVE DayInv(d)'
  <2>1. DayInv(d)
    BY <1>6, <1>10 DEF SInv
  <2>2. ~Counting(d)
    BY <2>1, <1>0, <1>1, PassAlone
  <2>3. Count(statMap, d)' = Count(statMap, d) + (IF proc[p].kind = "save" THEN 1 ELSE -1)
    BY <1>2, <1>4
  <2>. QED BY <2>1, <2>2, <2>3, <1>0, <1>1, <1>5, <1>9, AddDay
<1>11. proc[p].day \in {d, NoDay} /\ proc'[p].day \in {d, NoDay}
  BY <1>1, <1>5 DEF Moves
<1>12. \A e \in Days : e # d => Entries(e)' = Entries(e) /\ Count(statMap, e)' = Count(statMap, e)
  BY <1>4, <1>9
<1>13. \A q \in Procs : q # p => proc'[q] = proc[q]
  BY <1>5 DEF Moves
<1>14. Known'
  BY <1>5, <1>6, <1>13, KnownStays DEF Moves
<1>. QED BY <1>6, <1>7, <1>8, <1>10, <1>11, <1>12, <1>13, <1>14, OneDay

\* files.md5 gets the entry.
LEMMA LogEntrySInv ==
    ASSUME SInv, NEW p \in Procs, PutEntry(p), proc[p].step = "log"
    PROVE  SInv'
<1>0. proc[p].kind = "save" /\ Goto(p, "record")
  BY DEF PutEntry, At
<1>1. PICK d \in Days, f \in Files :
         /\ d = proc[p].day /\ f = proc[p].file
         /\ IsPass(proc[p]) /\ p \in Active(d)
  BY <1>0, PassIs
<1>2. filesLog' = filesLog \cup {<<d, f>>} /\ <<d, f>> \in seen
  BY <1>0, <1>1 DEF PutEntry, SInv, Known
<1>5. /\ proc' = [q \in Procs |-> proc'[q]] /\ ProcsTyped'
      /\ Moves(p, "record") /\ proc'[p].stat = proc[p].stat
  BY <1>0, <1>1, GotoTyped DEF PassStep, PassSteps
<1>6. UNCHANGED <<today, statMap, statFile, ldb, seen, removes, unlinks, drifted, raced>>
  BY DEF PutEntry, count, store, queues, history
<1>7. StatTyped'
  BY <1>2, <1>5, <1>6, FS_AddElement DEF SInv, StatTyped, Readable
<1>8. SaveInv'
  <2>1. \A q \in Procs : proc[q].step \in SaveSteps \/ proc'[q].step \in SaveSteps =>
            proc'[q].step = proc[q].step /\ proc'[q].stat = proc[q].stat
    BY <1>0, <1>5 DEF Moves, SaveSteps
  <2>. QED BY <2>1, <1>6, QuietSave DEF SInv
<1>9. /\ Entries(d)' = Entries(d) \cup {f}
      /\ \A e : e # d => Entries(e)' = Entries(e)
  BY <1>2 DEF Entries
<1>10. ASSUME d \notin drifted' PROVE DayInv(d)'
  <2>1. DayInv(d)
    BY <1>6, <1>10 DEF SInv
  <2>2. ~Counting(d)
    BY <2>1, <1>0, <1>1, PassAlone
  <2>. QED BY <2>1, <2>2, <1>0, <1>1, <1>5, <1>6, <1>9, LogDay
<1>11. proc[p].day \in {d, NoDay} /\ proc'[p].day \in {d, NoDay}
  BY <1>1, <1>5 DEF Moves
<1>12. \A e \in Days : e # d => Entries(e)' = Entries(e) /\ Count(statMap, e)' = Count(statMap, e)
  BY <1>6, <1>9
<1>13. \A q \in Procs : q # p => proc'[q] = proc[q]
  BY <1>5 DEF Moves
<1>14. Known'
  BY <1>5, <1>6, <1>13, KnownStays DEF Moves
<1>. QED BY <1>6, <1>7, <1>8, <1>10, <1>11, <1>12, <1>13, <1>14, OneDay

\* The record is saved.
LEMMA SaveRecordSInv ==
    ASSUME SInv, NEW p \in Procs, SaveRecord(p)
    PROVE  SInv'
<1>0. proc[p].step = "record" /\ proc[p].kind # "remove" /\ Goto(p, "again")
  BY DEF SaveRecord, At
<1>1. PICK d \in Days, f \in Files :
         /\ d = proc[p].day /\ f = proc[p].file
         /\ IsPass(proc[p]) /\ p \in Active(d) /\ proc[p].kind \in {"save", "info"}
  BY <1>0, PassIs
<1>2. ldb' = [ldb EXCEPT ![f] = d]
  BY <1>1 DEF SaveRecord
<1>5. /\ proc' = [q \in Procs |-> proc'[q]] /\ ProcsTyped'
      /\ Moves(p, "again") /\ proc'[p].stat = proc[p].stat
  BY <1>0, <1>1, GotoTyped DEF PassStep
<1>6. UNCHANGED <<today, statMap, statFile, filesLog, seen, removes, unlinks, drifted, raced>>
  BY DEF SaveRecord, count, store, queues, history
<1>7. StatTyped'
  BY <1>2, <1>5, <1>6 DEF SInv, StatTyped, Readable
<1>8. SaveInv'
  <2>1. \A q \in Procs : proc[q].step \in SaveSteps \/ proc'[q].step \in SaveSteps =>
            proc'[q].step = proc[q].step /\ proc'[q].stat = proc[q].stat
    BY <1>0, <1>5 DEF Moves, SaveSteps
  <2>. QED BY <2>1, <1>6, QuietSave DEF SInv
<1>9. \A e \in Days : Entries(e)' = Entries(e) /\ Count(statMap, e)' = Count(statMap, e)
  BY <1>6, SameLog
<1>10. ASSUME d \notin drifted' PROVE DayInv(d)'
  <2>1. DayInv(d)
    BY <1>6, <1>10 DEF SInv
  <2>2. "again" \in Past /\ "record" \in Past
    BY DEF Past
  <2>3. f \in Entries(d)
    BY <2>1, <1>0, <1>1 DEF DayInv, Placed, At
  <2>. QED BY <2>1, <2>2, <2>3, <1>0, <1>1, <1>5, <1>9, PastDay
<1>11. proc[p].day \in {d, NoDay} /\ proc'[p].day \in {d, NoDay}
  BY <1>1, <1>5 DEF Moves
<1>13. \A q \in Procs : q # p => proc'[q] = proc[q]
  BY <1>5 DEF Moves
<1>14. Known'
  BY <1>5, <1>6, <1>13, KnownStays DEF Moves
<1>. QED BY <1>6, <1>7, <1>8, <1>9, <1>10, <1>11, <1>13, <1>14, OneDay

\* removes.md5: the record goes first.
LEMMA RemoveRecordSInv ==
    ASSUME SInv, NEW p \in Procs, RemoveRecord(p)
    PROVE  SInv'
<1>0. proc[p].step = "log" /\ proc[p].kind = "remove" /\ Goto(p, "record")
  BY DEF RemoveRecord, At
<1>1. PICK d \in Days, f \in Files :
         /\ d = proc[p].day /\ f = proc[p].file
         /\ IsPass(proc[p]) /\ p \in Active(d)
  BY <1>0, PassIs
<1>2. ldb' = [ldb EXCEPT ![f] = NoDay]
  BY <1>1 DEF RemoveRecord
<1>5. /\ proc' = [q \in Procs |-> proc'[q]] /\ ProcsTyped'
      /\ Moves(p, "record") /\ proc'[p].stat = proc[p].stat
  BY <1>0, <1>1, GotoTyped DEF PassStep, PassSteps
<1>6. UNCHANGED <<today, statMap, statFile, filesLog, seen, removes, unlinks, drifted, raced>>
  BY DEF RemoveRecord, count, store, queues, history
<1>7. StatTyped'
  BY <1>2, <1>5, <1>6 DEF SInv, StatTyped, Readable
<1>8. SaveInv'
  <2>1. \A q \in Procs : proc[q].step \in SaveSteps \/ proc'[q].step \in SaveSteps =>
            proc'[q].step = proc[q].step /\ proc'[q].stat = proc[q].stat
    BY <1>0, <1>5 DEF Moves, SaveSteps
  <2>. QED BY <2>1, <1>6, QuietSave DEF SInv
<1>9. \A e \in Days : Entries(e)' = Entries(e) /\ Count(statMap, e)' = Count(statMap, e)
  BY <1>6, SameLog
<1>10. ASSUME d \notin drifted' PROVE DayInv(d)'
  <2>1. DayInv(d)
    BY <1>6, <1>10 DEF SInv
  <2>2. "log" \in Past /\ "record" \in Past
    BY DEF Past
  <2>. QED BY <2>1, <2>2, <1>0, <1>1, <1>5, <1>9, PastDay
<1>11. proc[p].day \in {d, NoDay} /\ proc'[p].day \in {d, NoDay}
  BY <1>1, <1>5 DEF Moves
<1>13. \A q \in Procs : q # p => proc'[q] = proc[q]
  BY <1>5 DEF Moves
<1>14. Known'
  BY <1>5, <1>6, <1>13, KnownStays DEF Moves
<1>. QED BY <1>6, <1>7, <1>8, <1>9, <1>10, <1>11, <1>13, <1>14, OneDay

\* A pass is over: the entry is put again, or taken away.
LEMMA PassOverSInv ==
    ASSUME SInv, NEW p \in Procs, (PutEntry(p) /\ proc[p].step = "again") \/ RemoveEntry(p)
    PROVE  SInv'
<1>0. /\ Done(p) /\ proc[p].step \in {"record", "again"}
      /\ \/ proc[p].step = "again" /\ PutEntry(p)
         \/ proc[p].step = "record" /\ proc[p].kind = "remove" /\ RemoveEntry(p)
  BY DEF PutEntry, RemoveEntry, At
<1>1. PICK d \in Days, f \in Files :
         /\ d = proc[p].day /\ f = proc[p].file
         /\ IsPass(proc[p]) /\ p \in Active(d)
         /\ proc[p].step = "again" => proc[p].kind \in {"save", "info"}
         /\ proc[p].kind \in {"save", "remove", "info"}
  BY <1>0, PassIs
<1>2. /\ <<d, f>> \in seen
      /\ \/ proc[p].step = "again" /\ filesLog' = filesLog \cup {<<d, f>>}
         \/ /\ proc[p].step = "record" /\ proc[p].kind = "remove"
            /\ filesLog' = filesLog \ {<<d, f>>}
  BY <1>0, <1>1 DEF PutEntry, RemoveEntry, SInv, Known
<1>5. /\ proc' = [q \in Procs |-> proc'[q]] /\ ProcsTyped' /\ Leaves(p)
  BY <1>0, DoneTyped
<1>6. UNCHANGED <<today, statMap, statFile, ldb, seen, removes, unlinks, drifted, raced>>
  BY <1>0 DEF PutEntry, RemoveEntry, count, store, queues, history
<1>7. StatTyped'
  <2>0. IsFiniteSet(filesLog) /\ filesLog \in SUBSET seen
    BY DEF SInv, StatTyped
  <2>1. IsFiniteSet(filesLog \cup {<<d, f>>}) /\ IsFiniteSet(filesLog \ {<<d, f>>})
    BY <2>0, FS_AddElement, FS_RemoveElement
  <2>2. IsFiniteSet(filesLog') /\ filesLog' \in SUBSET seen
    BY <2>0, <2>1, <1>2
  <2>. QED BY <2>2, <1>5, <1>6 DEF SInv, StatTyped, Readable
<1>8. SaveInv'
  <2>1. \A q \in Procs : proc[q].step \in SaveSteps \/ proc'[q].step \in SaveSteps =>
            proc'[q].step = proc[q].step /\ proc'[q].stat = proc[q].stat
    BY <1>0, <1>5, IdleIs DEF Leaves, SaveSteps
  <2>. QED BY <2>1, <1>6, QuietSave DEF SInv
<1>9. \A e : e # d => Entries(e)' = Entries(e)
  BY <1>2 DEF Entries
<1>10. ASSUME d \notin drifted' PROVE DayInv(d)'
  <2>1. DayInv(d)
    BY <1>6, <1>10 DEF SInv
  <2>2. ~Counting(d)
    BY <2>1, <1>0, <1>1, PassAlone
  <2>3. CASE proc[p].step = "again"
    <3>1. f \in Entries(d)
      BY <2>1, <2>3, <1>1 DEF DayInv, Placed, At
    <3>2. Entries(d)' = Entries(d)
      BY <3>1, <2>3, <1>2 DEF Entries
    <3>. QED BY <3>2, <2>1, <2>2, <2>3, <1>1, <1>5, <1>6, DoneDay
  <2>4. CASE proc[p].step = "record"
    <3>1. Entries(d)' = Entries(d) \ {f} /\ proc[p].kind = "remove"
      BY <2>4, <1>2 DEF Entries
    <3>. QED BY <3>1, <2>1, <2>2, <2>4, <1>1, <1>5, <1>6, DoneDay
  <2>. QED BY <1>0, <2>3, <2>4
<1>11. proc[p].day \in {d, NoDay} /\ proc'[p].day \in {d, NoDay}
  BY <1>1, <1>5, IdleIs DEF Leaves
<1>12. \A e \in Days : e # d => Entries(e)' = Entries(e) /\ Count(statMap, e)' = Count(statMap, e)
  BY <1>6, <1>9
<1>13. \A q \in Procs : q # p => proc'[q] = proc[q]
  BY <1>5 DEF Leaves
<1>14. Known'
  BY <1>5, <1>6, <1>13, KnownStays DEF Leaves
<1>. QED BY <1>6, <1>7, <1>8, <1>10, <1>11, <1>12, <1>13, <1>14, OneDay

\* A process that takes a copy of statMap along, or leaves it behind.
LEMMA TakesIs ==
    ASSUME proc = [q \in Procs |-> proc[q]], NEW p \in Procs, Shape(proc[p]), NEW k, NEW m,
           proc' = [proc EXCEPT ![p].step = k, ![p].stat = m]
    PROVE  /\ proc' = [q \in Procs |-> proc'[q]]
           /\ Moves(p, k) /\ Shape(proc'[p]) /\ proc'[p].stat = m
<1>. DEFINE r == [proc[p] EXCEPT !.step = k, !.stat = m]
<1>1. proc' = [proc EXCEPT ![p] = r]
  OBVIOUS
<1>2. /\ r.step = k /\ r.kind = proc[p].kind /\ r.day = proc[p].day
      /\ r.file = proc[p].file /\ r.count = proc[p].count /\ r.stat = m
      /\ Shape(r)
  BY DEF Shape
<1>. HIDE DEF r
<1>3. /\ proc' = [q \in Procs |-> proc'[q]]
      /\ proc'[p] = r
      /\ \A q \in Procs : q # p => proc'[q] = proc[q]
  BY <1>1, Changed
<1>. QED BY <1>2, <1>3 DEF Moves

\* It is still a pass or a repair.
LEMMA TakesTyped ==
    ASSUME SInv, NEW p \in Procs, NEW k, NEW m, Moves(p, k), Shape(proc'[p]), proc'[p].stat = m,
           k \in {"open", "write"} => IsCounts(m),
           \/ IsPass(proc[p]) /\ PassStep(proc[p].kind, k)
           \/ IsRepair(proc[p]) /\ k \in {"put", "get", "open", "write"}
    PROVE  ProcsTyped'
<1>1. IsPass(proc'[p]) \/ IsRepair(proc'[p])
  BY DEF IsPass, IsRepair, Moves
<1>2. SUFFICES ASSUME NEW q \in Procs
      PROVE  \/ proc'[q] = Idle
             \/ /\ Shape(proc'[q])
                /\ IsPass(proc'[q]) \/ IsRepair(proc'[q])
                /\ proc'[q].step \in {"open", "write"} => IsCounts(proc'[q].stat)
  BY DEF ProcsTyped
<1>3. CASE q = p
  BY <1>3, <1>1 DEF Moves
<1>4. CASE q # p
  BY <1>4 DEF SInv, StatTyped, ProcsTyped, Moves
<1>. QED BY <1>3, <1>4

\* What is at a step of SaveStat.
LEMMA SaverIs ==
    ASSUME SInv, NEW p \in Procs, proc[p].step \in SaveSteps
    PROVE  /\ proc[p].day \in Days /\ p \in Active(proc[p].day)
           /\ Shape(proc[p])
           /\ IsPass(proc[p]) \/ IsRepair(proc[p])
           /\ proc[p].step \in {"open", "write"} => IsCounts(proc[p].stat)
<1>1. proc[p].step # "idle"
  BY DEF SaveSteps
<1>. QED BY <1>1, AtWork

\* A step of SaveStat: nothing is counted.
LEMMA SaverSInv ==
    ASSUME SInv, NEW p \in Procs, proc[p].step \in SaveSteps, NEW k \in Past \ {"record", "again"},
           Moves(p, k), StatTyped', SaveInv', UNCHANGED <<statMap, filesLog, seen, drifted>>
    PROVE  SInv'
<1>1. PICK d \in Days : d = proc[p].day /\ p \in Active(d)
  BY SaverIs
<1>2. \A e : Entries(e)' = Entries(e) /\ Count(statMap, e)' = Count(statMap, e)
  BY SameLog
<1>3. ASSUME d \notin drifted' PROVE DayInv(d)'
  <2>1. DayInv(d)
    BY <1>3 DEF SInv
  <2>2. proc[p].step \in Past /\ k \in Past /\ k \notin {"record", "again"}
    BY DEF Past, SaveSteps
  <2>. QED BY <2>1, <2>2, <1>1, <1>2, PastDay
<1>4. proc[p].day \in {d, NoDay} /\ proc'[p].day \in {d, NoDay}
  BY <1>1 DEF Moves
<1>5. \A q \in Procs : q # p => proc'[q] = proc[q]
  BY DEF Moves
<1>6. Known'
  BY <1>5, KnownStays DEF Moves
<1>. QED BY <1>2, <1>3, <1>4, <1>5, <1>6, OneDay

\* SaveStat takes its copy.
LEMMA GetStatMapSInv ==
    ASSUME SInv, NEW p \in Procs, GetStatMap(p)
    PROVE  SInv'
<1>0. /\ proc[p].step = "get" /\ proc[p].step \in SaveSteps
      /\ proc' = [proc EXCEPT ![p].step = "open", ![p].stat = statMap]
      /\ raced' = (Saving # {})
  BY DEF GetStatMap, At, SaveSteps
<1>1. /\ Shape(proc[p])
      /\ IsPass(proc[p]) \/ IsRepair(proc[p])
  BY <1>0, SaverIs
<1>2. proc = [q \in Procs |-> proc[q]] /\ IsCounts(statMap)
  BY DEF SInv, StatTyped
<1>3. /\ proc' = [q \in Procs |-> proc'[q]]
      /\ Moves(p, "open") /\ Shape(proc'[p]) /\ proc'[p].stat = statMap
  BY <1>0, <1>1, <1>2, TakesIs
<1>4. ProcsTyped'
  BY <1>0, <1>1, <1>2, <1>3, TakesTyped DEF IsPass, PassStep, PassSteps
<1>5. UNCHANGED <<today, statMap, statFile, ldb, filesLog, seen, removes, unlinks, drifted>>
  BY DEF GetStatMap, count, store, queues, history
<1>6. StatTyped'
  <2>1. raced' \in BOOLEAN
    BY <1>0
  <2>. QED BY <2>1, <1>3, <1>4, <1>5 DEF SInv, StatTyped, Readable
<1>7. SaveInv'
  <2>1. SUFFICES ASSUME ~raced' PROVE SaveInv'
    BY DEF SaveInv
  <2>2. Saving = {}
    BY <2>1, <1>0
  <2>3. Saving' = {p}
    BY <2>2, <1>3 DEF Saving, Moves
  <2>4. proc'[p].step = "open"
    BY <1>3 DEF Moves
  <2>. QED BY <2>3, <2>4, <1>3, <1>5 DEF SaveInv, At, Same
<1>8. "open" \in Past \ {"record", "again"}
  BY DEF Past
<1>. QED BY <1>0, <1>3, <1>5, <1>6, <1>7, <1>8, SaverSInv

\* SaveStat truncates the file.
LEMMA OpenStatSInv ==
    ASSUME SInv, NEW p \in Procs, OpenStat(p)
    PROVE  SInv'
<1>0. /\ proc[p].step = "open" /\ proc[p].step \in SaveSteps /\ proc[p].step # "idle"
      /\ Goto(p, "write")
  BY DEF OpenStat, At, SaveSteps
<1>1. /\ IsPass(proc[p]) \/ IsRepair(proc[p])
      /\ IsCounts(proc[p].stat)
  BY <1>0, SaverIs
<1>3. /\ proc' = [q \in Procs |-> proc'[q]] /\ ProcsTyped'
      /\ Moves(p, "write") /\ proc'[p].stat = proc[p].stat
  BY <1>0, <1>1, GotoTyped DEF IsPass, PassStep, PassSteps
<1>5. UNCHANGED <<today, statMap, ldb, filesLog, seen, removes, unlinks, drifted, raced>> /\ statFile' = Empty
  BY DEF OpenStat, count, store, queues, history
<1>6. StatTyped'
  BY <1>3, <1>5 DEF SInv, StatTyped, Readable
<1>7. SaveInv'
  <2>1. Saving' = Saving /\ Getting' = Getting /\ p \in Saving
    BY <1>0, <1>3 DEF Saving, Getting, At, Moves
  <2>2. \A q \in Saving : proc'[q].stat = proc[q].stat
    BY <1>3 DEF Saving, Moves
  <2>. QED BY <2>1, <2>2, <1>5 DEF SInv, SaveInv, Same
<1>8. "write" \in Past \ {"record", "again"}
  BY DEF Past
<1>. QED BY <1>0, <1>3, <1>5, <1>6, <1>7, <1>8, SaverSInv

\* What WriteStat leaves in stat.json.
LEMMA Written ==
    ASSUME SInv, NEW p \in Procs, WriteStat(p), proc'[p].step \notin SaveSteps,
           \A q \in Procs : q # p => proc'[q] = proc[q]
    PROVE  SaveInv' /\ (Readable' => IsCounts(statFile'))
<1>1. /\ proc[p].step = "write" /\ proc[p].step \in SaveSteps
      /\ statFile' = proc[p].stat \/ (statFile # Empty /\ statFile' = Torn)
      /\ statMap' = statMap /\ raced' = raced
  BY DEF WriteStat, At, SaveSteps, history
<1>2. IsCounts(proc[p].stat)
  BY <1>1, SaverIs
<1>3. Readable' => IsCounts(statFile')
  BY <1>1, <1>2 DEF Readable
<1>4. SaveInv'
  <2>1. SUFFICES ASSUME ~raced PROVE SaveInv'
    BY <1>1 DEF SaveInv
  <2>2. p \in Saving /\ Saving = {p} /\ statFile = Empty
    BY <2>1, <1>1 DEF SInv, SaveInv, Saving, At
  <2>3. statFile' = proc[p].stat
    BY <2>2, <1>1
  <2>4. Saving' = {} /\ Getting' = Getting
    BY <2>2, <1>1 DEF Saving, Getting, At, SaveSteps
  <2>5. Getting = {} => Same(proc[p].stat, statMap)
    BY <2>1, <2>2 DEF SInv, SaveInv
  <2>. QED BY <2>3, <2>4, <2>5, <1>1 DEF SaveInv, Same
<1>. QED BY <1>3, <1>4

\* SaveStat writes, and a repair is done with that.
LEMMA WriteStatSInv ==
    ASSUME SInv, NEW p \in Procs, WriteStat(p)
    PROVE  SInv'
<1>0. proc[p].step = "write" /\ proc[p].step \in SaveSteps
  BY DEF WriteStat, At, SaveSteps
<1>1. /\ Shape(proc[p])
      /\ IsPass(proc[p]) \/ IsRepair(proc[p])
  BY <1>0, SaverIs
<1>2. PICK d \in Days : d = proc[p].day /\ p \in Active(d)
  BY <1>0, SaverIs
<1>3. UNCHANGED <<today, statMap, ldb, filesLog, seen, removes, unlinks, drifted, raced>>
  BY DEF WriteStat, count, store, queues, history
<1>4. proc = [q \in Procs |-> proc[q]]
  BY DEF SInv, StatTyped
<1>5. CASE proc[p].kind = "repair"
  <2>1. Done(p)
    BY <1>5 DEF WriteStat
  <2>2. proc' = [q \in Procs |-> proc'[q]] /\ ProcsTyped' /\ Leaves(p)
    BY <2>1, DoneTyped
  <2>3. SaveInv' /\ (Readable' => IsCounts(statFile'))
    <3>1. proc'[p].step \notin SaveSteps
      BY <2>2, IdleIs DEF Leaves, SaveSteps
    <3>. QED BY <3>1, <2>2, Written DEF Leaves
  <2>4. StatTyped'
    BY <1>3, <2>2, <2>3 DEF SInv, StatTyped
  <2>5. \A e : Entries(e)' = Entries(e) /\ Count(statMap, e)' = Count(statMap, e)
    BY <1>3, SameLog
  <2>6. ASSUME d \notin drifted' PROVE DayInv(d)'
    <3>1. DayInv(d)
      BY <1>3, <2>6 DEF SInv
    <3>. QED BY <3>1, <1>0, <1>2, <1>5, <2>2, <2>5, RepairedDay
  <2>7. proc[p].day \in {d, NoDay} /\ proc'[p].day \in {d, NoDay}
    BY <1>2, <2>2, IdleIs DEF Leaves
  <2>8. \A q \in Procs : q # p => proc'[q] = proc[q]
    BY <2>2 DEF Leaves
  <2>9. Known'
    BY <1>3, <2>2, <2>8, KnownStays DEF Leaves
  <2>. QED BY <1>3, <2>3, <2>4, <2>5, <2>6, <2>7, <2>8, <2>9, OneDay
<1>6. CASE proc[p].kind # "repair"
  <2>1. proc' = [proc EXCEPT ![p].step = "log", ![p].stat = <<>>]
    BY <1>6 DEF WriteStat
  <2>2. /\ proc' = [q \in Procs |-> proc'[q]]
        /\ Moves(p, "log") /\ Shape(proc'[p]) /\ proc'[p].stat = <<>>
    BY <2>1, <1>1, <1>4, TakesIs
  <2>3. IsPass(proc[p])
    BY <1>1, <1>6 DEF IsRepair
  <2>4. ProcsTyped'
    BY <1>0, <2>2, <2>3, TakesTyped DEF IsPass, PassStep, PassSteps
  <2>5. SaveInv' /\ (Readable' => IsCounts(statFile'))
    <3>1. proc'[p].step \notin SaveSteps
      BY <2>2 DEF Moves, SaveSteps
    <3>. QED BY <3>1, <2>2, Written DEF Moves
  <2>6. StatTyped'
    BY <1>3, <2>2, <2>4, <2>5 DEF SInv, StatTyped
  <2>7. "log" \in Past \ {"record", "again"}
    BY DEF Past
  <2>. QED BY <1>0, <1>3, <2>2, <2>5, <2>6, <2>7, SaverSInv
<1>. QED BY <1>5, <1>6

\* The entries of a day can be counted.
LEMMA FiniteEntries ==
    ASSUME SInv, NEW d
    PROVE  IsFiniteSet(Entries(d))
<1>. DEFINE here == {e \in filesLog : e[1] = d}
            g == [e \in here |-> e[2]]
<1>1. filesLog \in SUBSET (Days \X Files) /\ IsFiniteSet(filesLog)
  BY DEF SInv, StatTyped
<1>2. IsFiniteSet(here)
  BY <1>1, FS_Subset
<1>3. \A f \in Entries(d) : <<d, f>> \in here /\ <<d, f>>[2] = f
  BY DEF Entries
<1>4. \A e \in here : e[2] \in Entries(d)
  BY <1>1 DEF Entries
<1>5. g \in [here -> Entries(d)]
  BY <1>4
<1>6. \A f \in Entries(d) : \E e \in here : g[e] = f
  BY <1>3
<1>7. g \in Surjection(here, Entries(d))
  BY <1>5, <1>6 DEF Surjection
<1>. HIDE DEF g, here
<1>. QED BY <1>2, <1>7, FS_Surjection

\* A repair puts its count.
LEMMA PutCountSInv ==
    ASSUME SInv, NEW p \in Procs, PutCount(p)
    PROVE  SInv'
<1>0. proc[p].step = "put" /\ proc[p].step # "idle" /\ Goto(p, "get")
  BY DEF PutCount, At
<1>1. IsRepair(proc[p]) /\ p \in Active(proc[p].day)
  <2>1. IsPass(proc[p]) \/ IsRepair(proc[p])
    BY <1>0, AtWork
  <2>2. p \in Active(proc[p].day)
    BY <1>0, AtWork
  <2>. QED BY <1>0, <2>1, <2>2 DEF IsPass, PassStep, PassSteps
<1>2. PICK d \in Days, n \in Int :
         /\ d = proc[p].day /\ n = proc[p].count /\ p \in Active(d) /\ proc[p].kind = "repair"
  BY <1>1 DEF IsRepair
<1>3. statMap' = Put(d, n) /\ IsCounts(statMap)
  BY <1>2 DEF PutCount, SInv, StatTyped
<1>4. /\ IsCounts(statMap')
      /\ \A e : Count(statMap, e)' = IF e = d THEN n ELSE Count(statMap, e)
  BY <1>3, PutCounts
<1>5. /\ proc' = [q \in Procs |-> proc'[q]] /\ ProcsTyped'
      /\ Moves(p, "get") /\ proc'[p].stat = proc[p].stat
  BY <1>0, <1>1, GotoTyped
<1>6. UNCHANGED <<today, statFile, ldb, filesLog, seen, removes, unlinks, drifted, raced>>
  BY DEF PutCount, count, store, queues, history
<1>7. StatTyped'
  BY <1>4, <1>5, <1>6 DEF SInv, StatTyped, Readable
<1>8. SaveInv'
  <2>1. p \in Getting'
    BY <1>5 DEF Getting, At, Moves
  <2>2. Saving' = Saving /\ \A q \in Saving : proc'[q] = proc[q]
    BY <1>0, <1>5 DEF Saving, Moves
  <2>. QED BY <2>1, <2>2, <1>6 DEF SInv, SaveInv, At
<1>9. \A e : Entries(e)' = Entries(e)
  BY <1>6 DEF Entries
<1>10. ASSUME d \notin drifted' PROVE DayInv(d)'
  <2>1. DayInv(d)
    BY <1>6, <1>10 DEF SInv
  <2>2. IsFiniteSet(Entries(d))
    BY FiniteEntries
  <2>3. Count(statMap, d)' = proc[p].count
    BY <1>2, <1>4
  <2>. QED BY <2>1, <2>2, <2>3, <1>0, <1>2, <1>5, <1>9, PutDay
<1>11. proc[p].day \in {d, NoDay} /\ proc'[p].day \in {d, NoDay}
  BY <1>2, <1>5 DEF Moves
<1>12. \A e \in Days : e # d => Entries(e)' = Entries(e) /\ Count(statMap, e)' = Count(statMap, e)
  BY <1>4, <1>9
<1>13. \A q \in Procs : q # p => proc'[q] = proc[q]
  BY <1>5 DEF Moves
<1>14. Known'
  BY <1>5, <1>6, <1>13, KnownStays DEF Moves
<1>. QED BY <1>6, <1>7, <1>8, <1>10, <1>11, <1>12, <1>13, <1>14, OneDay

\* What drifts are days.
LEMMA OverlapsDays ==
    ASSUME SInv, NEW d \in Days, NEW f \in Files
    PROVE  Overlaps(d, f) \in SUBSET Days
<1>1. ASSUME NEW q \in Procs, proc[q].file = f PROVE proc[q].day \in Days
  <2>1. proc[q] # Idle
    BY <1>1, IdleIs
  <2>. QED BY <2>1, AtWork
<1>. QED BY <1>1 DEF Overlaps

\* A new pass: of saveFileMd5Log, or over a record whose entry, if it is new, is not
\* counted.
LEMMA BeginSInv ==
    ASSUME SInv, NEW p \in Procs, NEW kind, NEW step, NEW d \in Days, NEW f \in Files,
           Begin(p, kind, step, d, f),
           \/ kind \in {"save", "remove"} /\ step = "check"
           \/ kind = "info" /\ step = "record" /\ (d \in drifted' \/ f \in Entries(d)),
           UNCHANGED <<today, statMap, statFile, ldb, filesLog, unlinks, raced>>,
           removes' \in SUBSET removes,
           drifted \cup Overlaps(d, f) \subseteq drifted', drifted' \in SUBSET Days
    PROVE  SInv'
<1>. DEFINE r == [Idle EXCEPT !.step = step, !.kind = kind, !.day = d, !.file = f]
<1>1. /\ proc[p] = Idle /\ proc' = [proc EXCEPT ![p] = r]
      /\ seen' = seen \cup {<<d, f>>}
  BY DEF Begin
<1>2. /\ r.step = step /\ r.kind = kind /\ r.day = d /\ r.file = f /\ Shape(r)
  BY DEF Idle, Shape
<1>3. proc = [q \in Procs |-> proc[q]]
  BY DEF SInv, StatTyped
<1>. HIDE DEF r
<1>4. /\ proc' = [q \in Procs |-> proc'[q]]
      /\ proc'[p] = r
      /\ \A q \in Procs : q # p => proc'[q] = proc[q]
  BY <1>1, <1>3, Changed
<1>5. ProcsTyped'
  <2>1. SUFFICES ASSUME NEW q \in Procs
        PROVE  \/ proc'[q] = Idle
               \/ /\ Shape(proc'[q])
                  /\ IsPass(proc'[q]) \/ IsRepair(proc'[q])
                  /\ proc'[q].step \in {"open", "write"} => IsCounts(proc'[q].stat)
    BY DEF ProcsTyped
  <2>2. CASE q = p
    BY <2>2, <1>2, <1>4 DEF IsPass, PassStep, PassSteps
  <2>3. CASE q # p
    BY <2>3, <1>4 DEF SInv, StatTyped, ProcsTyped
  <2>. QED BY <2>2, <2>3
<1>6. StatTyped'
  BY <1>1, <1>4, <1>5 DEF SInv, StatTyped, Readable
<1>7. SaveInv'
  <2>1. \A q \in Procs : proc[q].step \in SaveSteps \/ proc'[q].step \in SaveSteps =>
            proc'[q].step = proc[q].step /\ proc'[q].stat = proc[q].stat
    BY <1>1, <1>2, <1>4, IdleIs DEF SaveSteps
  <2>. QED BY <2>1, <1>1, QuietSave DEF SInv
<1>8. Known'
  BY <1>1, <1>2, <1>4 DEF SInv, Known
<1>9. \A e : Entries(e)' = Entries(e) /\ Count(statMap, e)' = Count(statMap, e)
  BY <1>1, SameLog
<1>10. ASSUME d \notin drifted' PROVE DayInv(d)'
  <2>1. DayInv(d)
    BY <1>10 DEF SInv
  <2>2. \A q \in Active(d) : proc[q].kind # "repair" /\ proc[q].file # f
    BY <1>1, <1>10 DEF Overlaps
  <2>3. \/ proc'[p].step = "check" /\ proc'[p].kind \in {"save", "remove"}
        \/ proc'[p].step = "record" /\ proc'[p].kind = "info" /\ proc'[p].file \in Entries(d)
    BY <1>2, <1>4, <1>10
  <2>4. /\ proc'[p].day = d
        /\ \A q \in Active(d) : proc[q].kind # "repair" /\ proc[q].file # proc'[p].file
    BY <2>2, <1>2, <1>4
  <2>5. \A q \in Procs : q # p => proc'[q] = proc[q]
    BY <1>4
  <2>6. proc[p] = Idle /\ Entries(d)' = Entries(d) /\ Count(statMap, d)' = Count(statMap, d)
    BY <1>1, <1>9
  <2>. QED BY <2>1, <2>3, <2>4, <2>5, <2>6, BeginDay
<1>11. proc[p].day \in {d, NoDay} /\ proc'[p].day \in {d, NoDay}
  BY <1>1, <1>2, <1>4, IdleIs
<1>12. \A e \in drifted : e \in drifted'
  OBVIOUS
<1>. QED BY <1>4, <1>6, <1>7, <1>8, <1>9, <1>10, <1>11, <1>12, OneDay

\* So can the paths it finds.
LEMMA FiniteFound ==
    ASSUME SInv, NEW d
    PROVE  IsFiniteSet(Found(d))
<1>. DEFINE paths == {PathOf[f] : f \in Entries(d)}
            g == [f \in Entries(d) |-> PathOf[f]]
<1>1. g \in Surjection(Entries(d), paths)
  BY DEF Surjection
<1>. HIDE DEF g
<1>2. IsFiniteSet(Entries(d))
  BY FiniteEntries
<1>3. IsFiniteSet(paths)
  BY <1>1, <1>2, FS_Surjection
<1>. QED BY <1>3, FS_Subset DEF Found

\* A repair counts what it sees.
LEMMA ScanSInv ==
    ASSUME SInv, NEW p \in Repairers, NEW d \in Days, Scan(p, d)
    PROVE  SInv'
<1>. DEFINE n == Cardinality(Found(d))
            r == [Idle EXCEPT !.step = "put", !.kind = "repair", !.day = d, !.count = n]
<1>1. /\ p \in Procs /\ proc[p] = Idle /\ proc' = [proc EXCEPT ![p] = r]
      /\ drifted' = IF Active(d) = {} /\ n = Cardinality(Entries(d))
                      THEN drifted \ {d} ELSE drifted \cup {d}
      /\ UNCHANGED <<today, statMap, statFile, ldb, filesLog, seen, removes, unlinks, raced>>
  BY DEF Scan, Procs, count, store, queues, count, store, queues, history
<1>2. n \in Nat
  BY FiniteFound, FS_CardinalityType
<1>. HIDE DEF n
<1>3. /\ r.step = "put" /\ r.kind = "repair" /\ r.day = d /\ r.count = n /\ r.file = "none"
      /\ Shape(r)
  BY DEF Idle, Shape
<1>4. proc = [q \in Procs |-> proc[q]]
  BY DEF SInv, StatTyped
<1>. HIDE DEF r
<1>5. /\ proc' = [q \in Procs |-> proc'[q]]
      /\ proc'[p] = r
      /\ \A q \in Procs : q # p => proc'[q] = proc[q]
  BY <1>1, <1>4, Changed
<1>6. ProcsTyped'
  <2>1. SUFFICES ASSUME NEW q \in Procs
        PROVE  \/ proc'[q] = Idle
               \/ /\ Shape(proc'[q])
                  /\ IsPass(proc'[q]) \/ IsRepair(proc'[q])
                  /\ proc'[q].step \in {"open", "write"} => IsCounts(proc'[q].stat)
    BY DEF ProcsTyped
  <2>2. CASE q = p
    BY <2>2, <1>2, <1>3, <1>5 DEF IsRepair
  <2>3. CASE q # p
    BY <2>3, <1>5 DEF SInv, StatTyped, ProcsTyped
  <2>. QED BY <2>2, <2>3
<1>7. StatTyped'
  BY <1>1, <1>5, <1>6 DEF SInv, StatTyped, Readable
<1>8. SaveInv'
  <2>1. \A q \in Procs : proc[q].step \in SaveSteps \/ proc'[q].step \in SaveSteps =>
            proc'[q].step = proc[q].step /\ proc'[q].stat = proc[q].stat
    BY <1>1, <1>3, <1>5, IdleIs DEF SaveSteps
  <2>. QED BY <2>1, <1>1, QuietSave DEF SInv
<1>9. Known'
  BY <1>1, <1>3, <1>5, KnownStays
<1>10. \A e : Entries(e)' = Entries(e) /\ Count(statMap, e)' = Count(statMap, e)
  BY <1>1, SameLog
<1>11. ASSUME d \notin drifted' PROVE DayInv(d)'
  <2>1. Active(d) = {}
    BY <1>1, <1>11
  <2>2. proc'[p].count = Cardinality(Entries(d))
    BY <1>1, <1>3, <1>5, <1>11
  <2>. QED BY <2>1, <2>2, <1>1, <1>3, <1>5, <1>10, ScanDay
<1>12. proc[p].day \in {d, NoDay} /\ proc'[p].day \in {d, NoDay}
  BY <1>1, <1>3, <1>5, IdleIs
<1>13. \A e \in drifted : e # d => e \in drifted'
  BY <1>1
<1>. QED BY <1>1, <1>5, <1>7, <1>8, <1>9, <1>10, <1>11, <1>12, <1>13, OneDay

\* Records come and go, days pass: nothing that is counted changes.
LEMMA ElseSInv ==
    ASSUME SInv, UNCHANGED <<statMap, statFile, filesLog, proc, raced>>,
           drifted \subseteq drifted', seen \subseteq seen', StatTyped'
    PROVE  SInv'
<1>1. SaveInv'
  BY QuietSave DEF SInv
<1>2. Known'
  BY DEF SInv, Known
<1>3. ASSUME NEW e \in Days, e \notin drifted' PROVE DayInv(e)'
  <2>1. DayInv(e) /\ Entries(e)' = Entries(e) /\ Count(statMap, e)' = Count(statMap, e)
    BY <1>3, SameLog DEF SInv
  <2>. QED BY <2>1, OtherDay
<1>. QED BY <1>1, <1>2, <1>3 DEF SInv

\* A record is dropped, a file is queued for removal or goes, a day passes.
LEMMA RestSInv ==
    ASSUME SInv,
           \/ \E f \in Files : CheckFileExist(f) \/ RemoveFile(f) \/ Unlink(f)
           \/ NewDay \/ UNCHANGED statVars
    PROVE  SInv'
<1>1. StatTyped
  BY DEF SInv
<1>2. UNCHANGED <<statMap, statFile, filesLog, seen, proc, drifted, raced>>
  BY DEF CheckFileExist, RemoveFile, Unlink, NewDay, statVars, count, store, queues, history
<1>. DEFINE RestTyped == /\ today' \in Days /\ ldb' \in [Files -> Days \cup {NoDay}]
                        /\ removes' \in SUBSET (Days \X Files) /\ unlinks' \in SUBSET Files
<1>3. RestTyped
  <2>1. ASSUME NEW f \in Files, CheckFileExist(f) \/ RemoveFile(f) \/ Unlink(f) PROVE RestTyped
    <3>1. CASE CheckFileExist(f)
      BY <3>1, <1>1 DEF CheckFileExist, StatTyped, queues
    <3>2. CASE RemoveFile(f)
      BY <3>2, <1>1 DEF RemoveFile, StatTyped, store
    <3>3. CASE Unlink(f)
      BY <3>3, <1>1 DEF Unlink, StatTyped
    <3>. QED BY <2>1, <3>1, <3>2, <3>3
  <2>2. CASE NewDay
    BY <2>2, <1>1, StatisticsAssumption DEF NewDay, StatTyped, Days, store, queues
  <2>3. CASE UNCHANGED statVars
    BY <2>3, <1>1 DEF statVars, StatTyped, store, queues
  <2>. QED BY <2>1, <2>2, <2>3
<1>4. StatTyped'
  BY <1>1, <1>2, <1>3 DEF StatTyped, Readable, ProcsTyped
<1>. QED BY <1>2, <1>4, ElseSInv

\* A restart loads what was saved.
LEMMA RestartSInv ==
    ASSUME SInv, Restart
    PROVE  SInv'
<1>1. StatTyped /\ SaveInv
  BY DEF SInv
<1>2. /\ proc' = [q \in Procs |-> Idle]
      /\ UNCHANGED <<today, statFile, ldb, filesLog, seen>>
      /\ drifted' = IF AllIdle /\ Readable /\ ~raced THEN drifted ELSE Days
      /\ raced' = ~Readable /\ removes' = {} /\ unlinks' = {}
  BY DEF Restart, store
<1>3. Readable => /\ statMap' = [d \in {today} \cup DOMAIN statFile |-> Count(statFile, d)]
                  /\ IsCounts(statFile)
  BY <1>1 DEF Restart, StatTyped
<1>4. IsCounts(statMap')
  <2>1. CASE Readable
    <3>1. \A d : Count(statFile, d) \in Int
      BY <2>1, <1>3, CountInt
    <3>. QED BY <3>1, <2>1, <1>1, <1>3 DEF IsCounts, StatTyped
  <2>2. CASE ~Readable
    <3>1. statMap' = [d \in {today} |-> 0]
      BY <2>2 DEF Restart
    <3>. QED BY <3>1, <1>1 DEF IsCounts, StatTyped
  <2>. QED BY <2>1, <2>2
<1>5. Readable => \A d : Count(statMap', d) = Count(statFile, d)
  BY <1>3 DEF Count
<1>6. StatTyped'
  <2>1. drifted' \in SUBSET Days /\ raced' \in BOOLEAN
    BY <1>1, <1>2 DEF StatTyped, Readable
  <2>2. ProcsTyped' /\ proc' = [q \in Procs |-> proc'[q]]
    BY <1>2 DEF ProcsTyped
  <2>3. Readable' = Readable
    BY <1>2 DEF Readable
  <2>. QED BY <2>1, <2>2, <2>3, <1>1, <1>2, <1>4 DEF StatTyped
<1>7. Known'
  BY <1>2, IdleIs DEF Known
<1>8. SaveInv'
  <2>1. Saving' = {}
    BY <1>2, IdleIs DEF Saving
  <2>2. ~raced' => Same(statFile', statMap')
    BY <1>2, <1>5 DEF Same
  <2>. QED BY <2>1, <2>2 DEF SaveInv
<1>9. ASSUME NEW d \in Days, d \notin drifted' PROVE DayInv(d)'
  <2>1. AllIdle /\ Readable /\ ~raced /\ DayInv(d)
    BY <1>2, <1>9 DEF SInv
  <2>2. Active(d) = {} /\ Active(d)' = {} /\ Saving = {} /\ Getting = {}
    BY <2>1, <1>2, IdleIs DEF AllIdle, Active, Saving, Getting, At
  <2>3. Count(statMap', d) = Count(statMap, d)
    BY <2>1, <2>2, <1>1, <1>5 DEF SaveInv, Same
  <2>4. Count(statMap, d) = Cardinality(Entries(d))
    <3>1. Through(d, "save") = {} /\ Through(d, "remove") = {} /\ ~Counting(d)
      BY <2>2 DEF Through, Counting
    <3>. QED BY <3>1, <2>1 DEF DayInv, Counted
  <2>5. Entries(d)' = Entries(d) /\ IsFiniteSet(Entries(d))
    BY <1>2, FiniteEntries DEF Entries
  <2>. QED BY <2>2, <2>3, <2>4, <2>5, QuietDay
<1>. QED BY <1>6, <1>7, <1>8, <1>9 DEF SInv

\* A node started for the first time.
LEMMA InitSInv == StatInit => SInv
<1>. SUFFICES ASSUME StatInit PROVE SInv
  OBVIOUS
<1>1. /\ today = 1 /\ statMap = [d \in {1} |-> 0] /\ statFile = statMap
      /\ ldb = [f \in Files |-> NoDay] /\ filesLog = {} /\ seen = {}
      /\ removes = {} /\ unlinks = {}
      /\ proc = [p \in Procs |-> Idle] /\ drifted = {} /\ raced = FALSE
  BY DEF StatInit
<1>2. 1 \in Days
  BY StatisticsAssumption DEF Days
<1>3. IsCounts(statMap)
  BY <1>1, <1>2 DEF IsCounts
<1>4. StatTyped
  BY <1>1, <1>2, <1>3, FS_EmptySet DEF StatTyped, ProcsTyped
<1>5. Known
  BY <1>1, IdleIs DEF Known
<1>6. SaveInv
  BY <1>1, IdleIs DEF SaveInv, Saving, Same
<1>7. ASSUME NEW d \in Days PROVE DayInv(d)
  <2>1. Active(d) = {} /\ Entries(d) = {}
    BY <1>1, IdleIs DEF Active, Entries
  <2>2. Counted(d) = {}
    BY <2>1 DEF Counted, Through
  <2>3. Count(statMap, d) = 0
    BY <1>1 DEF Count
  <2>. QED BY <2>1, <2>2, <2>3, FS_EmptySet DEF DayInv, Apart, Placed
<1>. QED BY <1>4, <1>5, <1>6, <1>7 DEF SInv

\* The strengthening is an invariant.
THEOREM StatInvariance == StatSpec => []SInv
<1>1. SInv /\ [StatNext]_statVars => SInv'
  <2>1. SUFFICES ASSUME SInv, [StatNext]_statVars PROVE SInv'
    OBVIOUS
  <2>2. today \in Days /\ \A d \in 1 .. today : d \in Days
    BY <2>1, StatisticsAssumption DEF SInv, StatTyped, Days
  <2>3. ASSUME NEW p \in Procs, Step(p) PROVE SInv'
    <3>1. CASE PutEntry(p)
      <4>1. proc[p].step = "log" \/ proc[p].step = "again"
        BY <3>1 DEF PutEntry, At
      <4>. QED BY <3>1, <4>1, <2>1, LogEntrySInv, PassOverSInv
    <3>2. CASE ~PutEntry(p)
      BY <2>1, <2>3, <3>2, CheckSInv, AddSInv, SaveRecordSInv, RemoveRecordSInv, PassOverSInv,
         GetStatMapSInv, OpenStatSInv, WriteStatSInv, PutCountSInv DEF Step
    <3>. QED BY <3>1, <3>2
  <2>4. ASSUME NEW p \in Procs, NEW d \in Days, NEW f \in Files, SaveFileMd5Log(p, d, f)
        PROVE  SInv'
    <3>1. drifted' \in SUBSET Days
      BY <2>1, <2>4, OverlapsDays DEF SaveFileMd5Log, SInv, StatTyped
    <3>. QED BY <2>1, <2>4, <3>1, BeginSInv DEF SaveFileMd5Log, count
  <2>5. ASSUME NEW p \in Procs, NEW d \in Days, NEW f \in Files, SaveFileInfo(p, d, f)
        PROVE  SInv'
    <3>1. drifted' \in SUBSET Days
      BY <2>1, <2>5, OverlapsDays DEF SaveFileInfo, SInv, StatTyped
    <3>2. d \in drifted' \/ f \in Entries(d)
      BY <2>5 DEF SaveFileInfo
    <3>. QED BY <2>1, <2>5, <3>1, <3>2, BeginSInv DEF SaveFileInfo, count
  <2>6. ASSUME NEW d \in Days, NEW f \in Files, ConsumerLog(d, f) PROVE SInv'
    <3>1. drifted' \in SUBSET Days
      BY <2>1, <2>6, OverlapsDays DEF ConsumerLog, SInv, StatTyped
    <3>2. Log \in Procs
      BY DEF Procs
    <3>. QED BY <2>1, <2>6, <3>1, <3>2, BeginSInv DEF ConsumerLog, count, store
  <2>7. ASSUME NEW f \in Files, NEW p \in Workers,
               \/ Upload(p, f) \/ PostFileToPeer(p, f) \/ SyncFileInfo(p, f) \/ DownloadMigrated(p, f)
               \/ WatchFilesChange(p, f) \/ RepairFileInfoFromFile(p, f)
        PROVE  SInv'
    <3>1. p \in Procs
      BY DEF Procs
    <3>. QED BY <2>2, <2>4, <2>5, <2>7, <3>1
           DEF Upload, PostFileToPeer, SyncFileInfo, DownloadMigrated, WatchFilesChange,
               RepairFileInfoFromFile
  <2>8. ASSUME NEW f \in Files, Downloaded(f) PROVE SInv'
    BY <2>2, <2>4, <2>8 DEF Downloaded, Procs
  <2>9. ASSUME NEW p \in Repairers, NEW d \in 1 .. today, Scan(p, d) PROVE SInv'
    BY <2>1, <2>2, <2>9, ScanSInv
  <2>10. CASE \/ \E f \in Files : CheckFileExist(f) \/ RemoveFile(f) \/ Unlink(f)
              \/ NewDay \/ UNCHANGED statVars
    BY <2>1, <2>10, RestSInv
  <2>11. CASE Restart
    BY <2>1, <2>11, RestartSInv
  <2>. QED BY <2>1, <2>3, <2>6, <2>7, <2>8, <2>9, <2>10, <2>11 DEF StatNext
<1>. QED BY InitSInv, <1>1, PTL DEF StatSpec

\* Types.
THEOREM StatTypeCorrect == StatSpec => []StatTypeOK
<1>1. SInv => StatTypeOK
  <2>. SUFFICES ASSUME SInv PROVE StatTypeOK
    OBVIOUS
  <2>1. ASSUME NEW p \in Procs PROVE proc[p] = Idle <=> At(p, "idle")
    BY IdleIs, AtWork DEF At
  <2>. QED BY <2>1 DEF SInv, StatTyped, IsCounts, StatTypeOK
<1>. QED BY <1>1, StatInvariance, PTL

\* The count of a day is that of its files.md5 entries when nothing is at work, but
\* for the overlaps, uncounted entries and missed files that drifted names: whatever
\* the goroutines of saveFileMd5Log, SaveFileInfoToLevelDB, SaveStat and
\* RepairStatByDate interleave, and across restarts.
THEOREM CountsAreExact == StatSpec => []CountExact
<1>1. SInv => CountExact
  <2>. SUFFICES ASSUME SInv, AllIdle, NEW d \in Days \ drifted
                PROVE  Count(statMap, d) = Cardinality(Entries(d))
    BY DEF CountExact
  <2>1. Active(d) = {}
    BY IdleIs DEF AllIdle, Active
  <2>2. Counted(d) = Entries(d) /\ ~Counting(d)
    BY <2>1 DEF Counted, Through, Counting
  <2>. QED BY <2>2 DEF SInv, DayInv
<1>. QED BY <1>1, StatInvariance, PTL

\* stat.json keeps every count when nothing is at work, but for the overlaps of
\* SaveStat that raced names.
THEOREM SavedIsExact == StatSpec => []SavedExact
<1>1. SInv => SavedExact
  <2>. SUFFICES ASSUME SInv, AllIdle PROVE SavedExact
    BY DEF SavedExact
  <2>1. Saving = {} /\ Getting = {}
    BY IdleIs DEF AllIdle, Saving, Getting, At
  <2>. QED BY <2>1 DEF SInv, SaveInv, Same, SavedExact
<1>. QED BY <1>1, StatInvariance, PTL

-----------------------------------------------------------------------------
(* The cards. What a recursive function does is shown by induction over a  *)
(* set of numbers: a smallest one outside it would have a predecessor.     *)

\* Induction over a set of naturals.
LEMMA NatSet ==
    ASSUME NEW S, 0 \in S, \A n \in Nat : n \in S => n + 1 \in S
    PROVE  Nat \subseteq S
<1>. DEFINE T == Nat \ S
<1>1. SUFFICES ASSUME T # {} PROVE FALSE
  OBVIOUS
<1>2. PICK x \in T : \A y \in T : ~(<<y, x>> \in OpToRel(<, Nat))
  <2>1. T \subseteq Nat
    OBVIOUS
  <2>. HIDE DEF T
  <2>. QED BY <1>1, <2>1, NatLessThanWellFounded, WFMin
<1>3. x \in Nat /\ x # 0 /\ x - 1 \in Nat
  OBVIOUS
<1>4. <<x - 1, x>> \in OpToRel(<, Nat)
  BY <1>3 DEF OpToRel
<1>5. x - 1 \in S
  BY <1>2, <1>3, <1>4
<1>6. (x - 1) + 1 \in S
  BY <1>3, <1>5
<1>. QED BY <1>3, <1>6

\* f runs from base over 1 .. n.
Runs(V, base, n, step, f) ==
    /\ f \in [0 .. n -> V]
    /\ f[0] = base
    /\ \A i \in 1 .. n : f[i] = step[<<f[i - 1], i>>]

\* A recursive function over 0 .. n exists, and keeps to the set of its values.
LEMMA Recursion ==
    ASSUME NEW V, NEW base \in V, NEW n \in Nat, NEW step \in [V \X (1 .. n) -> V]
    PROVE  \E f : Runs(V, base, n, step, f)
<1>. DEFINE S == {m \in Nat : m <= n => \E f : Runs(V, base, m, step, f)}
<1>1. 0 \in S
  <2>1. Runs(V, base, 0, step, [i \in 0 .. 0 |-> base])
    BY DEF Runs
  <2>. QED BY <2>1
<1>2. ASSUME NEW m \in Nat, m \in S PROVE m + 1 \in S
  <2>1. SUFFICES ASSUME m + 1 <= n PROVE \E g : Runs(V, base, m + 1, step, g)
    BY <1>2
  <2>2. PICK f : Runs(V, base, m, step, f)
    BY <1>2, <2>1
  <2>. DEFINE v == step[<<f[m], m + 1>>]
              g == [i \in 0 .. m + 1 |-> IF i = m + 1 THEN v ELSE f[i]]
  <2>3. v \in V
    BY <2>1, <2>2 DEF Runs
  <2>4. g \in [0 .. m + 1 -> V]
    BY <2>2, <2>3 DEF Runs
  <2>5. \A i \in 0 .. m : g[i] = f[i]
    OBVIOUS
  <2>6. g[m + 1] = v
    OBVIOUS
  <2>7. g[0] = base
    BY <2>2, <2>5 DEF Runs
  <2>8. ASSUME NEW i \in 1 .. m + 1 PROVE g[i] = step[<<g[i - 1], i>>]
    <3>. HIDE DEF g
    <3>1. CASE i = m + 1
      <4>1. i - 1 = m /\ m \in 0 .. m
        BY <3>1
      <4>. QED BY <2>5, <2>6, <3>1, <4>1
    <3>2. CASE i # m + 1
      <4>1. i \in 1 .. m /\ i \in 0 .. m /\ i - 1 \in 0 .. m
        BY <3>2
      <4>. QED BY <2>2, <2>5, <4>1 DEF Runs
    <3>. QED BY <3>1, <3>2
  <2>9. Runs(V, base, m + 1, step, g)
    BY <2>4, <2>7, <2>8 DEF Runs
  <2>. HIDE DEF g
  <2>. QED BY <2>9
<1>. HIDE DEF S
<1>3. Nat \subseteq S
  BY <1>1, <1>2, NatSet
<1>4. n \in S
  BY <1>3
<1>. QED BY <1>4 DEF S

\* What keeps to its equation is one.
LEMMA RunsIfSteps ==
    ASSUME NEW V, NEW base \in V, NEW n \in Nat, NEW step \in [V \X (1 .. n) -> V],
           NEW g, g = [i \in 0 .. n |-> g[i]], g[0] = base,
           \A i \in 1 .. n : g[i - 1] \in V => g[i] = step[<<g[i - 1], i>>]
    PROVE  Runs(V, base, n, step, g)
<1>. DEFINE S == {m \in Nat : m <= n => g[m] \in V}
<1>2. 0 \in S
  OBVIOUS
<1>3. ASSUME NEW m \in Nat, m \in S PROVE m + 1 \in S
  <2>1. SUFFICES ASSUME m + 1 <= n PROVE g[m + 1] \in V
    OBVIOUS
  <2>2. g[m] \in V
    BY <1>3, <2>1
  <2>3. m + 1 \in 1 .. n /\ (m + 1) - 1 = m
    BY <2>1
  <2>4. g[m + 1] = step[<<g[m], m + 1>>]
    BY <2>2, <2>3
  <2>. QED BY <2>1, <2>2, <2>3, <2>4
<1>. HIDE DEF S
<1>4. Nat \subseteq S
  BY <1>2, <1>3, NatSet
<1>5. \A i \in 0 .. n : g[i] \in V
  BY <1>4 DEF S
<1>6. g \in [0 .. n -> V]
  BY <1>5
<1>7. ASSUME NEW i \in 1 .. n PROVE i - 1 \in 0 .. n
  OBVIOUS
<1>. QED BY <1>5, <1>6, <1>7 DEF Runs

\* The same over the integers, from 0.
LEMMA IntRecursion ==
    ASSUME NEW n \in Nat, NEW step \in [Int \X (1 .. n) -> Int]
    PROVE  \E f : Runs(Int, 0, n, step, f)
<1>1. 0 \in Int
  OBVIOUS
<1>. QED BY <1>1, Recursion

\* The rows of GetStat.
Row == [all : BOOLEAN, n : Int]
Rows == Seq(Row)

\* GetStat's loop keeps to its equation.
LEMMA LoopIs ==
    ASSUME IsCounts(statMap)
    PROVE  /\ Loop \in [0 .. MaxDay -> [rows : Rows, total : Int]]
           /\ Loop[0] = [rows |-> <<>>, total |-> 0]
           /\ \A d \in Days :
                Loop[d] = IF d \notin DOMAIN statMap THEN Loop[d - 1]
                          ELSE [rows |-> Append(Loop[d - 1].rows, [all |-> FALSE, n |-> statMap[d]]),
                                total |-> Loop[d - 1].total + statMap[d]]
<1>. DEFINE V == [rows : Rows, total : Int]
            base == [rows |-> <<>>, total |-> 0]
            After(v, d) == IF d \notin DOMAIN statMap THEN v
                          ELSE [rows |-> Append(v.rows, [all |-> FALSE, n |-> statMap[d]]),
                                total |-> v.total + statMap[d]]
            step == [x \in V \X Days |-> After(x[1], x[2])]
<1>1. base \in V
  BY DEF Rows
<1>2. ASSUME NEW v \in V, NEW d \in Days PROVE After(v, d) \in V
  <2>1. CASE d \notin DOMAIN statMap
    BY <2>1
  <2>2. CASE d \in DOMAIN statMap
    <3>. DEFINE row == [all |-> FALSE, n |-> statMap[d]]
    <3>1. row \in Row
      BY <2>2 DEF IsCounts, Row
    <3>2. v.rows \in Rows /\ v.total \in Int /\ statMap[d] \in Int
      BY <2>2 DEF IsCounts
    <3>. HIDE DEF row
    <3>3. Append(v.rows, row) \in Rows
      BY <3>1, <3>2 DEF Rows
    <3>. QED BY <2>2, <3>2, <3>3 DEF row
  <2>. QED BY <2>1, <2>2
<1>. HIDE DEF V, base, After
<1>3. step \in [V \X (1 .. MaxDay) -> V]
  BY <1>2 DEF Days
<1>4. \A v \in V, d \in Days : step[<<v, d>>] = After(v, d)
  OBVIOUS
<1>. HIDE DEF step
<1>5. MaxDay \in Nat
  BY StatisticsAssumption
<1>6. PICK f : Runs(V, base, MaxDay, step, f)
  BY <1>1, <1>3, <1>5, Recursion
<1>7. \A d \in Days : f[d] = After(f[d - 1], d)
  <2>1. ASSUME NEW d \in Days PROVE d \in 1 .. MaxDay /\ f[d - 1] \in V
    BY <1>5, <1>6 DEF Days, Runs
  <2>. QED BY <1>4, <1>6, <2>1 DEF Runs
<1>8. f = [d \in 0 .. MaxDay |-> IF d = 0 THEN base ELSE After(f[d - 1], d)]
  <2>1. ASSUME NEW d \in 0 .. MaxDay PROVE f[d] = IF d = 0 THEN base ELSE After(f[d - 1], d)
    <3>1. d = 0 \/ d \in Days
      BY <1>5 DEF Days
    <3>. QED BY <1>6, <1>7, <3>1 DEF Days, Runs
  <2>. QED BY <1>6, <2>1 DEF Runs
<1>9. Loop = [d \in 0 .. MaxDay |-> IF d = 0 THEN base ELSE After(Loop[d - 1], d)]
  BY <1>8 DEF Loop, base, After
<1>. HIDE DEF After
<1>10. Loop[0] = base /\ \A d \in Days : Loop[d] = After(Loop[d - 1], d)
  BY <1>5, <1>9 DEF Days
<1>11. Loop = [d \in 0 .. MaxDay |-> Loop[d]]
  BY <1>9
<1>12. \A d \in 1 .. MaxDay : Loop[d - 1] \in V => Loop[d] = step[<<Loop[d - 1], d>>]
  BY <1>4, <1>10 DEF Days
<1>13. Runs(V, base, MaxDay, step, Loop)
  BY <1>1, <1>3, <1>5, <1>10, <1>11, <1>12, RunsIfSteps
<1>. QED BY <1>10, <1>13 DEF Runs, V, base, After

\* CountOf adds up.
LEMMA CountOfIs ==
    ASSUME IsCounts(statMap), NEW days
    PROVE  \E sum \in [0 .. MaxDay -> Int] :
              /\ sum[0] = 0
              /\ \A i \in 1 .. MaxDay : sum[i] = IF i \in days THEN sum[i - 1] + Count(statMap, i) ELSE sum[i - 1]
              /\ CountOf(days) = sum[MaxDay]
<1>. DEFINE After(v, i) == IF i \in days THEN v + Count(statMap, i) ELSE v
            step == [x \in Int \X (1 .. MaxDay) |-> After(x[1], x[2])]
<1>1. MaxDay \in Nat
  BY StatisticsAssumption
<1>2. \A v \in Int, i \in 1 .. MaxDay : After(v, i) \in Int
  BY DEF IsCounts, Count
<1>. HIDE DEF After
<1>3. \A v \in Int, i \in 1 .. MaxDay : step[<<v, i>>] = After(v, i)
  OBVIOUS
<1>4. 0 \in Int /\ step \in [Int \X (1 .. MaxDay) -> Int]
  BY <1>2
<1>. HIDE DEF step
<1>5. PICK f : Runs(Int, 0, MaxDay, step, f)
  BY <1>1, <1>4, IntRecursion
<1>6. f = [i \in 0 .. MaxDay |-> IF i = 0 THEN 0 ELSE After(f[i - 1], i)]
  <2>1. ASSUME NEW i \in 0 .. MaxDay PROVE f[i] = IF i = 0 THEN 0 ELSE After(f[i - 1], i)
    <3>1. i = 0 \/ (i \in 1 .. MaxDay /\ i - 1 \in 0 .. MaxDay)
      BY <1>1
    <3>. QED BY <1>3, <1>5, <3>1 DEF Runs
  <2>. QED BY <1>5, <2>1 DEF Runs
<1>7. \E g : g = [i \in 0 .. MaxDay |-> IF i = 0 THEN 0 ELSE After(g[i - 1], i)] /\ CountOf(days) = g[MaxDay]
  BY <1>6 DEF CountOf, After
<1>8. PICK g : g = [i \in 0 .. MaxDay |-> IF i = 0 THEN 0 ELSE After(g[i - 1], i)] /\ CountOf(days) = g[MaxDay]
  BY <1>7
<1>9. g[0] = 0 /\ \A i \in 1 .. MaxDay : g[i] = After(g[i - 1], i)
  BY <1>1, <1>8
<1>10. \A i \in 1 .. MaxDay : g[i - 1] \in Int => g[i] = step[<<g[i - 1], i>>]
  BY <1>3, <1>9
<1>11. g = [i \in 0 .. MaxDay |-> g[i]]
  BY <1>8
<1>12. Runs(Int, 0, MaxDay, step, g)
  BY <1>1, <1>4, <1>9, <1>10, <1>11, RunsIfSteps
<1>. QED BY <1>8, <1>9, <1>12 DEF Runs, After

\* DayTotal adds up.
LEMMA DayTotalIs ==
    ASSUME NEW rows \in Rows
    PROVE  \E sum \in [0 .. Len(rows) -> Int] :
              /\ sum[0] = 0
              /\ \A i \in 1 .. Len(rows) : sum[i] = IF ~rows[i].all /\ i + Window > Len(rows) + 1 THEN sum[i - 1] + rows[i].n ELSE sum[i - 1]
              /\ DayTotal(rows) = sum[Len(rows)]
<1>. DEFINE After(v, i) == IF ~rows[i].all /\ i + Window > Len(rows) + 1 THEN v + rows[i].n ELSE v
            step == [x \in Int \X (1 .. Len(rows)) |-> After(x[1], x[2])]
<1>1. Len(rows) \in Nat
  BY DEF Rows
<1>2. \A v \in Int, i \in 1 .. Len(rows) : After(v, i) \in Int
  <2>1. ASSUME NEW i \in 1 .. Len(rows) PROVE rows[i].n \in Int
    <3>1. rows[i] \in Row
      BY DEF Rows
    <3>. QED BY <3>1 DEF Row
  <2>. QED BY <2>1
<1>. HIDE DEF After
<1>3. \A v \in Int, i \in 1 .. Len(rows) : step[<<v, i>>] = After(v, i)
  OBVIOUS
<1>4. 0 \in Int /\ step \in [Int \X (1 .. Len(rows)) -> Int]
  BY <1>2
<1>. HIDE DEF step
<1>5. PICK f : Runs(Int, 0, Len(rows), step, f)
  BY <1>1, <1>4, IntRecursion
<1>6. f = [i \in 0 .. Len(rows) |-> IF i = 0 THEN 0 ELSE After(f[i - 1], i)]
  <2>1. ASSUME NEW i \in 0 .. Len(rows) PROVE f[i] = IF i = 0 THEN 0 ELSE After(f[i - 1], i)
    <3>1. i = 0 \/ (i \in 1 .. Len(rows) /\ i - 1 \in 0 .. Len(rows))
      BY <1>1
    <3>. QED BY <1>3, <1>5, <3>1 DEF Runs
  <2>. QED BY <1>5, <2>1 DEF Runs
<1>7. \E g : g = [i \in 0 .. Len(rows) |-> IF i = 0 THEN 0 ELSE After(g[i - 1], i)] /\ DayTotal(rows) = g[Len(rows)]
  BY <1>6 DEF DayTotal, After
<1>8. PICK g : g = [i \in 0 .. Len(rows) |-> IF i = 0 THEN 0 ELSE After(g[i - 1], i)] /\ DayTotal(rows) = g[Len(rows)]
  BY <1>7
<1>9. g[0] = 0 /\ \A i \in 1 .. Len(rows) : g[i] = After(g[i - 1], i)
  BY <1>1, <1>8
<1>10. \A i \in 1 .. Len(rows) : g[i - 1] \in Int => g[i] = step[<<g[i - 1], i>>]
  BY <1>3, <1>9
<1>11. g = [i \in 0 .. Len(rows) |-> g[i]]
  BY <1>8
<1>12. Runs(Int, 0, Len(rows), step, g)
  BY <1>1, <1>4, <1>9, <1>10, <1>11, RunsIfSteps
<1>. QED BY <1>8, <1>9, <1>12 DEF Runs, After

\* AllTotal keeps the last.
LEMMA AllTotalIs ==
    ASSUME NEW rows \in Rows
    PROVE  \E text \in [0 .. Len(rows) -> Int] :
              /\ text[0] = 0
              /\ \A i \in 1 .. Len(rows) : text[i] = IF rows[i].all THEN rows[i].n ELSE text[i - 1]
              /\ AllTotal(rows) = text[Len(rows)]
<1>. DEFINE After(v, i) == IF rows[i].all THEN rows[i].n ELSE v
            step == [x \in Int \X (1 .. Len(rows)) |-> After(x[1], x[2])]
<1>1. Len(rows) \in Nat
  BY DEF Rows
<1>2. \A v \in Int, i \in 1 .. Len(rows) : After(v, i) \in Int
  <2>1. ASSUME NEW i \in 1 .. Len(rows) PROVE rows[i].n \in Int
    <3>1. rows[i] \in Row
      BY DEF Rows
    <3>. QED BY <3>1 DEF Row
  <2>. QED BY <2>1
<1>. HIDE DEF After
<1>3. \A v \in Int, i \in 1 .. Len(rows) : step[<<v, i>>] = After(v, i)
  OBVIOUS
<1>4. 0 \in Int /\ step \in [Int \X (1 .. Len(rows)) -> Int]
  BY <1>2
<1>. HIDE DEF step
<1>5. PICK f : Runs(Int, 0, Len(rows), step, f)
  BY <1>1, <1>4, IntRecursion
<1>6. f = [i \in 0 .. Len(rows) |-> IF i = 0 THEN 0 ELSE After(f[i - 1], i)]
  <2>1. ASSUME NEW i \in 0 .. Len(rows) PROVE f[i] = IF i = 0 THEN 0 ELSE After(f[i - 1], i)
    <3>1. i = 0 \/ (i \in 1 .. Len(rows) /\ i - 1 \in 0 .. Len(rows))
      BY <1>1
    <3>. QED BY <1>3, <1>5, <3>1 DEF Runs
  <2>. QED BY <1>5, <2>1 DEF Runs
<1>7. \E g : g = [i \in 0 .. Len(rows) |-> IF i = 0 THEN 0 ELSE After(g[i - 1], i)] /\ AllTotal(rows) = g[Len(rows)]
  BY <1>6 DEF AllTotal, After
<1>8. PICK g : g = [i \in 0 .. Len(rows) |-> IF i = 0 THEN 0 ELSE After(g[i - 1], i)] /\ AllTotal(rows) = g[Len(rows)]
  BY <1>7
<1>9. g[0] = 0 /\ \A i \in 1 .. Len(rows) : g[i] = After(g[i - 1], i)
  BY <1>1, <1>8
<1>10. \A i \in 1 .. Len(rows) : g[i - 1] \in Int => g[i] = step[<<g[i - 1], i>>]
  BY <1>3, <1>9
<1>11. g = [i \in 0 .. Len(rows) |-> g[i]]
  BY <1>8
<1>12. Runs(Int, 0, Len(rows), step, g)
  BY <1>1, <1>4, <1>9, <1>10, <1>11, RunsIfSteps
<1>. QED BY <1>8, <1>9, <1>12 DEF Runs, After

\* The days with a count, up to d.
Upto(d) == {e \in DOMAIN statMap : e <= d}

\* What induction over the days needs.
LEMMA DayInduction ==
    ASSUME NEW S, 0 \in S, \A d \in Days : d - 1 \in S => d \in S
    PROVE  0 .. MaxDay \subseteq S
<1>. DEFINE T == {m \in Nat : m <= MaxDay => m \in S}
<1>1. 0 \in T
  OBVIOUS
<1>2. ASSUME NEW m \in Nat, m \in T PROVE m + 1 \in T
  <2>1. SUFFICES ASSUME m + 1 <= MaxDay PROVE m + 1 \in S
    OBVIOUS
  <2>2. m + 1 \in Days /\ (m + 1) - 1 = m /\ m \in S
    BY <1>2, <2>1, StatisticsAssumption DEF Days
  <2>. QED BY <2>2
<1>. HIDE DEF T
<1>3. Nat \subseteq T
  BY <1>1, <1>2, NatSet
<1>. QED BY <1>3 DEF T

\* How many days there are up to one, and after it.
LEMMA UptoSizes ==
    ASSUME IsCounts(statMap)
    PROVE  /\ Upto(0) = {}
           /\ IsFiniteSet(DOMAIN statMap) /\ \A d \in 0 .. MaxDay : IsFiniteSet(Upto(d))
           /\ Upto(MaxDay) = DOMAIN statMap
           /\ \A d \in Days :
                Cardinality(Upto(d)) =
                  IF d \in DOMAIN statMap THEN Cardinality(Upto(d - 1)) + 1 ELSE Cardinality(Upto(d - 1))
           /\ \A d \in Days :
                Cardinality({e \in DOMAIN statMap : e > d}) = Cardinality(DOMAIN statMap) - Cardinality(Upto(d))
<1>1. MaxDay \in Nat /\ DOMAIN statMap \subseteq 1 .. MaxDay
  BY StatisticsAssumption DEF IsCounts, Days
<1>2. IsFiniteSet(1 .. MaxDay)
  BY <1>1, FS_Interval
<1>3. IsFiniteSet(DOMAIN statMap)
  BY <1>1, <1>2, FS_Subset
<1>4. ASSUME NEW d PROVE IsFiniteSet(Upto(d)) /\ IsFiniteSet({e \in DOMAIN statMap : e > d})
  <2>1. Upto(d) \subseteq DOMAIN statMap /\ {e \in DOMAIN statMap : e > d} \subseteq DOMAIN statMap
    BY DEF Upto
  <2>. QED BY <1>3, <2>1, FS_Subset
<1>5. Upto(0) = {} /\ Upto(MaxDay) = DOMAIN statMap
  BY <1>1 DEF Upto
<1>6. ASSUME NEW d \in Days
      PROVE Cardinality(Upto(d)) =
              IF d \in DOMAIN statMap THEN Cardinality(Upto(d - 1)) + 1 ELSE Cardinality(Upto(d - 1))
  <2>0. IsFiniteSet(Upto(d - 1))
    BY <1>4
  <2>1. IsFiniteSet(Upto(d - 1)) /\ d \notin Upto(d - 1)
    BY <1>1, <2>0 DEF Upto, Days
  <2>2. CASE d \in DOMAIN statMap
    <3>1. Upto(d) = Upto(d - 1) \cup {d}
      BY <1>1, <2>2 DEF Upto, Days
    <3>2. Cardinality(Upto(d - 1) \cup {d}) = Cardinality(Upto(d - 1)) + 1
      BY <2>1, FS_AddElement
    <3>. QED BY <2>2, <3>1, <3>2
  <2>3. CASE d \notin DOMAIN statMap
    <3>1. Upto(d) = Upto(d - 1)
      BY <1>1, <2>3 DEF Upto, Days
    <3>. QED BY <2>3, <3>1
  <2>. QED BY <2>2, <2>3
<1>7. ASSUME NEW d \in Days
      PROVE Cardinality({e \in DOMAIN statMap : e > d}) = Cardinality(DOMAIN statMap) - Cardinality(Upto(d))
  <2>. DEFINE later == {e \in DOMAIN statMap : e > d}
  <2>1. later \cup Upto(d) = DOMAIN statMap /\ later \cap Upto(d) = {}
    BY <1>1 DEF Upto, Days
  <2>2. IsFiniteSet(later) /\ IsFiniteSet(Upto(d))
    BY <1>4
  <2>. HIDE DEF later
  <2>3. Cardinality(later \cup Upto(d)) = Cardinality(later) + Cardinality(Upto(d)) - Cardinality(later \cap Upto(d))
    BY <2>2, FS_Union
  <2>4. Cardinality(later) \in Nat /\ Cardinality(Upto(d)) \in Nat
    BY <2>2, FS_CardinalityType
  <2>5. Cardinality(later) = Cardinality(DOMAIN statMap) - Cardinality(Upto(d))
    <3>1. Cardinality({}) = 0
      BY FS_EmptySet
    <3>2. Cardinality(later \cap Upto(d)) = 0
      BY <2>1, <3>1, Zenon
    <3>3. Cardinality(later \cup Upto(d)) = Cardinality(DOMAIN statMap)
      BY <2>1, Zenon
    <3>. QED BY <2>3, <2>4, <3>2, <3>3
  <2>. QED BY <2>5 DEF later
<1>. QED BY <1>3, <1>4, <1>5, <1>6, <1>7

\* The rows GetStat has when day d is done.
LEMMA LoopRows ==
    ASSUME IsCounts(statMap)
    PROVE  \A d \in 0 .. MaxDay :
             /\ Len(Loop[d].rows) = Cardinality(Upto(d))
             /\ \A i \in 1 .. Len(Loop[d].rows) : ~Loop[d].rows[i].all
             /\ \A e \in 0 .. d :
                  /\ Len(Loop[e].rows) <= Len(Loop[d].rows)
                  /\ \A i \in 1 .. Len(Loop[e].rows) : Loop[e].rows[i] = Loop[d].rows[i]
<1>. DEFINE P(d) ==
             /\ Len(Loop[d].rows) = Cardinality(Upto(d))
             /\ \A i \in 1 .. Len(Loop[d].rows) : ~Loop[d].rows[i].all
             /\ \A e \in 0 .. d :
                  /\ Len(Loop[e].rows) <= Len(Loop[d].rows)
                  /\ \A i \in 1 .. Len(Loop[e].rows) : Loop[e].rows[i] = Loop[d].rows[i]
            S == {d \in 0 .. MaxDay : P(d)}
<1>1. MaxDay \in Nat /\ \A d \in 0 .. MaxDay : Loop[d].rows \in Seq(Row)
  BY LoopIs, StatisticsAssumption DEF Rows
<1>2. 0 \in S
  <2>1. Loop[0].rows = <<>>
    BY LoopIs
  <2>2. Len(Loop[0].rows) = Cardinality(Upto(0))
    BY <2>1, UptoSizes, FS_EmptySet
  <2>. QED BY <1>1, <2>1, <2>2
<1>3. ASSUME NEW d \in Days, d - 1 \in S PROVE d \in S
  <2>1. d \in 0 .. MaxDay /\ d - 1 \in 0 .. MaxDay /\ P(d - 1)
    BY <1>1, <1>3 DEF Days
  <2>2. CASE d \notin DOMAIN statMap
    <3>1. Loop[d] = Loop[d - 1]
      BY <2>2, LoopIs
    <3>2. Cardinality(Upto(d)) = Cardinality(Upto(d - 1))
      BY <2>2, UptoSizes
    <3>3. \A e \in 0 .. d : e \in 0 .. d - 1 \/ e = d
      BY <2>1
    <3>. QED BY <1>1, <2>1, <3>1, <3>2, <3>3
  <2>3. CASE d \in DOMAIN statMap
    <3>. DEFINE row == [all |-> FALSE, n |-> statMap[d]]
    <3>0. Loop[d] = [rows |-> Append(Loop[d - 1].rows, row), total |-> Loop[d - 1].total + statMap[d]]
      BY <2>3, LoopIs
    <3>1. Loop[d].rows = Append(Loop[d - 1].rows, row)
      BY <3>0
    <3>2. Cardinality(Upto(d)) = Cardinality(Upto(d - 1)) + 1
      BY <2>3, UptoSizes
    <3>3. ~row.all /\ row \in Row
      BY <2>3 DEF Row, IsCounts
    <3>. HIDE DEF row
    <3>4. PICK r \in Seq(Row) : r = Loop[d - 1].rows
      BY <1>1, <2>1
    <3>5. /\ Len(Loop[d].rows) = Len(r) + 1
          /\ Loop[d].rows[Len(r) + 1] = row
          /\ \A i \in 1 .. Len(r) : Loop[d].rows[i] = r[i]
      BY <3>1, <3>3, <3>4
    <3>6. Len(r) \in Nat
      OBVIOUS
    <3>7. \A i \in 1 .. Len(r) + 1 : ~Loop[d].rows[i].all
      <4>1. ASSUME NEW i \in 1 .. Len(r) + 1 PROVE i \in 1 .. Len(r) \/ i = Len(r) + 1
        BY <3>6
      <4>. QED BY <2>1, <3>3, <3>4, <3>5, <4>1
    <3>8. ASSUME NEW e \in 0 .. d
          PROVE  /\ Len(Loop[e].rows) <= Len(Loop[d].rows)
                 /\ \A i \in 1 .. Len(Loop[e].rows) : Loop[e].rows[i] = Loop[d].rows[i]
      <4>1. CASE e = d
        <5>1. Len(Loop[d].rows) \in Nat
          BY <3>5, <3>6
        <5>. QED BY <4>1, <5>1
      <4>2. CASE e # d
        <5>1. e \in 0 .. d - 1 /\ e \in 0 .. MaxDay
          BY <1>1, <2>1, <4>2
        <5>2. Len(Loop[e].rows) \in Nat
          BY <1>1, <5>1
        <5>3. Len(Loop[e].rows) <= Len(r) /\ \A i \in 1 .. Len(Loop[e].rows) : Loop[e].rows[i] = r[i]
          BY <2>1, <3>4, <5>1
        <5>4. \A i \in 1 .. Len(Loop[e].rows) : i \in 1 .. Len(r)
          BY <3>6, <5>2, <5>3
        <5>. QED BY <3>5, <3>6, <5>2, <5>3, <5>4
      <4>. QED BY <4>1, <4>2
    <3>9. Len(Loop[d].rows) = Cardinality(Upto(d))
      BY <2>1, <3>2, <3>4, <3>5
    <3>. QED BY <2>1, <3>5, <3>7, <3>8, <3>9
  <2>. QED BY <2>2, <2>3
<1>. HIDE DEF S
<1>4. 0 .. MaxDay \subseteq S
  BY <1>2, <1>3, DayInduction
<1>. QED BY <1>4 DEF S

\* The card of all days.
LEMMA AllTotalIsCount ==
    ASSUME IsCounts(statMap)
    PROVE  GetStat \in Rows /\ AllTotal(GetStat) = CountOf(Days)
<1>1. MaxDay \in Nat /\ MaxDay \in 0 .. MaxDay /\ 0 \in 0 .. MaxDay
  BY StatisticsAssumption
<1>2. Loop[MaxDay].rows \in Seq(Row) /\ Loop[MaxDay].total \in Int
  BY <1>1, LoopIs DEF Rows
<1>. DEFINE last == [all |-> TRUE, n |-> Loop[MaxDay].total]
<1>3. last \in Row /\ last.all /\ last.n = Loop[MaxDay].total
  BY <1>2 DEF Row
<1>4. GetStat = Append(Loop[MaxDay].rows, last)
  BY DEF GetStat
<1>. HIDE DEF last
<1>5. GetStat \in Rows /\ Len(GetStat) \in Nat \ {0} /\ GetStat[Len(GetStat)] = last
  BY <1>2, <1>3, <1>4 DEF Rows
<1>6. AllTotal(GetStat) = Loop[MaxDay].total
  <2>1. PICK text : /\ \A i \in 1 .. Len(GetStat) :
                         text[i] = IF GetStat[i].all THEN GetStat[i].n ELSE text[i - 1]
                    /\ AllTotal(GetStat) = text[Len(GetStat)]
    BY <1>5, AllTotalIs
  <2>2. Len(GetStat) \in 1 .. Len(GetStat)
    BY <1>5
  <2>. QED BY <1>3, <1>5, <2>1, <2>2
<1>7. PICK sum : /\ sum[0] = 0
                 /\ \A d \in 1 .. MaxDay :
                      sum[d] = IF d \in Days THEN sum[d - 1] + Count(statMap, d) ELSE sum[d - 1]
                 /\ CountOf(Days) = sum[MaxDay]
                 /\ sum \in [0 .. MaxDay -> Int]
  BY CountOfIs
<1>. DEFINE S == {d \in 0 .. MaxDay : Loop[d].total = sum[d]}
<1>8. 0 \in S
  BY <1>1, <1>7, LoopIs
<1>9. ASSUME NEW d \in Days, d - 1 \in S PROVE d \in S
  <2>1. d \in 1 .. MaxDay /\ d \in 0 .. MaxDay /\ d - 1 \in 0 .. MaxDay
    BY <1>1 DEF Days
  <2>2. sum[d] = sum[d - 1] + Count(statMap, d)
    BY <1>7, <2>1
  <2>3. Loop[d - 1].total = sum[d - 1] /\ sum[d - 1] \in Int
    BY <1>7, <1>9, <2>1
  <2>4. CASE d \notin DOMAIN statMap
    <3>1. Loop[d] = Loop[d - 1]
      BY <2>4, LoopIs
    <3>. QED BY <2>1, <2>2, <2>3, <2>4, <3>1 DEF Count
  <2>5. CASE d \in DOMAIN statMap
    <3>1. Loop[d] = [rows |-> Append(Loop[d - 1].rows, [all |-> FALSE, n |-> statMap[d]]),
                     total |-> Loop[d - 1].total + statMap[d]]
      BY <2>5, LoopIs
    <3>2. Loop[d].total = Loop[d - 1].total + statMap[d]
      BY <3>1
    <3>. QED BY <2>1, <2>2, <2>3, <2>5, <3>2 DEF Count
  <2>. QED BY <2>4, <2>5
<1>. HIDE DEF S
<1>10. MaxDay \in S
  BY <1>1, <1>8, <1>9, DayInduction
<1>. QED BY <1>5, <1>6, <1>7, <1>10 DEF S

\* The card of Window days.
LEMMA DayTotalIsCount ==
    ASSUME IsCounts(statMap)
    PROVE  DayTotal(GetStat) = CountOf(LastDays)
<1>. DEFINE G == GetStat
            N(d) == Len(Loop[d].rows)
<1>1. MaxDay \in Nat /\ MaxDay \in 0 .. MaxDay /\ 0 \in 0 .. MaxDay /\ Window \in Nat
  BY StatisticsAssumption
<1>2. \A d \in 0 .. MaxDay : Loop[d].rows \in Seq(Row)
  BY LoopIs DEF Rows
<1>3. \A d \in 0 .. MaxDay : N(d) \in Nat /\ N(d) = Cardinality(Upto(d)) /\ N(d) <= N(MaxDay)
  BY <1>1, <1>2, LoopRows
<1>4. /\ Len(G) = N(MaxDay) + 1 /\ G[Len(G)].all
      /\ \A i \in 1 .. N(MaxDay) : G[i] = Loop[MaxDay].rows[i]
  <2>. DEFINE last == [all |-> TRUE, n |-> Loop[MaxDay].total]
  <2>1. last \in Row /\ last.all
    BY <1>1, LoopIs DEF Row
  <2>2. G = Append(Loop[MaxDay].rows, last)
    BY DEF GetStat
  <2>. HIDE DEF last, G
  <2>3. PICK r \in Seq(Row) : r = Loop[MaxDay].rows
    BY <1>1, <1>2
  <2>. QED BY <2>1, <2>2, <2>3
<1>5. \A d \in 0 .. MaxDay : \A i \in 1 .. N(d) : G[i] = Loop[d].rows[i] /\ ~G[i].all
  <2>1. ASSUME NEW d \in 0 .. MaxDay, NEW i \in 1 .. N(d)
        PROVE  Loop[d].rows[i] = Loop[MaxDay].rows[i] /\ ~Loop[d].rows[i].all /\ i \in 1 .. N(MaxDay)
    <3>1. d \in 0 .. MaxDay /\ i <= N(MaxDay)
      BY <1>1, <1>3
    <3>. QED BY <1>1, <1>3, <3>1, LoopRows
  <2>. HIDE DEF G, N
  <2>. QED BY <1>4, <2>1
<1>6. N(MaxDay) = Cardinality(DOMAIN statMap)
  BY <1>1, <1>3, UptoSizes
<1>7. G \in Rows
  BY AllTotalIsCount
<1>8. PICK sum : /\ sum \in [0 .. Len(G) -> Int] /\ sum[0] = 0
                 /\ \A i \in 1 .. Len(G) :
                      sum[i] = IF ~G[i].all /\ i + Window > Len(G) + 1 THEN sum[i - 1] + G[i].n ELSE sum[i - 1]
                 /\ DayTotal(G) = sum[Len(G)]
  BY <1>7, DayTotalIs
<1>9. PICK cnt : /\ cnt \in [0 .. MaxDay -> Int] /\ cnt[0] = 0
                 /\ \A d \in 1 .. MaxDay :
                      cnt[d] = IF d \in LastDays THEN cnt[d - 1] + Count(statMap, d) ELSE cnt[d - 1]
                 /\ CountOf(LastDays) = cnt[MaxDay]
  BY CountOfIs
<1>. DEFINE S == {d \in 0 .. MaxDay : sum[N(d)] = cnt[d]}
<1>10. 0 \in S
  <2>1. Loop[0].rows = <<>>
    BY LoopIs
  <2>2. N(0) = 0
    BY <2>1
  <2>. QED BY <1>1, <1>8, <1>9, <2>2
<1>11. ASSUME NEW d \in Days, d - 1 \in S PROVE d \in S
  <2>1. d \in 1 .. MaxDay /\ d \in 0 .. MaxDay /\ d - 1 \in 0 .. MaxDay /\ sum[N(d - 1)] = cnt[d - 1]
    BY <1>1, <1>11 DEF Days
  <2>2. CASE d \notin DOMAIN statMap
    <3>1. N(d) = N(d - 1)
      BY <2>2, LoopIs
    <3>2. d \notin LastDays
      BY <2>2 DEF LastDays
    <3>3. cnt[d] = cnt[d - 1]
      BY <1>9, <2>1, <3>2
    <3>. QED BY <2>1, <3>1, <3>3
  <2>3. CASE d \in DOMAIN statMap
    <3>1. N(d) = N(d - 1) + 1
      BY <1>3, <2>1, <2>3, UptoSizes
    <3>2. Loop[d] = [rows |-> Append(Loop[d - 1].rows, [all |-> FALSE, n |-> statMap[d]]),
                     total |-> Loop[d - 1].total + statMap[d]]
      BY <2>3, LoopIs
    <3>3. Loop[d].rows[N(d)].n = statMap[d]
      <4>. DEFINE row == [all |-> FALSE, n |-> statMap[d]]
      <4>1. row \in Row /\ row.n = statMap[d]
        BY <2>3 DEF Row, IsCounts
      <4>2. Loop[d].rows = Append(Loop[d - 1].rows, row)
        BY <3>2
      <4>. HIDE DEF row
      <4>3. PICK r \in Seq(Row) : r = Loop[d - 1].rows
        BY <1>2, <2>1
      <4>4. Append(r, row)[Len(r) + 1] = row
        BY <4>1
      <4>. QED BY <3>1, <4>1, <4>2, <4>3, <4>4
    <3>. HIDE DEF N, G
    <3>4. N(d) \in 1 .. N(d) /\ N(d) \in 1 .. Len(G) /\ N(d) - 1 = N(d - 1)
      BY <1>1, <1>3, <1>4, <2>1, <3>1
    <3>5. G[N(d)].n = statMap[d] /\ ~G[N(d)].all
      BY <1>5, <2>1, <3>3, <3>4
    <3>6. sum[N(d)] = IF N(d) + Window > Len(G) + 1 THEN sum[N(d - 1)] + statMap[d] ELSE sum[N(d - 1)]
      BY <1>8, <3>4, <3>5
    <3>7. d \in LastDays <=> N(d) + Window > Len(G) + 1
      <4>1. d \in LastDays <=> Cardinality(DOMAIN statMap) - Cardinality(Upto(d)) < Window - 2
        BY <2>3, UptoSizes DEF LastDays
      <4>. QED BY <1>1, <1>3, <1>4, <1>6, <2>1, <4>1
    <3>8. cnt[d] = IF d \in LastDays THEN cnt[d - 1] + statMap[d] ELSE cnt[d - 1]
      BY <1>9, <2>1, <2>3 DEF Count
    <3>. QED BY <2>1, <3>6, <3>7, <3>8
  <2>. QED BY <2>2, <2>3
<1>. HIDE DEF S
<1>12. MaxDay \in S
  BY <1>1, <1>10, <1>11, DayInduction
<1>. HIDE DEF N, G
<1>13. sum[Len(G)] = sum[N(MaxDay)]
  <2>1. Len(G) \in 1 .. Len(G) /\ Len(G) - 1 = N(MaxDay)
    BY <1>1, <1>3, <1>4
  <2>. QED BY <1>4, <1>8, <2>1
<1>14. DayTotal(G) = CountOf(LastDays)
  BY <1>8, <1>9, <1>12, <1>13 DEF S
<1>. QED BY <1>14 DEF G

\* The cards show the counts of all days, and of the last Window - 2 days that have
\* one, together: the loops of GetStat and of js/main.js add up what statMap holds.
THEOREM CardsAreSums == StatSpec => []CardsShowSums
<1>1. SInv => CardsShowSums
  BY AllTotalIsCount, DayTotalIsCount DEF SInv, StatTyped, CardsShowSums
<1>. QED BY <1>1, StatInvariance, PTL
=============================================================================

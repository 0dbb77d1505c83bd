-------------------------- MODULE WebUploadProofs --------------------------
(***************************************************************************)
(* Proofs about the upload page. PageInv relates the queue, the rows and   *)
(* what the user did; NetInv follows the requests of one file, so long as  *)
(* no second one is sent beside the first and no answer is lost.           *)
(***************************************************************************)
EXTENDS WebUpload, TLAPS

\* An index that was not handed out is nowhere; what was removed is not in the
\* queue and has no row; what the page was told about, or shows as uploaded, is
\* not in the queue.
PageInv(i) ==
    /\ i \in files \cup reading \cup removed \cup acked \/ HasRow(i) \/ OnItsWay(i) => i \in Chosen
    /\ i \in removed => i \notin files /\ ~HasRow(i)
    /\ i \in reading => i \notin removed /\ ~HasRow(i)
    /\ i \in acked \/ row[i].buttons = "link" => i \notin files
    /\ i \in Chosen => i \in files \cup removed \cup acked

\* Of a file sent once at a time, with no answer lost: one request or one answer
\* is on its way; it is stored when the answer or the page says so, and what the
\* page was told about is not sent again.
OnceInv(i) ==
    /\ sending[i] <= 1
    /\ sending[i] > 0 => \A a \in Answer : answers[i][a] = 0
    /\ \A a, b \in Answer : answers[i][a] > 0 /\ a # b => answers[i][b] = 0
    /\ \A a \in Answer : answers[i][a] <= 1
    /\ stored[i] <= 1
    /\ stored[i] > 0 => sending[i] = 0 /\ (i \in acked \/ answers[i]["ok"] > 0)
    /\ i \in acked => ~OnItsWay(i) /\ row[i].buttons # "retry"

NetInv(i) ==
    /\ answers[i]["ok"] > 0 => stored[i] > 0
    /\ i \in acked \/ row[i].text = "uploaded" \/ row[i].buttons = "link" => stored[i] > 0
    /\ i \notin again \cup unanswered => OnceInv(i)

IInv == TypeOK /\ \A i \in Indexes : PageInv(i) /\ NetInv(i)

\* The actions, with what they have in common taken apart.
LEMMA NextCases ==
    ASSUME Next
    PROVE  \/ \E f \in Choices : Choose(f) \/ Drop(f)
           \/ Start
           \/ \E i \in Indexes : \/ Retry(i) \/ Delete(i)
                                 \/ Preview(i) \/ PreviewFails(i)
                                 \/ Store(i) \/ Refuse(i) \/ Fail(i) \/ StoreUnanswered(i)
                                 \/ Done(i) \/ Refused(i) \/ Error(i)
  BY DEF Next, User, Reader, Server, Handler

LEMMA RowFacts ==
    /\ NoRow \in Row /\ NewRow \in Row
    /\ NewRow # NoRow
    /\ NoRow.text = "none" /\ NoRow.buttons = "none"
    /\ NewRow.text = "waiting" /\ NewRow.buttons = "delete"
    /\ \A r \in Row : r.text \in {"none", "waiting", "failed", "uploaded"}
                      /\ r.buttons \in {"none", "delete", "retry", "link"}
  BY DEF NoRow, NewRow, Row

\* Choosing and dropping: new indexes only.
LEMMA IncomingInv ==
    ASSUME IInv, NEW f \in Choices, Incoming(f), picked' \subseteq Names
    PROVE  IInv'
<1>. DEFINE new == DOMAIN f
<1>1. f \in [new -> Names] /\ new \subseteq Indexes
  BY DEF Choices
<1>2. name' = [i \in Indexes |-> IF i \in new THEN f[i] ELSE name[i]]
      /\ chooseFiles' = new /\ files' = files \cup new /\ reading' = reading \cup new
      /\ UNCHANGED <<row, network, history>> /\ \A i \in new : i \notin Chosen
  BY DEF Incoming, PushFile
<1>3. TypeOK'
  BY <1>1, <1>2 DEF IInv, TypeOK, network, history
<1>4. ASSUME NEW i \in Indexes PROVE PageInv(i)' /\ NetInv(i)'
  <2>1. i \in Chosen' <=> i \in Chosen \/ i \in new
    BY <1>1, <1>2, WebUploadAssumption DEF Chosen, IInv, TypeOK
  <2>2. HasRow(i)' = HasRow(i) /\ row'[i] = row[i] /\ removed' = removed /\ acked' = acked
    BY <1>2 DEF HasRow, history
  <2>3. i \in new => i \notin files \cup reading \cup removed \cup acked /\ ~HasRow(i)
    BY <1>2 DEF IInv, PageInv
  <2>4. i \in new => row[i].buttons # "link"
    BY <2>3, RowFacts DEF HasRow
  <2>5. PageInv(i)'
    BY <1>2, <2>1, <2>2, <2>3, <2>4 DEF IInv, PageInv, OnItsWay, network
  <2>6. NetInv(i)'
    BY <1>2 DEF IInv, NetInv, OnceInv, OnItsWay, network, history
  <2>. QED BY <2>5, <2>6
<1>. QED BY <1>3, <1>4 DEF IInv

\* Sending: what is sent is in the queue or has the retry button.
LEMMA SendInv ==
    ASSUME IInv, NEW set \in SUBSET Indexes, Send(set), UNCHANGED page,
           \A i \in set : i \in files \/ row[i].buttons = "retry"
    PROVE  IInv'
<1>1. /\ sending' = [i \in Indexes |-> IF i \in set THEN sending[i] + 1 ELSE sending[i]]
      /\ tries' = [i \in Indexes |-> IF i \in set THEN tries[i] + 1 ELSE tries[i]]
      /\ again' = again \cup {i \in set : OnItsWay(i)}
      /\ UNCHANGED <<answers, stored, faults, unanswered, removed, acked>>
      /\ UNCHANGED <<name, picked, chooseFiles, files, reading, row>>
  BY DEF Send, page
<1>2. TypeOK'
  BY <1>1 DEF IInv, TypeOK
<1>3. ASSUME NEW i \in Indexes PROVE PageInv(i)' /\ NetInv(i)'
  <2>1. PageInv(i)'
    <3>1. i \in set => i \in Chosen
      BY RowFacts DEF IInv, PageInv, HasRow
    <3>2. i \notin set => OnItsWay(i)' = OnItsWay(i)
      BY <1>1 DEF IInv, TypeOK, OnItsWay
    <3>. QED BY <1>1, <3>1, <3>2 DEF IInv, PageInv, HasRow, Chosen
  <2>2. ASSUME i \notin again' \cup unanswered', i \in set PROVE OnceInv(i)'
    <3>1. i \notin again \cup unanswered /\ ~OnItsWay(i)
      BY <1>1, <2>2
    <3>2. OnceInv(i) /\ PageInv(i) /\ sending[i] \in Nat /\ answers[i] \in [Answer -> Nat]
      BY <3>1 DEF IInv, NetInv, TypeOK
    <3>3. sending[i] = 0 /\ \A a \in Answer : answers[i][a] = 0
      BY <3>1, <3>2 DEF OnItsWay
    <3>4. i \notin acked
      BY <2>2, <3>2 DEF OnceInv, PageInv
    <3>5. stored[i] <= 0
      BY <3>2, <3>3, <3>4 DEF OnceInv, IInv, TypeOK, Answer
    <3>6. sending'[i] = 1 /\ answers' = answers /\ stored' = stored /\ acked' = acked
      BY <1>1, <2>2, <3>3
    <3>. QED BY <3>3, <3>4, <3>5, <3>6 DEF OnceInv, IInv, TypeOK
  <2>3. ASSUME i \notin again' \cup unanswered', i \notin set PROVE OnceInv(i)'
    BY <1>1, <2>3 DEF IInv, NetInv, OnceInv, OnItsWay
  <2>4. NetInv(i)'
    BY <1>1, <2>2, <2>3 DEF IInv, NetInv
  <2>. QED BY <2>1, <2>4
<1>. QED BY <1>2, <1>3 DEF IInv

LEMMA PreviewInv ==
    ASSUME IInv, NEW i \in Indexes, Preview(i) \/ PreviewFails(i)
    PROVE  IInv'
<1>1. /\ i \in reading /\ reading' = reading \ {i}
      /\ row' = row \/ row' = [row EXCEPT ![i] = NewRow]
      /\ UNCHANGED <<name, picked, chooseFiles, files, network, history>>
  BY DEF Preview, PreviewFails
<1>2. TypeOK'
  BY <1>1, RowFacts DEF IInv, TypeOK, network, history
<1>3. ASSUME NEW j \in Indexes PROVE PageInv(j)' /\ NetInv(j)'
  <2>1. row'[j] = row[j] \/ (row'[j] = NewRow /\ j = i)
    BY <1>1 DEF IInv, TypeOK
  <2>2. PageInv(j)'
    BY <1>1, <2>1, RowFacts DEF IInv, PageInv, HasRow, Chosen, OnItsWay, network, history
  <2>3. NetInv(j)'
    BY <1>1, <2>1, RowFacts DEF IInv, NetInv, OnceInv, OnItsWay, network, history
  <2>. QED BY <2>2, <2>3
<1>. QED BY <1>2, <1>3 DEF IInv

LEMMA DeleteInv ==
    ASSUME IInv, NEW i \in Indexes, Delete(i)
    PROVE  IInv'
<1>1. /\ row[i].buttons \in {"delete", "retry"} /\ HasRow(i)
      /\ files' = files \ {i} /\ row' = [row EXCEPT ![i] = NoRow] /\ removed' = removed \cup {i}
      /\ picked' = {}
      /\ UNCHANGED <<name, chooseFiles, reading, network, tries, acked, again>>
  BY RowFacts DEF Delete, HasRow
<1>2. TypeOK'
  BY <1>1, RowFacts DEF IInv, TypeOK, network
<1>3. ASSUME NEW j \in Indexes PROVE PageInv(j)' /\ NetInv(j)'
  <2>1. (j # i /\ row'[j] = row[j]) \/ (j = i /\ row'[j] = NoRow)
    BY <1>1 DEF IInv, TypeOK
  <2>2. PageInv(j)'
    BY <1>1, <2>1, RowFacts DEF IInv, PageInv, HasRow, Chosen, OnItsWay, network
  <2>3. NetInv(j)'
    BY <1>1, <2>1, RowFacts DEF IInv, NetInv, OnceInv, OnItsWay, network
  <2>. QED BY <2>2, <2>3
<1>. QED BY <1>2, <1>3 DEF IInv

\* The server: a store makes the answer "ok", or is marked as unanswered.
LEMMA ServeInv ==
    ASSUME IInv, NEW i \in Indexes, NEW a \in Answer, NEW copies \in {0, 1}, Serve(i, a, copies),
           faults' \in Nat,
           \/ unanswered' = unanswered /\ (copies = 1 <=> a = "ok")
           \/ unanswered' = unanswered \cup {i} /\ a # "ok"
    PROVE  IInv'
<1>1. /\ sending[i] > 0
      /\ sending' = [sending EXCEPT ![i] = @ - 1]
      /\ answers' = [answers EXCEPT ![i][a] = @ + 1]
      /\ stored' = [stored EXCEPT ![i] = @ + copies]
      /\ UNCHANGED <<name, picked, chooseFiles, files, reading, row, tries, removed, acked, again>>
  BY DEF Serve, page, history
<1>2. TypeOK'
  BY <1>1 DEF IInv, TypeOK
<1>3. ASSUME NEW j \in Indexes PROVE PageInv(j)' /\ NetInv(j)'
  <2>1. PageInv(j)'
    <3>1. OnItsWay(j)' => OnItsWay(j)
      BY <1>1 DEF IInv, TypeOK, OnItsWay
    <3>. QED BY <1>1, <3>1 DEF IInv, PageInv, HasRow, Chosen
  <2>2. CASE j # i
    <3>1. sending'[j] = sending[j] /\ answers'[j] = answers[j] /\ stored'[j] = stored[j]
          /\ (j \in unanswered' <=> j \in unanswered)
      BY <1>1, <2>2 DEF IInv, TypeOK
    <3>. QED BY <1>1, <2>1, <3>1 DEF IInv, NetInv, OnceInv, OnItsWay
  <2>3. CASE j = i
    <3>1. /\ sending'[i] = sending[i] - 1 /\ stored'[i] = stored[i] + copies
          /\ answers'[i][a] = answers[i][a] + 1
          /\ \A b \in Answer \ {a} : answers'[i][b] = answers[i][b]
          /\ sending[i] \in Nat /\ stored[i] \in Nat /\ answers[i] \in [Answer -> Nat]
          /\ "ok" \in Answer
      BY <1>1 DEF IInv, TypeOK, Answer
    <3>2. answers'[i]["ok"] > 0 => stored'[i] > 0
      BY <3>1 DEF IInv, NetInv
    <3>3. ASSUME i \notin again' \cup unanswered' PROVE OnceInv(i)'
      <4>1. OnceInv(i) /\ (copies = 1 <=> a = "ok")
        BY <1>1, <3>3 DEF IInv, NetInv
      <4>2. sending[i] = 1 /\ stored[i] = 0 /\ \A b \in Answer : answers[i][b] = 0
        BY <1>1, <3>1, <4>1 DEF OnceInv
      <4>3. i \notin acked
        BY <1>1, <4>1 DEF OnceInv, OnItsWay
      <4>. QED BY <1>1, <3>1, <4>1, <4>2, <4>3 DEF OnceInv
    <3>. QED BY <1>1, <2>1, <2>3, <3>1, <3>2, <3>3 DEF IInv, NetInv
  <2>. QED BY <2>1, <2>2, <2>3
<1>. QED BY <1>2, <1>3 DEF IInv

LEMMA MarkFacts ==
    ASSUME TypeOK, NEW i \in Indexes, NEW r \in Row, row' = Mark(r, i)
    PROVE  /\ row' \in [Indexes -> Row]
           /\ \A j \in Indexes : row'[j] = row[j] \/ (j = i /\ HasRow(i) /\ row'[j] = r)
           /\ HasRow(i) => row'[i] = r
  BY DEF Mark, TypeOK

LEMMA AnsweredFacts ==
    ASSUME TypeOK, NEW i \in Indexes, NEW a \in Answer, Answered(i, a)
    PROVE  /\ answers' \in [Indexes -> [Answer -> Nat]]
           /\ answers[i][a] > 0 /\ answers'[i][a] = answers[i][a] - 1
           /\ \A j \in Indexes, b \in Answer : answers'[j][b] <= answers[j][b]
           /\ \A j \in Indexes, b \in Answer : j # i \/ b # a => answers'[j][b] = answers[j][b]
           /\ \A j \in Indexes, b \in Answer : answers[j][b] \in Nat /\ answers'[j][b] \in Nat
           /\ UNCHANGED <<sending, stored, faults, unanswered, tries, removed, again>>
<1>1. /\ answers[i][a] > 0 /\ answers' = [answers EXCEPT ![i][a] = @ - 1]
      /\ UNCHANGED <<sending, stored, faults, unanswered, tries, removed, again>>
  BY DEF Answered
<1>. QED BY <1>1 DEF TypeOK

\* Success: the queue lets the file go, the row gets the link.
LEMMA DoneInv ==
    ASSUME IInv, NEW i \in Indexes, Done(i)
    PROVE  IInv'
<1>. DEFINE link == [text |-> "uploaded", buttons |-> "link"]
<1>1. /\ Answered(i, "ok") /\ row' = Mark(link, i)
      /\ files' = files \ {i} /\ picked' = {} /\ acked' = acked \cup {i}
      /\ UNCHANGED <<name, chooseFiles, reading>>
  BY DEF Done
<1>2. link \in Row /\ link # NoRow /\ link.text = "uploaded" /\ link.buttons = "link" /\ "ok" \in Answer
  BY DEF Row, NoRow, Answer
<1>. HIDE DEF link
<1>3. TypeOK
  BY DEF IInv
<1>4. /\ row' \in [Indexes -> Row]
      /\ \A j \in Indexes : row'[j] = row[j] \/ (j = i /\ HasRow(i) /\ row'[j] = link)
      /\ HasRow(i) => row'[i] = link
  BY <1>1, <1>2, <1>3, MarkFacts
<1>5. /\ answers' \in [Indexes -> [Answer -> Nat]]
      /\ answers[i]["ok"] > 0 /\ answers'[i]["ok"] = answers[i]["ok"] - 1
      /\ \A j \in Indexes, b \in Answer : answers'[j][b] <= answers[j][b]
      /\ \A j \in Indexes, b \in Answer : j # i \/ b # "ok" => answers'[j][b] = answers[j][b]
      /\ \A j \in Indexes, b \in Answer : answers[j][b] \in Nat /\ answers'[j][b] \in Nat
      /\ UNCHANGED <<sending, stored, faults, unanswered, tries, removed, again>>
  BY <1>1, <1>2, <1>3, AnsweredFacts
<1>6. TypeOK'
  BY <1>1, <1>3, <1>4, <1>5 DEF TypeOK
<1>7. ASSUME NEW j \in Indexes PROVE PageInv(j)' /\ NetInv(j)'
  <2>1. PageInv(j)
    BY DEF IInv
  <2>2. PageInv(j)'
    <3>1. OnItsWay(j)' => OnItsWay(j)
      BY <1>5 DEF OnItsWay
    <3>2. OnItsWay(i)
      BY <1>2, <1>5 DEF OnItsWay
    <3>3. j \in Chosen' <=> j \in Chosen
      BY <1>1 DEF Chosen
    <3>4. HasRow(j)' => HasRow(j) /\ (row'[j] = row[j] \/ j = i)
      BY <1>4 DEF HasRow
    <3>. QED BY <1>1, <1>5, <2>1, <3>1, <3>2, <3>3, <3>4, RowFacts DEF PageInv, HasRow
  <2>3. CASE j # i
    <3>1. row'[j] = row[j] /\ answers'[j]["ok"] = answers[j]["ok"]
          /\ \A b \in Answer : answers'[j][b] = answers[j][b]
      BY <1>2, <1>4, <1>5, <2>3
    <3>2. NetInv(j)'
      BY <1>1, <1>5, <2>3, <3>1 DEF IInv, NetInv, OnceInv, OnItsWay
    <3>. QED BY <2>2, <3>2
  <2>4. CASE j = i
    <3>1. stored'[i] > 0 /\ stored' = stored
      BY <1>5 DEF IInv, NetInv
    <3>2. ASSUME i \notin again' \cup unanswered' PROVE OnceInv(i)'
      <4>1. OnceInv(i)
        BY <1>5, <3>2 DEF IInv, NetInv
      <4>2. sending[i] = 0 /\ \A b \in Answer : answers'[i][b] = 0
        BY <1>2, <1>3, <1>5, <4>1 DEF OnceInv, TypeOK
      <4>3. row'[i].buttons # "retry"
        BY <1>2, <1>4, RowFacts DEF HasRow
      <4>. QED BY <1>1, <1>5, <3>1, <4>1, <4>2, <4>3 DEF OnceInv, OnItsWay
    <3>. QED BY <1>2, <2>2, <2>4, <3>1, <3>2 DEF NetInv
  <2>. QED BY <2>3, <2>4
<1>. QED BY <1>6, <1>7 DEF IInv

\* A failure, told by the server or by the browser: the row keeps its link.
LEMMA FailedInv ==
    ASSUME IInv, NEW i \in Indexes, Refused(i) \/ Error(i)
    PROVE  IInv'
<1>. DEFINE failed == FailedRow(i)
<1>1. /\ row' = Mark(failed, i)
      /\ picked' \in {picked, {}}
      /\ UNCHANGED <<name, chooseFiles, files, reading, acked>>
  BY DEF Refused, Error
<1>2. PICK a \in Answer \ {"ok"} : Answered(i, a)
  BY DEF Refused, Error, Answer
<1>3. /\ failed \in Row /\ failed # NoRow /\ failed.text = "failed"
      /\ failed.buttons \in {"link", "retry"} /\ (failed.buttons = "link" <=> row[i].buttons = "link")
      /\ "ok" \in Answer
  BY DEF FailedRow, Row, NoRow, Answer
<1>. HIDE DEF failed
<1>4. TypeOK
  BY DEF IInv
<1>5. /\ row' \in [Indexes -> Row]
      /\ \A j \in Indexes : row'[j] = row[j] \/ (j = i /\ HasRow(i) /\ row'[j] = failed)
  BY <1>1, <1>3, <1>4, MarkFacts
<1>6. /\ answers' \in [Indexes -> [Answer -> Nat]]
      /\ answers[i][a] > 0
      /\ \A j \in Indexes, b \in Answer : answers'[j][b] <= answers[j][b]
      /\ \A j \in Indexes, b \in Answer : j # i \/ b # a => answers'[j][b] = answers[j][b]
      /\ \A j \in Indexes, b \in Answer : answers[j][b] \in Nat /\ answers'[j][b] \in Nat
      /\ UNCHANGED <<sending, stored, faults, unanswered, tries, removed, again>>
  BY <1>2, <1>4, AnsweredFacts
<1>7. TypeOK'
  BY <1>1, <1>4, <1>5, <1>6 DEF TypeOK
<1>8. ASSUME NEW j \in Indexes PROVE PageInv(j)' /\ NetInv(j)'
  <2>1. PageInv(j) /\ NetInv(j)
    BY DEF IInv
  <2>2. PageInv(j)'
    <3>1. OnItsWay(j)' => OnItsWay(j)
      BY <1>6 DEF OnItsWay
    <3>. QED BY <1>1, <1>3, <1>5, <1>6, <2>1, <3>1 DEF PageInv, HasRow, Chosen
  <2>3. answers'[j]["ok"] = answers[j]["ok"]
    BY <1>2, <1>3, <1>6
  <2>4. j \in acked' \/ row'[j].text = "uploaded" \/ row'[j].buttons = "link" => stored'[j] > 0
    BY <1>1, <1>3, <1>5, <1>6, <2>1 DEF NetInv
  <2>5. ASSUME j \notin again' \cup unanswered' PROVE OnceInv(j)'
    <3>1. OnceInv(j)
      BY <1>6, <2>1, <2>5 DEF NetInv
    <3>2. sending' = sending /\ stored' = stored /\ acked' = acked
      BY <1>1, <1>6
    <3>3. j \in acked => j # i
      BY <1>2, <1>6, <3>1 DEF OnceInv, OnItsWay
    <3>4. j \in acked => ~OnItsWay(j)' /\ row'[j].buttons # "retry"
      BY <1>5, <1>6, <3>1, <3>2, <3>3 DEF OnceInv, OnItsWay
    <3>. QED BY <1>4, <1>6, <2>3, <3>1, <3>2, <3>4 DEF OnceInv
  <2>. QED BY <1>6, <2>1, <2>2, <2>3, <2>4, <2>5 DEF NetInv
<1>. QED BY <1>7, <1>8 DEF IInv

LEMMA ServerInv ==
    ASSUME IInv, NEW i \in Indexes, Store(i) \/ Refuse(i) \/ Fail(i) \/ StoreUnanswered(i)
    PROVE  IInv'
<1>1. faults \in Nat
  BY DEF IInv, TypeOK
<1>2. CASE Store(i)
  <2>1. Serve(i, "ok", 1) /\ faults' \in Nat /\ unanswered' = unanswered /\ "ok" \in Answer
    BY <1>1, <1>2 DEF Store, Answer
  <2>. QED BY <2>1, ServeInv
<1>3. CASE Refuse(i)
  <2>1. Serve(i, "refused", 0) /\ faults' \in Nat /\ unanswered' = unanswered /\ "refused" \in Answer
    BY <1>1, <1>3 DEF Refuse, Faulty, Answer
  <2>. QED BY <2>1, ServeInv
<1>4. CASE Fail(i)
  <2>1. Serve(i, "error", 0) /\ faults' \in Nat /\ unanswered' = unanswered /\ "error" \in Answer
    BY <1>1, <1>4 DEF Fail, Faulty, Answer
  <2>. QED BY <2>1, ServeInv
<1>5. CASE StoreUnanswered(i)
  <2>1. /\ Serve(i, "error", 1) /\ faults' \in Nat
        /\ unanswered' = unanswered \cup {i} /\ "error" \in Answer
    BY <1>1, <1>5 DEF StoreUnanswered, Faulty, Answer
  <2>. QED BY <2>1, ServeInv
<1>. QED BY <1>2, <1>3, <1>4, <1>5

\* What the user does: a choice or a drop, the start button, the buttons of a row.
LEMMA ChoiceInv ==
    ASSUME IInv, NEW f \in Choices, Choose(f) \/ Drop(f)
    PROVE  IInv'
<1>1. Incoming(f)
  BY DEF Choose, Drop
<1>2. picked' \subseteq Names
  BY DEF Choose, Drop, Choices, IInv, TypeOK
<1>. QED BY <1>1, <1>2, IncomingInv

LEMMA StartInv ==
    ASSUME IInv, Start \/ \E i \in Indexes : Retry(i)
    PROVE  IInv'
<1>1. CASE Start
  <2>1. Send(files) /\ UNCHANGED page /\ files \in SUBSET Indexes
    BY <1>1 DEF Start, IInv, TypeOK
  <2>. QED BY <2>1, SendInv
<1>2. ASSUME NEW i \in Indexes, Retry(i) PROVE IInv'
  <2>1. Send({i}) /\ UNCHANGED page /\ row[i].buttons = "retry" /\ {i} \in SUBSET Indexes
    BY <1>2 DEF Retry
  <2>2. \A j \in {i} : j \in files \/ row[j].buttons = "retry"
    BY <2>1
  <2>. QED BY <2>1, <2>2, SendInv
<1>. QED BY <1>1, <1>2

LEMMA StutterInv == IInv /\ UNCHANGED vars => IInv'
<1>. SUFFICES ASSUME IInv, UNCHANGED vars PROVE IInv'
  OBVIOUS
<1>1. TypeOK'
  BY DEF IInv, TypeOK, vars
<1>2. ASSUME NEW i \in Indexes PROVE PageInv(i)' /\ NetInv(i)'
  BY DEF IInv, PageInv, NetInv, OnceInv, OnItsWay, HasRow, Chosen, vars
<1>. QED BY <1>1, <1>2 DEF IInv

LEMMA InitInv == Init => IInv
<1>. SUFFICES ASSUME Init PROVE IInv
  OBVIOUS
<1>1. TypeOK
  BY RowFacts DEF Init, TypeOK
<1>2. ASSUME NEW i \in Indexes PROVE PageInv(i) /\ NetInv(i)
  <2>1. /\ i \notin files \cup reading \cup removed \cup acked
        /\ ~HasRow(i) /\ ~OnItsWay(i) /\ i \notin Chosen
        /\ row[i] = NoRow
    BY DEF Init, HasRow, OnItsWay, Chosen
  <2>2. "ok" \in Answer
    BY DEF Answer
  <2>. QED BY <2>1, <2>2, RowFacts DEF Init, PageInv, NetInv, OnceInv
<1>. QED BY <1>1, <1>2 DEF IInv

\* The inductive invariant.
THEOREM Invariance == Spec => []IInv
<1>1. IInv /\ [Next]_vars => IInv'
  <2>. SUFFICES ASSUME IInv, [Next]_vars PROVE IInv'
    OBVIOUS
  <2>1. CASE UNCHANGED vars
    BY <2>1, StutterInv
  <2>2. CASE Next
    <3>1. CASE \E f \in Choices : Choose(f) \/ Drop(f)
      BY <3>1, ChoiceInv
    <3>2. CASE Start \/ \E i \in Indexes : Retry(i)
      BY <3>2, StartInv
    <3>3. CASE \E i \in Indexes : Delete(i)
      BY <3>3, DeleteInv
    <3>4. CASE \E i \in Indexes : Preview(i) \/ PreviewFails(i)
      BY <3>4, PreviewInv
    <3>5. CASE \E i \in Indexes : Store(i) \/ Refuse(i) \/ Fail(i) \/ StoreUnanswered(i)
      BY <3>5, ServerInv
    <3>6. CASE \E i \in Indexes : Done(i)
      BY <3>6, DoneInv
    <3>7. CASE \E i \in Indexes : Refused(i) \/ Error(i)
      BY <3>7, FailedInv
    <3>. QED BY <2>2, <3>1, <3>2, <3>3, <3>4, <3>5, <3>6, <3>7, NextCases
  <2>. QED BY <2>1, <2>2
<1>. QED BY InitInv, <1>1, PTL DEF Spec

-----------------------------------------------------------------------------

\* The page's and the network's variables keep their types.
THEOREM TypeCorrect == Spec => []TypeOK
<1>1. IInv => TypeOK
  BY DEF IInv
<1>. QED BY Invariance, <1>1, PTL

\* pushFile, the delete button and done between them lose no file: for any
\* number of files, choices and tries.
THEOREM NoFileForgotten == Spec => []NothingForgotten
<1>1. IInv => NothingForgotten
  BY DEF IInv, PageInv, NothingForgotten, Chosen
<1>. QED BY Invariance, <1>1, PTL

\* done and error are called with the index of the request they answer: what the
\* page shows as uploaded is stored, and only once unless it was sent again while
\* on its way or an answer was lost.
THEOREM PageTellsTheTruth == Spec => []StoredAsTold
<1>1. IInv => UploadedIsStored
  BY DEF IInv, NetInv, UploadedIsStored
<1>2. IInv => StoredTwiceOnlyIf
  <2>. SUFFICES ASSUME IInv, NEW i \in Indexes, stored[i] > 1, i \notin again \cup unanswered
                PROVE  FALSE
    BY DEF StoredTwiceOnlyIf
  <2>1. OnceInv(i) /\ stored[i] \in Nat
    BY DEF IInv, NetInv, TypeOK
  <2>. QED BY <2>1 DEF OnceInv
<1>3. IInv => StoredAsTold
  BY <1>1, <1>2 DEF StoredAsTold
<1>. QED BY Invariance, <1>3, PTL

\* Start and the retry button send no file that was removed or is uploaded.
THEOREM OnlyOpenFilesSent == Spec => SendsOnlyOpen
<1>. DEFINE Sent(i) == tries'[i] > tries[i] => i \notin removed /\ row[i].buttons # "link"
<1>1. IInv /\ [Next]_vars => [\A i \in Indexes : Sent(i)]_vars
  <2>. SUFFICES ASSUME IInv, Next, NEW i \in Indexes, tries'[i] > tries[i]
                PROVE  i \notin removed /\ row[i].buttons # "link"
    BY DEF Sent
  <2>1. tries[i] \in Nat /\ PageInv(i)
    BY DEF IInv, TypeOK
  <2>2. i \in files \/ row[i].buttons = "retry"
    <3>1. CASE tries' = tries
      BY <2>1, <3>1
    <3>2. CASE Start
      BY <2>1, <3>2 DEF Start, Send
    <3>3. CASE \E j \in Indexes : Retry(j)
      BY <2>1, <3>3 DEF Retry, Send
    <3>. QED BY <3>1, <3>2, <3>3, NextCases
             DEF Choose, Drop, Incoming, Delete, Preview, PreviewFails, Store, Refuse, Fail,
                 StoreUnanswered, Serve, Done, Refused, Error, Answered, history
  <2>3. row[i].buttons = "retry" => HasRow(i)
    BY RowFacts DEF HasRow
  <2>. QED BY <2>1, <2>2, <2>3 DEF PageInv
<1>. QED BY Invariance, <1>1, PTL DEF Spec, SendsOnlyOpen

\* No answer is used up without a word: a row that waits while its file is on its way
\* waits on only as long as the file is, whatever is chosen, sent or deleted
\* meanwhile. (A row appended after the answer is the one that waits for ever.)
THEOREM LastAnswerMarks ==
    Spec => [][\A i \in Indexes :
                 row[i].text = "waiting" /\ OnItsWay(i) =>
                     row'[i].text # "waiting" \/ OnItsWay(i)']_vars
<1>. DEFINE Marks(i) == row[i].text = "waiting" /\ OnItsWay(i) =>
                            row'[i].text # "waiting" \/ OnItsWay(i)'
<1>1. IInv /\ [Next]_vars => [\A i \in Indexes : Marks(i)]_vars
  <2>. SUFFICES ASSUME IInv, Next, NEW i \in Indexes, row[i].text = "waiting", OnItsWay(i)
                PROVE  row'[i].text # "waiting" \/ OnItsWay(i)'
    BY DEF Marks
  <2>1. TypeOK /\ HasRow(i) /\ "ok" \in Answer /\ "refused" \in Answer /\ "error" \in Answer
    BY RowFacts DEF IInv, HasRow, Answer
  <2>2. CASE sending' = sending /\ answers' = answers
    BY <2>2 DEF OnItsWay
  <2>3. ASSUME NEW set, Send(set) PROVE OnItsWay(i)'
    <3>1. sending'[i] >= sending[i] /\ answers' = answers /\ sending[i] \in Nat /\ sending'[i] \in Nat
      BY <2>1, <2>3 DEF Send, TypeOK
    <3>. QED BY <3>1 DEF OnItsWay
  <2>4. ASSUME NEW j \in Indexes, NEW a \in Answer, NEW k \in {0, 1}, Serve(j, a, k)
        PROVE  OnItsWay(i)'
    <3>1. /\ i # j => sending'[i] = sending[i] /\ answers'[i] = answers[i]
          /\ i = j => answers'[i][a] = answers[i][a] + 1 /\ answers[i][a] \in Nat
      BY <2>1, <2>4 DEF Serve, TypeOK
    <3>. QED BY <3>1 DEF OnItsWay
  <2>5. ASSUME NEW j \in Indexes, Done(j) \/ Refused(j) \/ Error(j)
        PROVE  row'[i].text # "waiting" \/ OnItsWay(i)'
    <3>1. PICK a \in Answer : Answered(j, a)
      BY <2>1, <2>5 DEF Done, Refused, Error
    <3>2. CASE i # j
      BY <2>1, <3>1, <3>2, AnsweredFacts DEF OnItsWay
    <3>3. CASE i = j
      <4>1. PICK r \in Row : r.text # "waiting" /\ row' = Mark(r, i)
        <5>1. FailedRow(i) \in Row /\ FailedRow(i).text = "failed"
          BY DEF FailedRow, Row
        <5>2. [text |-> "uploaded", buttons |-> "link"] \in Row
          BY DEF Row
        <5>. QED BY <2>5, <3>3, <5>1, <5>2 DEF Done, Refused, Error
      <4>. QED BY <2>1, <4>1, MarkFacts
    <3>. QED BY <3>2, <3>3
  <2>6. CASE \/ \E f \in Choices : Choose(f) \/ Drop(f)
             \/ \E j \in Indexes : Delete(j) \/ Preview(j) \/ PreviewFails(j)
    BY <2>2, <2>6 DEF Choose, Drop, Incoming, Delete, Preview, PreviewFails, network
  <2>7. CASE Start \/ \E j \in Indexes : Retry(j)
    BY <2>3, <2>7 DEF Start, Retry
  <2>8. CASE \E j \in Indexes : Store(j) \/ Refuse(j) \/ Fail(j) \/ StoreUnanswered(j)
    BY <2>1, <2>4, <2>8 DEF Store, Refuse, Fail, StoreUnanswered
  <2>. QED BY <2>5, <2>6, <2>7, <2>8, NextCases
<1>. QED BY Invariance, <1>1, PTL DEF Spec
=============================================================================

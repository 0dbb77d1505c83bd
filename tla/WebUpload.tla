----------------------------- MODULE WebUpload -----------------------------
(***************************************************************************)
(* The upload page of the web console: js/upload.js on layui's upload      *)
(* component (plugins/layui/lay/modules/upload.js), rendered with auto off,*)
(* multiple on, no limit of type, number or size, and no allDone. Progress *)
(* bars are left out. Names of files have a dot.                           *)
(*                                                                         *)
(* One browser thread runs the handlers, each of which is one action; what *)
(* goes on beside it are FileReaders, requests and the server, which is    *)
(* not in the repository. A file chosen gets an index, the key under which *)
(* the page keeps it and finds its row (tr#upload-index).                  *)
(***************************************************************************)
EXTENDS Naturals, FiniteSets

CONSTANTS
    Indexes,    \* indexes handed out, "<time>-<i>" in the code
    Names,      \* names of local files
    NoName,
    MaxTries,   \* bounds of the model: uploads of one index,
    MaxFaults   \* requests that are refused or fail

ASSUME WebUploadAssumption ==
    /\ NoName \notin Names
    /\ MaxTries \in Nat /\ MaxFaults \in Nat

VARIABLES
    name,       \* name[i]: name of the file with index i, NoName before its choice
    picked,     \* names in the file input (r.files, r.value)
    chooseFiles,\* indexes of the last choice
    files,      \* o.files and this.files, one object: the queue
    reading,    \* indexes with a FileReader at work
    row,        \* row[i]: text of the third cell, buttons of the fifth
    sending,    \* sending[i]: requests for i the server has not finished
    answers,    \* answers[i][a]: answers a on their way to the page
    stored,     \* stored[i]: how often the server stored the file
    faults,
    \* history
    tries,      \* tries[i]: uploads of i so far
    removed,    \* indexes whose row the user removed
    acked,      \* indexes of which the page was told a success
    again,      \* indexes sent while a request for them was on its way
    unanswered  \* indexes stored by a request whose answer was lost

vars == <<name, picked, chooseFiles, files, reading, row, sending, answers, stored,
          faults, tries, removed, acked, again, unanswered>>
page == <<name, picked, chooseFiles, files, reading, row>>
network == <<sending, answers, stored, faults, unanswered>>
history == <<tries, removed, acked, again>>

Answer == {"ok", "refused", "error"}
NoRow == [text |-> "none", buttons |-> "none"]
NewRow == [text |-> "waiting", buttons |-> "delete"]
Row == [text : {"none", "waiting", "failed", "uploaded"},
        buttons : {"none", "delete", "retry", "link"}]

Chosen == {i \in Indexes : name[i] # NoName}
HasRow(i) == row[i] # NoRow
OnItsWay(i) == sending[i] > 0 \/ \E a \in Answer : answers[i][a] > 0

Init ==
    /\ name = [i \in Indexes |-> NoName]
    /\ picked = {}
    /\ chooseFiles = {} /\ files = {} /\ reading = {}
    /\ row = [i \in Indexes |-> NoRow]
    /\ sending = [i \in Indexes |-> 0]
    /\ answers = [i \in Indexes |-> [a \in Answer |-> 0]]
    /\ stored = [i \in Indexes |-> 0]
    /\ faults = 0
    /\ tries = [i \in Indexes |-> 0]
    /\ removed = {} /\ acked = {} /\ again = {} /\ unanswered = {}

-----------------------------------------------------------------------------
(* Choosing.  The change and drop handlers give the files new indexes, and *)
(* upload(null, "choose") calls choose of js/upload.js: pushFile adds them *)
(* to the queue, preview starts a FileReader for each.                     *)

\* Mutated: the queue becomes the last choice.
PushFileOver(new) ==
    /\ chooseFiles' = new
    /\ files' = new
    /\ reading' = reading \cup new

PushFile(new) ==
    /\ chooseFiles' = new
    /\ files' = files \cup new
    /\ reading' = reading \cup new

\* Files f come in, a function from new indexes to names.
Incoming(f) ==
    /\ \A i \in DOMAIN f : i \notin Chosen
    /\ name' = [i \in Indexes |-> IF i \in DOMAIN f THEN f[i] ELSE name[i]]
    /\ PushFile(DOMAIN f)
    /\ UNCHANGED <<row, network, history>>

\* The file dialog; a cancelled one empties the input. The browser reports a
\* change, so nothing happens when the same files are chosen again.
Choose(f) ==
    /\ picked' = {f[i] : i \in DOMAIN f}
    /\ picked' # picked
    /\ Cardinality(picked') = Cardinality(DOMAIN f)
    /\ Incoming(f)

\* Files, or something else, dropped on the button: the input stays.
Drop(f) ==
    /\ Incoming(f)
    /\ UNCHANGED picked

\* The FileReader is done: preview's callback appends the row.
Preview(i) ==
    /\ i \in reading
    /\ reading' = reading \ {i}
    /\ row' = [row EXCEPT ![i] = NewRow]
    /\ UNCHANGED <<name, picked, chooseFiles, files, network, history>>

\* It cannot read the file: onload never comes, there will be no row.
PreviewFails(i) ==
    /\ i \in reading
    /\ reading' = reading \ {i}
    /\ UNCHANGED <<name, picked, chooseFiles, files, row, network, history>>

-----------------------------------------------------------------------------
(* Uploading: upload() after its checks, before of js/upload.js (the form  *)
(* is read and sent at once), one request for each file of set.            *)

Send(set) ==
    /\ \A i \in set : tries[i] < MaxTries
    /\ sending' = [i \in Indexes |-> IF i \in set THEN sending[i] + 1 ELSE sending[i]]
    /\ tries' = [i \in Indexes |-> IF i \in set THEN tries[i] + 1 ELSE tries[i]]
    /\ again' = again \cup {i \in set : OnItsWay(i)}
    /\ UNCHANGED <<answers, stored, faults, unanswered, removed, acked>>

\* The start button (bindAction): all of the queue, also what is on its way. It
\* does nothing when the last choice was empty, and so is the input.
Start ==
    /\ chooseFiles # {} \/ picked # {}
    /\ Send(files)
    /\ UNCHANGED page

\* The button of a failed row.
Retry(i) ==
    /\ row[i].buttons = "retry"
    /\ Send({i})
    /\ UNCHANGED page

\* Mutated: the file stays in the queue.
DeleteRowOnly(i) ==
    /\ row[i].buttons \in {"delete", "retry"}
    /\ row' = [row EXCEPT ![i] = NoRow]
    /\ picked' = {}
    /\ removed' = removed \cup {i}
    /\ UNCHANGED <<name, chooseFiles, files, reading, network, tries, acked, again>>

\* The delete button. Requests on their way go on.
Delete(i) ==
    /\ row[i].buttons \in {"delete", "retry"}
    /\ files' = files \ {i}
    /\ row' = [row EXCEPT ![i] = NoRow]
    /\ picked' = {}
    /\ removed' = removed \cup {i}
    /\ UNCHANGED <<name, chooseFiles, reading, network, tries, acked, again>>

-----------------------------------------------------------------------------
(* The server and the network.                                             *)

Serve(i, a, copies) ==
    /\ sending[i] > 0
    /\ sending' = [sending EXCEPT ![i] = @ - 1]
    /\ answers' = [answers EXCEPT ![i][a] = @ + 1]
    /\ stored' = [stored EXCEPT ![i] = @ + copies]
    /\ UNCHANGED <<page, history>>

Store(i) == Serve(i, "ok", 1) /\ UNCHANGED <<faults, unanswered>>

Faulty == faults < MaxFaults /\ faults' = faults + 1

\* state is not 200; the request does not arrive; its answer does not.
Refuse(i) == Faulty /\ Serve(i, "refused", 0) /\ UNCHANGED unanswered
Fail(i) == Faulty /\ Serve(i, "error", 0) /\ UNCHANGED unanswered
StoreUnanswered(i) ==
    /\ Faulty /\ Serve(i, "error", 1)
    /\ unanswered' = unanswered \cup {i}

-----------------------------------------------------------------------------
(* Answers: success of $.ajax calls done, error calls error.               *)

Answered(i, a) ==
    /\ answers[i][a] > 0
    /\ answers' = [answers EXCEPT ![i][a] = @ - 1]
    /\ UNCHANGED <<sending, stored, faults, unanswered, tries, removed, again>>

\* A row that is not there is not marked: jQuery's empty set.
Mark(r, i) == IF HasRow(i) THEN [row EXCEPT ![i] = r] ELSE row

\* done with state 200: the buttons give way to the link.
Done(i) ==
    /\ Answered(i, "ok")
    /\ row' = Mark([text |-> "uploaded", buttons |-> "link"], i)
    /\ files' = files \ {i}
    /\ picked' = {}
    /\ acked' = acked \cup {i}
    /\ UNCHANGED <<name, chooseFiles, reading>>

\* The retry button is shown if the cell still has it.
FailedRow(i) ==
    [text |-> "failed",
     buttons |-> IF row[i].buttons = "link" THEN "link" ELSE "retry"]

\* Mutated: any JSON is taken for success.
RefusedIsDone(i) ==
    /\ Answered(i, "refused")
    /\ row' = Mark([text |-> "uploaded", buttons |-> "link"], i)
    /\ files' = files \ {i}
    /\ picked' = {}
    /\ acked' = acked \cup {i}
    /\ UNCHANGED <<name, chooseFiles, reading>>

\* done with another state.
Refused(i) ==
    /\ Answered(i, "refused")
    /\ row' = Mark(FailedRow(i), i)
    /\ picked' = {}
    /\ UNCHANGED <<name, chooseFiles, files, reading, acked>>

\* Mutated: nothing is marked.
ErrorSilent(i) ==
    /\ Answered(i, "error")
    /\ UNCHANGED <<page, acked>>

\* error: the input is left alone (auto is off).
Error(i) ==
    /\ Answered(i, "error")
    /\ row' = Mark(FailedRow(i), i)
    /\ UNCHANGED <<name, picked, chooseFiles, files, reading, acked>>

-----------------------------------------------------------------------------

\* Choices of at most two files at a time.
Choices == UNION {[I -> Names] : I \in {J \in SUBSET Indexes : Cardinality(J) <= 2}}

User ==
    \/ \E f \in Choices : Choose(f) \/ Drop(f)
    \/ Start
    \/ \E i \in Indexes : Retry(i) \/ Delete(i)

Reader(i) == Preview(i) \/ PreviewFails(i)
Server(i) == Store(i) \/ Refuse(i) \/ Fail(i) \/ StoreUnanswered(i)
Handler(i) == Done(i) \/ Refused(i) \/ Error(i)

Next ==
    \/ User
    \/ \E i \in Indexes : Reader(i) \/ Server(i) \/ Handler(i)

Spec == Init /\ [][Next]_vars

\* A request ends, by an answer or an error, and the browser calls its handler.
FairSpec == Spec /\ \A i \in Indexes : WF_vars(Server(i)) /\ WF_vars(Handler(i))

-----------------------------------------------------------------------------

TypeOK ==
    /\ name \in [Indexes -> Names \cup {NoName}]
    /\ picked \subseteq Names
    /\ chooseFiles \subseteq Indexes /\ files \subseteq Indexes
    /\ reading \subseteq Indexes
    /\ row \in [Indexes -> Row]
    /\ sending \in [Indexes -> Nat]
    /\ answers \in [Indexes -> [Answer -> Nat]]
    /\ stored \in [Indexes -> Nat]
    /\ faults \in Nat
    /\ tries \in [Indexes -> Nat]
    /\ removed \subseteq Indexes /\ acked \subseteq Indexes
    /\ again \subseteq Indexes /\ unanswered \subseteq Indexes

\* Whatever order choices, previews, starts and answers take, a chosen file is
\* in the queue until the user removed it or the page was told it is uploaded.
NothingForgotten == \A i \in Chosen : i \in files \cup removed \cup acked

\* What the page calls uploaded is on the server: an answer is booked on the
\* file and the row it belongs to.
UploadedIsStored ==
    \A i \in Indexes :
        i \in acked \/ row[i].text = "uploaded" \/ row[i].buttons = "link" => stored[i] > 0

\* A file is stored twice only if it was sent again while on its way (start,
\* pressed twice, sends the whole queue again), or the answer of a store was lost.
StoredTwiceOnlyIf == \A i \in Indexes : stored[i] > 1 => i \in again \cup unanswered

\* Together: what the page says of a file is what the server did with it.
StoredAsTold == UploadedIsStored /\ StoredTwiceOnlyIf

\* Nothing is sent of a file whose row the user removed or whose row has the link.
SendsOnlyOpen ==
    [][\A i \in Indexes :
         tries'[i] > tries[i] => i \notin removed /\ row[i].buttons # "link"]_vars

\* A row that waits while its file is on its way is marked or removed in the end.
UploadMarked ==
    \A i \in Indexes : row[i].text = "waiting" /\ OnItsWay(i) ~> row[i].text # "waiting"
=============================================================================

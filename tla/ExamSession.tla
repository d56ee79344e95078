---------------------------- MODULE ExamSession ----------------------------
(***************************************************************************)
(* One exam from the first page to the end: its row in exam, and the       *)
(* requests that browsers make of it by its code.                          *)
(*                                                                         *)
(* updateByCode opens and turns pages, create and finish of userAnswer end *)
(* the exam, exam/access restores a session and the registration form      *)
(* edits the row.  Most of them read the row and save it whole some calls  *)
(* later; claimEnd, setCompletedCategories and setCategoryStart are single *)
(* UPDATE statements.                                                      *)
(***************************************************************************)
EXTENDS Naturals

CONSTANTS
  Tabs,       \* browser tabs, each with one request at a time
  N,          \* the sections of the assessment, in their order 1..N
  MaxCalls    \* bound: requests of a behaviour

ASSUME SessionAssumption ==
  /\ N \in Nat \ {0}
  /\ MaxCalls \in Nat

VARIABLES
  row,        \* the row of exam
  answered,   \* sections with a row in userAnswer
  pc,         \* where each tab's request is
  snap,       \* the row a request read
  to,         \* the section a request will show
  ready,      \* the client says the section it leaves is complete
  page,       \* the section a tab shows; 0: none, or one it was never checked for
  calls,      \* requests so far
  claims,     \* report requests of finish
  claimed,    \* history: sections that counted as complete at some time
  finished,   \* history: userEndDate was set
  raced,      \* history: it was set while another request was to save an older row
  reopened    \* history: how often userEndDate was erased

request == <<snap, to, ready>>
history == <<claimed, finished, raced, reopened>>
vars == <<row, answered, pc, request, page, calls, claims, history>>

Cats == 1..N

\* completedCategories is null (legacy) for exams older than the column.
Row == [start: BOOLEAN, end: BOOLEAN, user: BOOLEAN, legacy: BOOLEAN,
        completed: SUBSET Cats, timer: 0..N]

Steps == {"idle", "opening", "start", "login", "attach", "moving", "show", "turn",
          "jump", "closing", "ending", "restoring", "attaching", "editing"}

TypeOK ==
  /\ row \in Row
  /\ answered \subseteq Cats
  /\ pc \in [Tabs -> Steps]
  /\ snap \in [Tabs -> Row]
  /\ to \in [Tabs -> Cats]
  /\ ready \in [Tabs -> BOOLEAN]
  /\ page \in [Tabs -> 0..N]
  /\ calls \in 0..MaxCalls
  /\ claims \in Nat
  /\ claimed \subseteq Cats
  /\ finished \in BOOLEAN
  /\ raced \in BOOLEAN
  /\ reopened \in Nat

Fresh == {r \in Row : ~r.start /\ ~r.end /\ r.completed = {} /\ r.timer = 0}

Init ==
  /\ row \in Fresh
  /\ answered = {}
  /\ pc = [t \in Tabs |-> "idle"]
  /\ snap = [t \in Tabs |-> row]
  /\ to = [t \in Tabs |-> 1]
  /\ ready = [t \in Tabs |-> FALSE]
  /\ page = [t \in Tabs |-> 0]
  /\ calls = 0
  /\ claims = 0
  /\ claimed = {}
  /\ finished = FALSE
  /\ raced = FALSE
  /\ reopened = 0

-----------------------------------------------------------------------------
(* exam-resume.ts                                                          *)

\* resolveCompletedCategories before the client's word: an old exam counts the
\* sections that have answers.
Completed(r) == IF r.legacy THEN answered ELSE r.completed

Claim(done, from, complete) == IF complete THEN done \cup {from} ELSE done \ {from}

\* pickResumeIndex: the first section that is not complete, or the last.
Resumes(done, c) ==
  /\ \A d \in 1..(c - 1) : d \in done
  /\ c \in done => c = N

\* A slip: back, or one section on.
CanNavigateNext(done, target, from) ==
  \/ target <= from + 1
  \/ \A d \in 1..(target - 1) : d \in done

CanNavigateTo(done, target, from) ==
  \/ target <= from
  \/ target = from + 1 /\ from \in done
  \/ \A d \in 1..(target - 1) : d \in done

-----------------------------------------------------------------------------
Goto(t, from, step) ==
  /\ pc[t] = from
  /\ pc' = [pc EXCEPT ![t] = step]

Call(t, step) ==
  /\ calls < MaxCalls
  /\ calls' = calls + 1
  /\ Goto(t, "idle", step)

Load(t) == snap' = [snap EXCEPT ![t] = row]

\* Requests that will save the row as they read it, its end included.
Restoring(t) ==
  \/ pc[t] \in {"attaching", "editing"}
  \/ pc[t] \in {"opening", "start"} /\ ~snap[t].start
  \/ pc[t] \in {"opening", "start", "login", "attach"} /\ ~snap[t].user

\* The row becomes r by the request of t.
Write(t, r) ==
  /\ row' = r
  /\ finished' = (finished \/ r.end)
  /\ raced' = (raced \/ (r.end /\ ~row.end /\ \E u \in Tabs \ {t} : Restoring(u) /\ ~snap[u].end))
  /\ reopened' = IF row.end /\ ~r.end THEN reopened + 1 ELSE reopened
  /\ UNCHANGED claimed

-----------------------------------------------------------------------------
(* updateByCode without a section: the exam is opened, or a page reloaded. *)
(* A refused request (ended, expired, unknown code) changes nothing.       *)

Open(t) ==
  /\ Call(t, "opening")
  /\ ~row.end
  /\ Load(t)
  /\ UNCHANGED <<row, answered, to, ready, page, claims, history>>

Pick(t) ==
  /\ \E c \in Cats :
       /\ Resumes(Completed(snap[t]), c)
       /\ to' = [to EXCEPT ![t] = c]
  /\ Goto(t, "opening", IF snap[t].start THEN "login" ELSE "start")
  /\ claimed' = claimed \cup Completed(snap[t])
  /\ UNCHANGED <<row, answered, snap, ready, page, calls, claims, finished, raced, reopened>>

SaveStart(t) ==
  /\ Goto(t, "start", "login")
  /\ Write(t, [snap[t] EXCEPT !.start = TRUE])
  /\ UNCHANGED <<answered, request, page, calls, claims>>

\* forceLogin, if the row has an address and a name.
Login(t) ==
  /\ Goto(t, "login", "show") \/ (~snap[t].user /\ Goto(t, "login", "attach"))
  /\ UNCHANGED <<row, answered, request, page, calls, claims, history>>

SaveUser(t) ==
  /\ Goto(t, "attach", "show")
  /\ Write(t, [snap[t] EXCEPT !.user = TRUE])
  /\ UNCHANGED <<answered, request, page, calls, claims>>

\* nextCategoryStart and setCategoryStart: a reload keeps the section's clock.
Show(t) ==
  /\ Goto(t, "show", "idle")
  /\ IF snap[t].timer = to[t] THEN UNCHANGED row ELSE row' = [row EXCEPT !.timer = to[t]]
  /\ page' = [page EXCEPT ![t] = to[t]]
  /\ UNCHANGED <<answered, request, calls, claims, history>>

Opening(t) == Open(t) \/ Pick(t) \/ SaveStart(t) \/ Login(t) \/ SaveUser(t) \/ Show(t)

-----------------------------------------------------------------------------
(* updateByCode with a section                                             *)

\* From the section the tab shows, with what the client knows of it.
Navigate(t) ==
  /\ page[t] # 0
  /\ Call(t, "moving")
  /\ ~row.end
  /\ Load(t)
  /\ to' \in {[to EXCEPT ![t] = c] : c \in Cats}
  /\ ready' \in {[ready EXCEPT ![t] = b] : b \in BOOLEAN}
  /\ UNCHANGED <<row, answered, page, claims, history>>

\* The client's word is stored before the move is judged.
Move(t) ==
  LET done == Claim(Completed(snap[t]), page[t], ready[t])
  IN /\ Goto(t, "moving", IF CanNavigateTo(done, to[t], page[t]) THEN "turn" ELSE "idle")
     /\ IF snap[t].legacy \/ done # snap[t].completed
        THEN row' = [row EXCEPT !.legacy = FALSE, !.completed = done]
        ELSE UNCHANGED row
     /\ claimed' = claimed \cup done
     /\ UNCHANGED <<answered, request, page, calls, claims, finished, raced, reopened>>

\* A client that sends no from is not checked.
Jump(t) ==
  /\ Call(t, "jump")
  /\ ~row.end
  /\ to' \in {[to EXCEPT ![t] = c] : c \in Cats}
  /\ UNCHANGED <<row, answered, snap, ready, page, claims, history>>

\* The section is new: its clock starts.
Turn(t) ==
  /\ \/ Goto(t, "turn", "idle") /\ page' = [page EXCEPT ![t] = to[t]]
     \/ Goto(t, "jump", "idle") /\ page' = [page EXCEPT ![t] = 0]
  /\ row' = [row EXCEPT !.timer = to[t]]
  /\ UNCHANGED <<answered, request, calls, claims, history>>

Turning(t) == Navigate(t) \/ Move(t) \/ Jump(t) \/ Turn(t)

-----------------------------------------------------------------------------
(* The end                                                                 *)

\* Section -1.
Close(t) ==
  /\ Call(t, "closing")
  /\ ~row.end
  /\ Load(t)
  /\ UNCHANGED <<row, answered, to, ready, page, claims, history>>

SaveClosed(t) ==
  /\ Goto(t, "closing", "idle")
  /\ Write(t, [snap[t] EXCEPT !.end = TRUE])
  /\ UNCHANGED <<answered, request, page, calls, claims>>

\* The last answers, or a resend of them: endExam reads and saves.  (The report
\* that is asked for then is a matter of ReportPipeline.)
End(t) ==
  /\ Call(t, "ending")
  /\ Load(t)
  /\ UNCHANGED <<row, answered, to, ready, page, claims, history>>

SaveEnd(t) ==
  /\ Goto(t, "ending", "idle")
  /\ Write(t, [snap[t] EXCEPT !.end = TRUE])
  /\ UNCHANGED <<answered, request, page, calls, claims>>

\* claimEnd: UPDATE ... WHERE userEndDate IS NULL.
Finish(t) ==
  /\ calls < MaxCalls
  /\ calls' = calls + 1
  /\ pc[t] = "idle"
  /\ ~row.end
  /\ Write(t, [row EXCEPT !.end = TRUE])
  /\ claims' = claims + 1
  /\ UNCHANGED <<answered, pc, request, page>>

Ending(t) == Close(t) \/ SaveClosed(t) \/ End(t) \/ SaveEnd(t) \/ Finish(t)

-----------------------------------------------------------------------------
(* exam/access and the registration form: ExamDao.update reads and saves.  *)

Restore(t) ==
  /\ Call(t, "restoring")
  /\ ~row.user
  /\ Load(t)
  /\ UNCHANGED <<row, answered, to, ready, page, claims, history>>

\* A slip: ExamDao.update saves the row its caller had read.
ReadRowEarly(t) ==
  /\ Goto(t, "restoring", "attaching")
  /\ UNCHANGED <<row, answered, request, page, calls, claims, history>>

ReadRow(t) ==
  /\ Goto(t, "restoring", "attaching")
  /\ Load(t)
  /\ UNCHANGED <<row, answered, to, ready, page, calls, claims, history>>

Edit(t) ==
  /\ Call(t, "editing")
  /\ Load(t)
  /\ UNCHANGED <<row, answered, to, ready, page, claims, history>>

SaveRow(t) ==
  /\ \/ Goto(t, "attaching", "idle") /\ Write(t, [snap[t] EXCEPT !.user = TRUE])
     \/ Goto(t, "editing", "idle") /\ Write(t, snap[t])
  /\ UNCHANGED <<answered, request, page, calls, claims>>

Access(t) == Restore(t) \/ ReadRow(t) \/ Edit(t) \/ SaveRow(t)

-----------------------------------------------------------------------------
\* A call throws, or the replica goes down.
Abort(t) ==
  /\ pc[t] # "idle"
  /\ pc' = [pc EXCEPT ![t] = "idle"]
  /\ UNCHANGED <<row, answered, request, page, calls, claims, history>>

\* userAnswer.create stores answers of a section, or fails between its DELETE
\* and its INSERT.
Answer(c) ==
  /\ answered' \in {answered \cup {c}, answered \ {c}}
  /\ UNCHANGED <<row, pc, request, page, calls, claims, history>>

Next ==
  \/ \E t \in Tabs : Opening(t) \/ Turning(t) \/ Ending(t) \/ Access(t) \/ Abort(t)
  \/ \E c \in Cats : Answer(c)

Spec == Init /\ [][Next]_vars

-----------------------------------------------------------------------------
(* What the session guarantees                                             *)

\* A section is shown by a checked request only when every section before it
\* counted as complete at some time, whatever the tabs do to each other's
\* rows (canNavigateTo, resolveCompletedCategories, pickResumeIndex).
ServedInOrder ==
  \A t \in Tabs : page[t] # 0 => \A c \in 1..(page[t] - 1) : c \in claimed

\* An exam that was finished stays finished, unless the end came while another
\* request was to save the row it had read before.
FinishedStays == finished /\ ~raced => row.end

\* finish asks for one report, and one more for each time the exam was
\* reopened: double clicks, retries and a finish after the last answers ask
\* for none.
ClaimsBounded == claims <= reopened + (IF row.end THEN 1 ELSE 0)

\* Tabs that do not know of each other neither skip a section nor start a
\* second report.
SessionSafe == ServedInOrder /\ ClaimsBounded

\* "userStartDate was already written by the first attempt" is what the comment
\* on the repeated login of updateByCode relies on: the start, once set, stays.
StartKept == [][row.start => row'.start]_vars
=============================================================================

--------------------------- MODULE ReportPipeline ---------------------------
(***************************************************************************)
(* The report of one exam under REPORT_PIPELINE=v2: its row in report_logs *)
(* (id v2-<code>), its job in the Redis queue report-calc (id calc-<code>) *)
(* and everybody who touches the two.                                      *)
(*                                                                         *)
(* The handlers of this server are the callers (the end of an exam, an     *)
(* administrator), the viewers (a browser that polls for the PDF) and the  *)
(* sweeper.  All of them enter reports with enqueueCalc, which first writes*)
(* the row and then talks to the queue in several calls.  BullMQ and the   *)
(* workers of hire_report are external: a worker may report through        *)
(* patchStatus, report twice, or vanish without a word.                    *)
(***************************************************************************)
EXTENDS Naturals

CONSTANTS
  Callers,       \* one-shot requests: the exam ends, an administrator asks
  Viewers,       \* browsers that poll for the PDF
  Sweeper,       \* the task of the sweep queue
  Runs,          \* the renders of a behaviour
  SweepMax,      \* REPORT_SWEEP_MAX
  AutoMax,       \* REPORT_AUTO_MAX
  Attempts,      \* attempts of a calc job
  LostAudits     \* bound: failing inserts into ops_action_log

ASSUME PipelineAssumption ==
  /\ SweepMax \in Nat \ {0}
  /\ AutoMax \in Nat
  /\ Attempts \in Nat \ {0}
  /\ LostAudits \in Nat
  /\ Sweeper \notin Callers \cup Viewers
  /\ Callers \cap Viewers = {}

VARIABLES
  row,           \* the row of report_logs
  job,           \* the job calc-<code> of BullMQ
  run,           \* the renders
  ended,         \* exam.userEndDate is set
  autos,         \* report.auto rows of ops_action_log in the last 24 hours
  cooling,       \* the last of them is less than 3 minutes old
  lostAudits,    \* failed inserts so far
  pc,            \* where each task is
  seen,          \* what a viewer makes of the row it read
  waiting,       \* the viewers whose last answer was 202, "wait"
  completions,   \* history: how often the row became COMPLETED
  notices,       \* history: how often claimSent succeeded
  swept          \* history: sweeps since the last request of a caller or viewer

logVars == <<autos, cooling, lostAudits>>
viewVars == <<seen, waiting>>
history == <<completions, notices, swept>>
vars == <<row, job, run, ended, logVars, pc, viewVars, history>>

Requests == Callers \cup Viewers
Tasks == Requests \cup {Sweeper}

\* STARTED, CALCULATING, WRITING and UPLOADING are one status here, WRITING.
Inflight == {"PENDING", "WRITING"}
Done == {"COMPLETED", "SENT"}
Statuses == {"none", "FAILED"} \cup Inflight \cup Done

\* The age of updatedAt in steps of five minutes: a FAILED row is swept after
\* one, a row in flight is stale after two and stuck after three.
Rested == 1
Stale == 2
Stuck == 3

NoJob == [state |-> "none", tries |-> 0]
Enqueueing == {"upsert", "look", "remove", "add"}
Steps == {"idle", "over", "count", "decide", "audit"} \cup Enqueueing

TypeOK ==
  /\ row \in [status: Statuses, permanent: BOOLEAN, age: 0..Stuck, sweeps: 0..SweepMax]
  /\ job \in [state: {"none", "waiting", "active", "failed"}, tries: 0..(Attempts - 1)]
  /\ run \in [Runs -> {"unused", "started", "reported", "over"}]
  /\ ended \in BOOLEAN
  /\ autos \in Nat
  /\ cooling \in BOOLEAN
  /\ lostAudits \in 0..LostAudits
  /\ pc \in [Tasks -> Steps]
  /\ seen \in [Viewers -> {"nothing", "hopeless", "underway", "open"}]
  /\ waiting \subseteq Viewers
  /\ completions \in Nat
  /\ notices \in Nat
  /\ swept \in Nat

Init ==
  /\ row = [status |-> "none", permanent |-> FALSE, age |-> 0, sweeps |-> 0]
  /\ job = NoJob
  /\ run = [r \in Runs |-> "unused"]
  /\ ended = FALSE
  /\ autos = 0
  /\ cooling = FALSE
  /\ lostAudits = 0
  /\ pc = [t \in Tasks |-> "idle"]
  /\ seen = [v \in Viewers |-> "nothing"]
  /\ waiting = {}
  /\ completions = 0
  /\ notices = 0
  /\ swept = 0

-----------------------------------------------------------------------------
(* enqueueCalc                                                             *)

Goto(t, from, to) ==
  /\ pc[t] = from
  /\ pc' = [pc EXCEPT ![t] = to]

\* Where a task is when its handler has returned.
Rest(t) == IF t \in Callers THEN "over" ELSE "idle"

\* A slip: a sweep that forgets resetSweeps: false.
UpsertResetting(t) ==
  /\ Goto(t, "upsert", "look")
  /\ row' = [status |-> "PENDING", permanent |-> FALSE, age |-> 0, sweeps |-> 0]
  /\ swept' = IF t = Sweeper THEN swept + 1 ELSE 0
  /\ UNCHANGED <<job, run, ended, logVars, viewVars, completions, notices>>

\* INSERT ... ON CONFLICT DO UPDATE: whatever the row was, it is PENDING now.
Upsert(t) ==
  /\ Goto(t, "upsert", "look")
  /\ row' = [status |-> "PENDING", permanent |-> FALSE, age |-> 0,
             sweeps |-> IF t = Sweeper THEN row.sweeps ELSE 0]
  /\ swept' = IF t = Sweeper THEN swept + 1 ELSE 0
  /\ UNCHANGED <<job, run, ended, logVars, viewVars, completions, notices>>

\* getJob and getState: a live job ends the request with queued: false, a
\* failed one is removed; one that vanishes between the two calls is "unknown"
\* and goes the same way.
Look(t) ==
  /\ \/ job.state = "none" /\ Goto(t, "look", "add")
     \/ job.state \in {"failed", "none"} /\ Goto(t, "look", "remove")
     \/ job.state \in {"waiting", "active"} /\ Goto(t, "look", Rest(t))
  /\ UNCHANGED <<row, job, run, ended, logVars, viewVars, history>>

\* remove() takes the job of that id, whoever added it; a job a worker holds
\* is locked, and the error is swallowed.
Remove(t) ==
  /\ Goto(t, "remove", "add")
  /\ job' = IF job.state = "active" THEN job ELSE NoJob
  /\ UNCHANGED <<row, run, ended, logVars, viewVars, history>>

\* BullMQ ignores an add whose id is taken.
Add(t) ==
  /\ Goto(t, "add", Rest(t))
  /\ job' = IF job.state = "none" THEN [state |-> "waiting", tries |-> 0] ELSE job
  /\ UNCHANGED <<row, run, ended, logVars, viewVars, history>>

Enqueue(t) == Upsert(t) \/ Look(t) \/ Remove(t) \/ Add(t)

\* A call to Redis or to the database throws, or the replica goes down.  A
\* viewer that was already answered 202 does not learn of it.
Abort(t) ==
  /\ pc[t] \in Enqueueing \cup {"count", "decide", "audit"}
  /\ pc' = [pc EXCEPT ![t] = Rest(t)]
  /\ waiting' = IF pc[t] \in {"decide", "audit"} THEN waiting \ {t} ELSE waiting
  /\ seen' = IF t \in Viewers THEN [seen EXCEPT ![t] = "nothing"] ELSE seen
  /\ UNCHANGED <<row, job, run, ended, logVars, history>>

-----------------------------------------------------------------------------
(* Who asks for a report                                                   *)

\* POST /userAnswer/finish: only the call that sets userEndDate asks.
Finish(c) ==
  /\ Goto(c, "idle", IF ended THEN "over" ELSE "upsert")
  /\ ended' = TRUE
  /\ UNCHANGED <<row, job, run, logVars, viewVars, history>>

\* The last answers, or a resend: endExam writes userEndDate in any case.
EndExam(c) ==
  /\ Goto(c, "idle", "upsert")
  /\ ended' = TRUE
  /\ UNCHANGED <<row, job, run, logVars, viewVars, history>>

\* An administrator's regenerate or recalculate.  PENDING is not in its list
\* of states in flight.
Regenerate(c) ==
  /\ Goto(c, "idle", IF row.status = "WRITING" /\ row.age < Stale THEN "over" ELSE "upsert")
  /\ UNCHANGED <<row, job, run, ended, logVars, viewVars, history>>

Retry(c) ==
  /\ Goto(c, "idle", IF row.status = "FAILED" THEN "upsert" ELSE "over")
  /\ UNCHANGED <<row, job, run, ended, logVars, viewVars, history>>

Call(c) == Finish(c) \/ EndExam(c) \/ Regenerate(c) \/ Retry(c)

-----------------------------------------------------------------------------
(* The viewer: GET of the PDF and ensureReport                             *)

\* 202, and the browser asks again, or the PDF or an error.
Reply(v, wait) == waiting' = IF wait THEN waiting \cup {v} ELSE waiting \ {v}

Underway(status, age) == status \in Inflight /\ age < Stale

Verdict ==
  IF row.status = "FAILED" /\ row.permanent THEN "hopeless"
  ELSE IF Underway(row.status, row.age) THEN "underway"
  ELSE "open"

\* The row calls for ensureReport.
Doubt(v) ==
  /\ Goto(v, "idle", "decide")
  /\ seen' = [seen EXCEPT ![v] = Verdict]
  /\ UNCHANGED <<row, job, run, ended, logVars, waiting, history>>

\* The file is asked for only when the report is done or has no row: the
\* viewer gets it, or an error if the file server does not answer.
ViewFile(v) ==
  /\ pc[v] = "idle"
  /\ row.status \in Done \cup {"none"}
  /\ Reply(v, FALSE)
  /\ UNCHANGED <<row, job, run, ended, logVars, pc, seen, history>>

View(v) == ViewFile(v) \/ Doubt(v)

Decision(v) ==
  CASE seen[v] = "hopeless" -> "error"
    [] seen[v] = "underway" -> "wait"
    [] seen[v] = "open" /\ cooling -> "wait"
    [] seen[v] = "open" /\ ~cooling /\ (~ended \/ autos >= AutoMax) -> "error"
    [] OTHER -> "generate"

\* The exam and the number of automatic attempts are read now; the row was
\* read before.
Decide(v) ==
  /\ Goto(v, "decide", IF Decision(v) = "generate" THEN "audit" ELSE "idle")
  /\ IF Decision(v) = "generate" THEN UNCHANGED waiting ELSE Reply(v, Decision(v) = "wait")
  /\ seen' = [seen EXCEPT ![v] = "nothing"]
  /\ UNCHANGED <<row, job, run, ended, logVars, history>>

\* report.auto is logged, the browser gets its 202 and createReport goes on in
\* the background.  A failing insert is caught and changes nothing else.
Audit(v) ==
  /\ Goto(v, "audit", "upsert")
  /\ Reply(v, TRUE)
  /\ \/ /\ autos' = autos + 1
        /\ cooling' = TRUE
        /\ UNCHANGED lostAudits
     \/ /\ lostAudits < LostAudits
        /\ lostAudits' = lostAudits + 1
        /\ UNCHANGED <<autos, cooling>>
  /\ UNCHANGED <<row, job, run, ended, seen, history>>

\* A slip: the notice goes out and the row stays COMPLETED.
ClaimAgain ==
  /\ row.status = "COMPLETED"
  /\ notices' = notices + 1
  /\ UNCHANGED <<row, job, run, ended, logVars, pc, viewVars, completions, swept>>

\* The poll of the status, or GET report/mail: UPDATE ... WHERE COMPLETED.
ClaimSent ==
  /\ row.status = "COMPLETED"
  /\ row' = [status |-> "SENT", permanent |-> row.permanent, age |-> 0,
             sweeps |-> row.sweeps]
  /\ notices' = notices + 1
  /\ UNCHANGED <<job, run, ended, logVars, pc, viewVars, completions, swept>>

-----------------------------------------------------------------------------
(* The sweeper                                                             *)

\* A slip: only failures are swept.
SweepableFailure ==
  /\ row.sweeps < SweepMax
  /\ ~row.permanent
  /\ row.status = "FAILED" /\ row.age >= Rested

Sweepable ==
  /\ row.sweeps < SweepMax
  /\ ~row.permanent
  /\ \/ row.status \in Inflight /\ row.age >= Stuck
     \/ row.status = "FAILED" /\ row.age >= Rested

SweepSelect ==
  /\ Sweepable
  /\ Goto(Sweeper, "idle", "count")
  /\ UNCHANGED <<row, job, run, ended, logVars, viewVars, history>>

\* Its own UPDATE, which leaves updatedAt alone; enqueueCalc follows.
SweepCount ==
  /\ Goto(Sweeper, "count", "upsert")
  /\ row' = [row EXCEPT !.sweeps = @ + 1]
  /\ UNCHANGED <<job, run, ended, logVars, viewVars, history>>

-----------------------------------------------------------------------------
(* The workers of hire_report                                              *)

\* patchStatus: whatever the row was, if there is one.  An error without the
\* mark and a cleared error are the same to every reader.
Patch(status, permanent) ==
  /\ row.status # "none"
  /\ row' = [status |-> status, permanent |-> permanent, age |-> 0, sweeps |-> row.sweeps]
  /\ completions' = IF status = "COMPLETED" THEN completions + 1 ELSE completions

\* A step of a worker whose report is lost or not made.
Silent == UNCHANGED <<row, completions>>

PatchFailure == \E permanent \in BOOLEAN : Patch("FAILED", permanent)

CalcTakes ==
  /\ job.state = "waiting"
  /\ job' = [job EXCEPT !.state = "active"]
  /\ Patch("WRITING", row.permanent) \/ Silent
  /\ UNCHANGED <<run, ended, logVars, pc, viewVars, notices, swept>>

\* The snapshot is handed to a render and the job leaves the queue.
CalcSucceeds(r) ==
  /\ job.state = "active"
  /\ job' = NoJob
  /\ run[r] = "unused"
  /\ run' = [run EXCEPT ![r] = "started"]
  /\ Patch("WRITING", row.permanent) \/ Silent
  /\ UNCHANGED <<ended, logVars, pc, viewVars, notices, swept>>

\* An attempt fails or its worker dies: the job waits for the next attempt, or
\* it was the last, or the error is one that is not tried again.
CalcFails ==
  /\ job.state = "active"
  /\ \/ /\ job.tries + 1 < Attempts
        /\ job' = [state |-> "waiting", tries |-> job.tries + 1]
     \/ job' = [state |-> "failed", tries |-> job.tries]
  /\ PatchFailure \/ Silent
  /\ UNCHANGED <<run, ended, logVars, pc, viewVars, notices, swept>>

RenderStep(r, from, to) ==
  /\ run[r] = from
  /\ run' = [run EXCEPT ![r] = to]
  /\ UNCHANGED <<job, ended, logVars, pc, viewVars, notices, swept>>

RenderCompletes(r) == RenderStep(r, "started", "reported") /\ Patch("COMPLETED", FALSE)

RenderFails(r) == RenderStep(r, "started", "over") /\ (PatchFailure \/ Silent)

\* The answer to the PATCH was lost and the worker sends it again.
RenderRepeats(r) == RenderStep(r, "reported", "over") /\ Patch("COMPLETED", FALSE)

Render(r) ==
  CalcSucceeds(r) \/ RenderCompletes(r) \/ RenderFails(r) \/ RenderRepeats(r)

-----------------------------------------------------------------------------
(* Time                                                                    *)

RowAges ==
  /\ \/ row.status \in Inflight /\ row.age < Stuck
     \/ row.status = "FAILED" /\ row.age < Rested
  /\ row' = [row EXCEPT !.age = @ + 1]
  /\ UNCHANGED <<job, run, ended, logVars, pc, viewVars, history>>

CooldownEnds ==
  /\ cooling
  /\ cooling' = FALSE
  /\ UNCHANGED <<row, job, run, ended, autos, lostAudits, pc, viewVars, history>>

-----------------------------------------------------------------------------
Next ==
  \/ \E t \in Tasks : Enqueue(t) \/ Abort(t)
  \/ \E c \in Callers : Call(c)
  \/ \E v \in Viewers : View(v) \/ Decide(v) \/ Audit(v)
  \/ SweepSelect \/ SweepCount
  \/ ClaimSent
  \/ CalcTakes \/ CalcFails
  \/ \E r \in Runs : Render(r)
  \/ RowAges \/ CooldownEnds

Safe == Init /\ [][Next]_vars

\* A browser that was told to wait asks again.
PollAgain(v) == v \in waiting /\ View(v)

(***************************************************************************)
(* Time passes, handlers go on until they return or throw, the scheduler   *)
(* of the sweep queue fires, and its UPDATE of the counter does not throw  *)
(* every single time.  Nothing is assumed of the workers.                  *)
(***************************************************************************)
Fairness ==
  /\ WF_vars(RowAges)
  /\ WF_vars(CooldownEnds)
  /\ WF_vars(SweepSelect)
  /\ SF_vars(SweepCount)
  /\ \A t \in Tasks : WF_vars(Enqueue(t))
  /\ \A v \in Viewers : WF_vars(PollAgain(v)) /\ WF_vars(Decide(v)) /\ WF_vars(Audit(v))

Spec == Safe /\ Fairness

-----------------------------------------------------------------------------
(* What the pipeline guarantees                                            *)

\* A mail is claimed once for each time the report became COMPLETED, never
\* for a report in another state (claimSent against polls, repeated and late
\* patches, new requests).
NoticesCovered ==
  notices + (IF row.status = "COMPLETED" THEN 1 ELSE 0) <= completions

\* Between two requests of people the sweeper enters a report at most SweepMax
\* times, and once more if the request came between its two updates: sweeping
\* cannot go on for ever.
SweepingIsBounded == swept <= row.sweeps + 1

\* The row seen from outside.
phase ==
  CASE row.status = "none" -> "absent"
    [] row.status \in Inflight -> "working"
    [] row.status = "COMPLETED" -> "ready"
    [] row.status = "SENT" -> "announced"
    [] row.status = "FAILED" -> "failed"

Life == INSTANCE ReportLife WITH phase <- phase, completions <- completions, notices <- notices

\* The pipeline implements the life of a report.
RefinesLife == Life!Spec

Settled ==
  \/ row.status \in Done
  \/ row.permanent
  \/ row.sweeps = SweepMax

\* A report that was asked for is finished, is marked [permanent], or has used
\* up its sweeps, whatever the workers do: jobs, renders and calls may be lost at any
\* point of any handler.
RequestSettles == (row.status # "none") ~> Settled

\* "The web does not spin for ever": a browser that is told to wait and keeps
\* asking gets the PDF or an error in the end (report-ensure.ts).
NoEndlessWait == \A v \in Viewers : (v \in waiting) ~> (v \notin waiting)

\* Neither a report nor a browser waits for ever.
ReportEnds == RequestSettles /\ NoEndlessWait

\* What report.service.ts says of the automatic attempts of ensureReport: at
\* most REPORT_AUTO_MAX of them are made in 24 hours.
AutoWithinLimit == autos <= AutoMax
=============================================================================

------------------------ MODULE ReportPipelineProofs ------------------------
(***************************************************************************)
(* Theorems about ReportPipeline for any number of callers, viewers and    *)
(* renders and any limits.  IInv is the inductive invariant: to bound the  *)
(* sweeps it follows the sweeper through its two updates of the row.       *)
(***************************************************************************)
EXTENDS ReportPipeline, TLAPS

\* Between the SELECT and the two updates of the sweeper the counter can only
\* have been reset.
SweeperInv ==
  /\ pc[Sweeper] = "count" => row.sweeps < SweepMax
  /\ pc[Sweeper] = "upsert" => swept <= row.sweeps

IInv == TypeOK /\ NoticesCovered /\ SweepingIsBounded /\ SweeperInv

\* The limits are numbers and the sweeper is no request.
LEMMA Limits ==
  /\ SweepMax \in Nat /\ 0 < SweepMax
  /\ Attempts \in Nat /\ 0 < Attempts
  /\ LostAudits \in Nat
  /\ Sweeper \notin Callers \cup Viewers
  /\ Sweeper \in Tasks
BY SMT, PipelineAssumption DEF Tasks

\* The initial state satisfies the invariant.
LEMMA InitInv == Init => IInv
<1> SUFFICES ASSUME Init PROVE IInv
  OBVIOUS
<1> USE DEF Init
<1>1. TypeOK
  <2>1. row \in [status: Statuses, permanent: BOOLEAN, age: 0..Stuck, sweeps: 0..SweepMax]
    BY Limits DEF Statuses, Stuck
  <2>2. job \in [state: {"none", "waiting", "active", "failed"}, tries: 0..(Attempts - 1)]
    BY Limits DEF NoJob
  <2>3. lostAudits \in 0..LostAudits
    BY Limits
  <2>4. pc \in [Tasks -> Steps]
    BY DEF Steps
  <2>5. run \in [Runs -> {"unused", "started", "reported", "over"}]
    OBVIOUS
  <2>6. seen \in [Viewers -> {"nothing", "hopeless", "underway", "open"}]
    OBVIOUS
  <2> QED
    BY <2>1, <2>2, <2>3, <2>4, <2>5, <2>6 DEF TypeOK
<1>2. NoticesCovered /\ SweepingIsBounded /\ SweeperInv
  BY Limits DEF NoticesCovered, SweepingIsBounded, SweeperInv
<1> QED
  BY <1>1, <1>2 DEF IInv

-----------------------------------------------------------------------------
(* What a step may do to the row, and to the tasks                         *)

\* A step that leaves row, completions, notices and swept alone keeps the
\* three counting invariants, as long as it moves the sweeper to no update.
LEMMA Untouched ==
  ASSUME IInv, UNCHANGED <<row, completions, notices, swept>>,
         pc'[Sweeper] \in {"count", "upsert"} => pc'[Sweeper] = pc[Sweeper]
  PROVE  NoticesCovered' /\ SweepingIsBounded' /\ SweeperInv'
BY DEF IInv, NoticesCovered, SweepingIsBounded, SweeperInv

\* The same for a step that changes the row otherwise than in its sweeps.
LEMMA SweepsKept ==
  ASSUME IInv, row'.sweeps = row.sweeps, swept' = swept,
         pc'[Sweeper] \in {"count", "upsert"} => pc'[Sweeper] = pc[Sweeper]
  PROVE  SweepingIsBounded' /\ SweeperInv'
BY DEF IInv, SweepingIsBounded, SweeperInv

\* Moving one task moves no other, and keeps the type of pc.
LEMMA Moves ==
  ASSUME TypeOK, NEW t \in Tasks, NEW from, NEW to \in Steps, Goto(t, from, to)
  PROVE  /\ pc' \in [Tasks -> Steps]
         /\ pc[t] = from
         /\ pc'[t] = to
         /\ t # Sweeper => pc'[Sweeper] = pc[Sweeper]
BY Limits DEF TypeOK, Goto

\* What patchStatus does to the row and to the history.
LEMMA Patches ==
  ASSUME TypeOK, NoticesCovered, NEW status \in Statuses \ {"none", "SENT"},
         NEW permanent \in BOOLEAN,
         Patch(status, permanent), UNCHANGED notices
  PROVE  /\ row' \in [status: Statuses, permanent: BOOLEAN, age: 0..Stuck, sweeps: 0..SweepMax]
         /\ row'.sweeps = row.sweeps
         /\ completions' \in Nat
         /\ NoticesCovered'
<1> USE DEF TypeOK, Patch
<1>1. row' \in [status: Statuses, permanent: BOOLEAN, age: 0..Stuck, sweeps: 0..SweepMax]
  BY DEF Stuck
<1>2. row'.sweeps = row.sweeps /\ row'.status = status
  OBVIOUS
<1>3. completions' \in Nat
  OBVIOUS
<1>4. NoticesCovered'
  BY <1>2 DEF NoticesCovered
<1> QED
  BY <1>1, <1>2, <1>3, <1>4

\* A worker's step keeps what concerns the row, whatever it reports.
LEMMA WorkerReports ==
  ASSUME IInv, UNCHANGED <<pc, notices, swept>>,
         \/ Patch("WRITING", row.permanent)
         \/ Patch("COMPLETED", FALSE)
         \/ PatchFailure
         \/ Silent
  PROVE  /\ row' \in [status: Statuses, permanent: BOOLEAN, age: 0..Stuck, sweeps: 0..SweepMax]
         /\ completions' \in Nat
         /\ NoticesCovered' /\ SweepingIsBounded' /\ SweeperInv'
<1>1. TypeOK /\ NoticesCovered
  BY DEF IInv
<1>2. CASE Silent
  <2>1. UNCHANGED <<row, completions>>
    BY <1>2 DEF Silent
  <2> QED
    BY <1>1, <2>1, Untouched DEF TypeOK
<1>3. ASSUME NEW status \in {"WRITING", "COMPLETED", "FAILED"}, NEW permanent \in BOOLEAN,
             Patch(status, permanent)
      PROVE  /\ row' \in [status: Statuses, permanent: BOOLEAN, age: 0..Stuck, sweeps: 0..SweepMax]
             /\ completions' \in Nat
             /\ NoticesCovered' /\ SweepingIsBounded' /\ SweeperInv'
  <2>1. status \in Statuses \ {"none", "SENT"}
    BY DEF Statuses, Inflight, Done
  <2>2. /\ row' \in [status: Statuses, permanent: BOOLEAN, age: 0..Stuck, sweeps: 0..SweepMax]
        /\ row'.sweeps = row.sweeps
        /\ completions' \in Nat
        /\ NoticesCovered'
    BY <1>1, <1>3, <2>1, Patches
  <2> QED
    BY <2>2, SweepsKept
<1>4. row.permanent \in BOOLEAN
  BY <1>1 DEF TypeOK
<1>5. CASE Patch("WRITING", row.permanent)
  BY <1>3, <1>4, <1>5
<1>6. CASE Patch("COMPLETED", FALSE)
  BY <1>3, <1>6
<1>7. CASE PatchFailure
  BY <1>3, <1>7 DEF PatchFailure
<1> QED
  BY <1>2, <1>5, <1>6, <1>7

-----------------------------------------------------------------------------
\* Every step keeps the invariant.
LEMMA StepInv == IInv /\ [Next]_vars => IInv'
<1> SUFFICES ASSUME IInv, [Next]_vars PROVE IInv'
  OBVIOUS
<1> USE Limits
<1>0. TypeOK /\ NoticesCovered /\ SweepingIsBounded /\ SweeperInv
  BY DEF IInv
<1>1. ASSUME NEW t \in Tasks, Upsert(t) PROVE IInv'
  <2>1. /\ pc' \in [Tasks -> Steps]
        /\ pc[t] = "upsert" /\ pc'[t] = "look"
        /\ t # Sweeper => pc'[Sweeper] = pc[Sweeper]
    BY <1>0, <1>1, Moves DEF Upsert, Steps, Enqueueing
  <2>2. row' \in [status: Statuses, permanent: BOOLEAN, age: 0..Stuck, sweeps: 0..SweepMax]
    BY <1>0, <1>1 DEF Upsert, TypeOK, Statuses, Inflight, Stuck
  <2>3. swept' \in Nat
    BY <1>0, <1>1 DEF Upsert, TypeOK
  <2>4. TypeOK'
    BY <1>0, <1>1, <2>1, <2>2, <2>3 DEF Upsert, TypeOK, logVars, viewVars
  <2>5. NoticesCovered'
    BY <1>0, <1>1 DEF Upsert, NoticesCovered, TypeOK
  <2>6. CASE t = Sweeper
    BY <1>0, <1>1, <2>1, <2>4, <2>5, <2>6 DEF Upsert, SweepingIsBounded, SweeperInv, IInv, TypeOK
  <2>7. CASE t # Sweeper
    BY <1>0, <1>1, <2>1, <2>4, <2>5, <2>7 DEF Upsert, SweepingIsBounded, SweeperInv, IInv, TypeOK
  <2> QED
    BY <2>6, <2>7
<1>2. ASSUME NEW t \in Tasks, Look(t) PROVE IInv'
  <2>1. PICK to \in {"add", "remove", Rest(t)} : Goto(t, "look", to)
    BY <1>2 DEF Look
  <2>2. to \in Steps /\ to \notin {"count", "upsert"}
    BY <2>1 DEF Rest, Steps, Enqueueing
  <2>3. pc' \in [Tasks -> Steps] /\ (pc'[Sweeper] = pc[Sweeper] \/ pc'[Sweeper] = to)
    BY <1>0, <2>1, <2>2, Moves
  <2>4. TypeOK'
    BY <1>0, <1>2, <2>3 DEF Look, TypeOK, logVars, viewVars, history
  <2> QED
    BY <1>2, <2>2, <2>3, <2>4, Untouched DEF Look, history, IInv
<1>3. ASSUME NEW t \in Tasks, Remove(t) PROVE IInv'
  <2>1. pc' \in [Tasks -> Steps] /\ (pc'[Sweeper] = pc[Sweeper] \/ pc'[Sweeper] = "add")
    BY <1>0, <1>3, Moves DEF Remove, Steps, Enqueueing
  <2>2. job' \in [state: {"none", "waiting", "active", "failed"}, tries: 0..(Attempts - 1)]
    BY <1>0, <1>3 DEF Remove, NoJob, TypeOK
  <2>3. TypeOK'
    BY <1>0, <1>3, <2>1, <2>2 DEF Remove, TypeOK, logVars, viewVars, history
  <2> QED
    BY <1>3, <2>1, <2>3, Untouched DEF Remove, history, IInv
<1>4. ASSUME NEW t \in Tasks, Add(t) PROVE IInv'
  <2>1. Rest(t) \in Steps /\ Rest(t) \notin {"count", "upsert"}
    BY DEF Rest, Steps
  <2>2. pc' \in [Tasks -> Steps] /\ (pc'[Sweeper] = pc[Sweeper] \/ pc'[Sweeper] = Rest(t))
    BY <1>0, <1>4, <2>1, Moves DEF Add
  <2>3. job' \in [state: {"none", "waiting", "active", "failed"}, tries: 0..(Attempts - 1)]
    BY <1>0, <1>4 DEF Add, TypeOK
  <2>4. TypeOK'
    BY <1>0, <1>4, <2>2, <2>3 DEF Add, TypeOK, logVars, viewVars, history
  <2> QED
    BY <1>4, <2>1, <2>2, <2>4, Untouched DEF Add, history, IInv
<1>5. ASSUME NEW t \in Tasks, Abort(t) PROVE IInv'
  <2>1. Rest(t) \in Steps /\ Rest(t) \notin {"count", "upsert"}
    BY DEF Rest, Steps
  <2>2. pc' \in [Tasks -> Steps] /\ (pc'[Sweeper] = pc[Sweeper] \/ pc'[Sweeper] = Rest(t))
    BY <1>0, <1>5, <2>1 DEF Abort, TypeOK
  <2>3. waiting' \subseteq Viewers
    BY <1>0, <1>5 DEF Abort, TypeOK
  <2>4. seen' \in [Viewers -> {"nothing", "hopeless", "underway", "open"}]
    BY <1>0, <1>5 DEF Abort, TypeOK
  <2>5. TypeOK'
    BY <1>0, <1>5, <2>2, <2>3, <2>4 DEF Abort, TypeOK, logVars, history
  <2> QED
    BY <1>5, <2>1, <2>2, <2>5, Untouched DEF Abort, history, IInv
<1>6. ASSUME NEW c \in Callers, Call(c) PROVE IInv'
  <2>1. PICK to \in {"over", "upsert"} : Goto(c, "idle", to)
    BY <1>6 DEF Call, Finish, EndExam, Regenerate, Retry
  <2>2. c \in Tasks /\ c # Sweeper /\ to \in Steps
    BY DEF Tasks, Requests, Steps, Enqueueing
  <2>3. pc' \in [Tasks -> Steps] /\ pc'[Sweeper] = pc[Sweeper]
    BY <1>0, <2>1, <2>2, Moves
  <2>4. ended' \in BOOLEAN
    BY <1>0, <1>6, Zenon DEF Call, Finish, EndExam, Regenerate, Retry, TypeOK
  <2>5. UNCHANGED <<row, job, run, logVars, viewVars, history>>
    BY <1>6 DEF Call, Finish, EndExam, Regenerate, Retry
  <2>6. TypeOK'
    BY <1>0, <2>3, <2>4, <2>5 DEF TypeOK, logVars, viewVars, history
  <2> QED
    BY <2>3, <2>5, <2>6, Untouched DEF history, IInv
<1>7. ASSUME NEW v \in Viewers, View(v) PROVE IInv'
  <2>1. v \in Tasks /\ v # Sweeper
    BY DEF Tasks, Requests
  <2>2. CASE ViewFile(v)
    <3>1. TypeOK'
      BY <1>0, <2>2 DEF ViewFile, Reply, TypeOK, logVars, history
    <3> QED
      BY <2>2, <3>1, Untouched DEF ViewFile, history, IInv
  <2>3. CASE Doubt(v)
    <3>1. pc' \in [Tasks -> Steps] /\ pc'[Sweeper] = pc[Sweeper]
      BY <1>0, <2>1, <2>3, Moves DEF Doubt, Steps
    <3>2. seen' \in [Viewers -> {"nothing", "hopeless", "underway", "open"}]
      BY <1>0, <2>3 DEF Doubt, Verdict, TypeOK
    <3>3. TypeOK'
      BY <1>0, <2>3, <3>1, <3>2 DEF Doubt, TypeOK, logVars, history
    <3> QED
      BY <2>3, <3>1, <3>3, Untouched DEF Doubt, history, IInv
  <2> QED
    BY <1>7, <2>2, <2>3 DEF View
<1>8. ASSUME NEW v \in Viewers, Decide(v) PROVE IInv'
  <2>1. v \in Tasks /\ v # Sweeper
    BY DEF Tasks, Requests
  <2>2. PICK to \in {"audit", "idle"} : Goto(v, "decide", to)
    BY <1>8 DEF Decide
  <2>3. pc' \in [Tasks -> Steps] /\ pc'[Sweeper] = pc[Sweeper]
    BY <1>0, <2>1, <2>2, Moves DEF Steps
  <2>4. waiting' \subseteq Viewers
    BY <1>0, <1>8 DEF Decide, Reply, TypeOK
  <2>5. seen' \in [Viewers -> {"nothing", "hopeless", "underway", "open"}]
    BY <1>0, <1>8 DEF Decide, TypeOK
  <2>6. TypeOK'
    BY <1>0, <1>8, <2>3, <2>4, <2>5 DEF Decide, TypeOK, logVars, history
  <2> QED
    BY <1>8, <2>3, <2>6, Untouched DEF Decide, history, IInv
<1>9. ASSUME NEW v \in Viewers, Audit(v) PROVE IInv'
  <2>1. v \in Tasks /\ v # Sweeper
    BY DEF Tasks, Requests
  <2>2. pc' \in [Tasks -> Steps] /\ pc'[Sweeper] = pc[Sweeper]
    BY <1>0, <1>9, <2>1, Moves DEF Audit, Steps, Enqueueing
  <2>3. waiting' \subseteq Viewers
    BY <1>0, <1>9 DEF Audit, Reply, TypeOK
  <2>4. autos' \in Nat /\ lostAudits' \in 0..LostAudits
    BY <1>0, <1>9 DEF Audit, TypeOK
  <2>5. cooling' \in BOOLEAN
    BY <1>0, <1>9, Zenon DEF Audit, TypeOK
  <2>6. TypeOK'
    BY <1>0, <1>9, <2>2, <2>3, <2>4, <2>5 DEF Audit, TypeOK, history
  <2> QED
    BY <1>9, <2>2, <2>6, Untouched DEF Audit, history, IInv
<1>10. CASE SweepSelect
  <2>1. pc' \in [Tasks -> Steps] /\ pc'[Sweeper] = "count"
    BY <1>0, <1>10, Moves DEF SweepSelect, Steps
  <2>2. TypeOK'
    BY <1>0, <1>10, <2>1 DEF SweepSelect, TypeOK, logVars, viewVars, history
  <2>3. NoticesCovered' /\ SweepingIsBounded'
    BY <1>0, <1>10 DEF SweepSelect, NoticesCovered, SweepingIsBounded, history
  <2>4. SweeperInv'
    BY <1>10, <2>1 DEF SweepSelect, Sweepable, SweeperInv
  <2> QED
    BY <2>2, <2>3, <2>4 DEF IInv
<1>11. CASE SweepCount
  <2>1. pc' \in [Tasks -> Steps] /\ pc[Sweeper] = "count" /\ pc'[Sweeper] = "upsert"
    BY <1>0, <1>11, Moves DEF SweepCount, Steps, Enqueueing
  <2>2. row.sweeps < SweepMax /\ row.sweeps \in Nat
    BY <1>0, <2>1 DEF SweeperInv, TypeOK
  <2>3. /\ row' \in [status: Statuses, permanent: BOOLEAN, age: 0..Stuck, sweeps: 0..SweepMax]
        /\ row'.sweeps = row.sweeps + 1
        /\ row'.status = row.status
    BY <1>0, <1>11, <2>2 DEF SweepCount, TypeOK
  <2>4. TypeOK'
    BY <1>0, <1>11, <2>1, <2>3 DEF SweepCount, TypeOK, logVars, viewVars, history
  <2>5. NoticesCovered' /\ SweepingIsBounded' /\ SweeperInv'
    BY <1>0, <1>11, <2>1, <2>2, <2>3
    DEF SweepCount, NoticesCovered, SweepingIsBounded, SweeperInv, TypeOK, history
  <2> QED
    BY <2>4, <2>5 DEF IInv
<1>12. CASE ClaimSent
  <2>1. /\ row' \in [status: Statuses, permanent: BOOLEAN, age: 0..Stuck, sweeps: 0..SweepMax]
        /\ row'.sweeps = row.sweeps
        /\ row'.status = "SENT"
    BY <1>0, <1>12 DEF ClaimSent, TypeOK, Statuses, Done, Stuck
  <2>2. TypeOK'
    BY <1>0, <1>12, <2>1 DEF ClaimSent, TypeOK, logVars, viewVars
  <2>3. NoticesCovered'
    BY <1>0, <1>12, <2>1 DEF ClaimSent, NoticesCovered, TypeOK
  <2> QED
    BY <1>12, <2>1, <2>2, <2>3, SweepsKept DEF ClaimSent, IInv
<1>13. CASE CalcTakes
  <2>1. /\ row' \in [status: Statuses, permanent: BOOLEAN, age: 0..Stuck, sweeps: 0..SweepMax]
        /\ completions' \in Nat
        /\ NoticesCovered' /\ SweepingIsBounded' /\ SweeperInv'
    BY <1>13, WorkerReports DEF CalcTakes
  <2>2. job' \in [state: {"none", "waiting", "active", "failed"}, tries: 0..(Attempts - 1)]
    BY <1>0, <1>13 DEF CalcTakes, TypeOK
  <2>3. TypeOK'
    BY <1>0, <1>13, <2>1, <2>2 DEF CalcTakes, TypeOK, logVars, viewVars
  <2> QED
    BY <2>1, <2>3 DEF IInv
<1>14. CASE CalcFails
  <2>1. /\ row' \in [status: Statuses, permanent: BOOLEAN, age: 0..Stuck, sweeps: 0..SweepMax]
        /\ completions' \in Nat
        /\ NoticesCovered' /\ SweepingIsBounded' /\ SweeperInv'
    BY <1>14, WorkerReports DEF CalcFails
  <2>2. job' \in [state: {"none", "waiting", "active", "failed"}, tries: 0..(Attempts - 1)]
    BY <1>0, <1>14 DEF CalcFails, TypeOK
  <2>3. TypeOK'
    BY <1>0, <1>14, <2>1, <2>2 DEF CalcFails, TypeOK, logVars, viewVars
  <2> QED
    BY <2>1, <2>3 DEF IInv
<1>15. ASSUME NEW r \in Runs, Render(r) PROVE IInv'
  <2>1. /\ row' \in [status: Statuses, permanent: BOOLEAN, age: 0..Stuck, sweeps: 0..SweepMax]
        /\ completions' \in Nat
        /\ NoticesCovered' /\ SweepingIsBounded' /\ SweeperInv'
    BY <1>15, WorkerReports
    DEF Render, CalcSucceeds, RenderCompletes, RenderFails, RenderRepeats, RenderStep
  <2>2. job' \in [state: {"none", "waiting", "active", "failed"}, tries: 0..(Attempts - 1)]
    <3>1. job' = NoJob \/ job' = job
      BY <1>15 DEF Render, CalcSucceeds, RenderCompletes, RenderFails, RenderRepeats, RenderStep
    <3> QED
      BY <1>0, <3>1 DEF NoJob, TypeOK
  <2>3. run' \in [Runs -> {"unused", "started", "reported", "over"}]
    BY <1>0, <1>15
    DEF Render, CalcSucceeds, RenderCompletes, RenderFails, RenderRepeats, RenderStep, TypeOK
  <2>4. UNCHANGED <<ended, logVars, pc, viewVars, notices, swept>>
    BY <1>15 DEF Render, CalcSucceeds, RenderCompletes, RenderFails, RenderRepeats, RenderStep
  <2>5. TypeOK'
    BY <1>0, <2>1, <2>2, <2>3, <2>4 DEF TypeOK, logVars, viewVars
  <2> QED
    BY <2>1, <2>5 DEF IInv
<1>16. CASE RowAges
  <2>1. /\ row' \in [status: Statuses, permanent: BOOLEAN, age: 0..Stuck, sweeps: 0..SweepMax]
        /\ row'.sweeps = row.sweeps
        /\ row'.status = row.status
    BY <1>0, <1>16 DEF RowAges, TypeOK, Stuck, Rested
  <2>2. TypeOK'
    BY <1>0, <1>16, <2>1 DEF RowAges, TypeOK, logVars, viewVars, history
  <2>3. NoticesCovered'
    BY <1>0, <1>16, <2>1 DEF RowAges, NoticesCovered, history
  <2> QED
    BY <1>16, <2>1, <2>2, <2>3, SweepsKept DEF RowAges, history, IInv
<1>17. CASE CooldownEnds
  <2>1. cooling' \in BOOLEAN
    BY <1>17 DEF CooldownEnds
  <2>2. TypeOK'
    BY <1>0, <1>17, <2>1 DEF CooldownEnds, TypeOK, viewVars, history
  <2> QED
    BY <1>17, <2>2, Untouched DEF CooldownEnds, history, IInv
<1>18. CASE UNCHANGED vars
  <2>1. TypeOK'
    BY <1>0, <1>18 DEF TypeOK, vars, logVars, viewVars, history
  <2> QED
    BY <1>18, <2>1, Untouched DEF vars, history, IInv
<1> QED
  BY <1>1, <1>2, <1>3, <1>4, <1>5, <1>6, <1>7, <1>8, <1>9, <1>10, <1>11, <1>12, <1>13,
     <1>14, <1>15, <1>16, <1>17, <1>18 DEF Next, Enqueue

-----------------------------------------------------------------------------
(* The theorems                                                            *)

\* The invariant holds in every reachable state.
LEMMA Invariance == Spec => []IInv
BY InitInv, StepInv, PTL DEF Spec, Safe

\* Every variable keeps its type; in particular no row is swept more often
\* than REPORT_SWEEP_MAX without a request in between (the sweeper of
\* report-pipeline.service.ts).
THEOREM TypeCorrect == Spec => []TypeOK
<1>1. IInv => TypeOK
  BY DEF IInv
<1> QED
  BY <1>1, Invariance, PTL

\* A report is announced at most once for each time it was completed
\* (claimSent of report.log.dao.ts).
THEOREM NoticesAreCovered == Spec => []NoticesCovered
<1>1. IInv => NoticesCovered
  BY DEF IInv
<1> QED
  BY <1>1, Invariance, PTL

\* The sweeper's two updates never let it outrun its own counter by more than
\* one, however they interleave with other requests.
THEOREM SweepingBounded == Spec => []SweepingIsBounded
<1>1. IInv => SweepingIsBounded
  BY DEF IInv
<1> QED
  BY <1>1, Invariance, PTL

-----------------------------------------------------------------------------
(* The refinement                                                          *)

\* The pipeline starts as a report that is absent.
LEMMA InitRefines == Init => Life!Init
BY DEF Init, Life!Init, phase, Inflight

\* A step that leaves the status and the counts alone is not seen.
LEMMA Unseen ==
  ASSUME UNCHANGED <<row, completions, notices>>
  PROVE  UNCHANGED Life!vars
BY DEF Life!vars, phase

\* What a worker reports is a step of the report's life, or is not seen.
LEMMA WorkerRefines ==
  ASSUME TypeOK, UNCHANGED notices,
         \/ Patch("WRITING", row.permanent)
         \/ Patch("COMPLETED", FALSE)
         \/ PatchFailure
         \/ Silent
  PROVE  [Life!Next]_(Life!vars)
<1>1. CASE Patch("WRITING", row.permanent)
  BY <1>1 DEF Patch, phase, Inflight, Life!Next, Life!Work
<1>2. CASE Patch("COMPLETED", FALSE)
  <2>1. phase # "absent" /\ phase' = "ready"
    BY <1>2 DEF TypeOK, Patch, phase, Inflight, Done, Statuses
  <2> QED
    BY <1>2, <2>1 DEF Patch, Life!Next, Life!Complete
<1>3. CASE PatchFailure
  <2>1. phase # "absent" /\ phase' = "failed" /\ completions' = completions
    BY <1>3 DEF TypeOK, PatchFailure, Patch, phase, Inflight, Done, Statuses
  <2> QED
    BY <2>1 DEF Life!Next, Life!Fail
<1>4. CASE Silent
  BY <1>4, Unseen DEF Silent
<1> QED
  BY <1>1, <1>2, <1>3, <1>4

\* Every step of the pipeline is a step of the report's life, or is not seen.
LEMMA StepRefines == TypeOK /\ [Next]_vars => [Life!Next]_(Life!vars)
<1> SUFFICES ASSUME TypeOK, [Next]_vars PROVE [Life!Next]_(Life!vars)
  OBVIOUS
<1>1. ASSUME NEW t \in Tasks, Upsert(t) PROVE [Life!Next]_(Life!vars)
  BY <1>1 DEF Upsert, phase, Inflight, Life!Next, Life!Work
<1>2. ASSUME NEW t \in Tasks, Look(t) \/ Remove(t) \/ Add(t) \/ Abort(t)
      PROVE  [Life!Next]_(Life!vars)
  BY <1>2, Unseen DEF Look, Remove, Add, Abort, history
<1>3. ASSUME NEW c \in Callers, Call(c) PROVE [Life!Next]_(Life!vars)
  BY <1>3, Unseen DEF Call, Finish, EndExam, Regenerate, Retry, history
<1>4. ASSUME NEW v \in Viewers, View(v) \/ Decide(v) \/ Audit(v) PROVE [Life!Next]_(Life!vars)
  BY <1>4, Unseen DEF View, ViewFile, Doubt, Decide, Audit, history
<1>5. CASE SweepSelect
  BY <1>5, Unseen DEF SweepSelect, history
<1>6. ASSUME row'.status = row.status, UNCHANGED <<completions, notices>>
      PROVE  [Life!Next]_(Life!vars)
  BY <1>6 DEF phase, Life!vars
<1>7. CASE SweepCount \/ RowAges
  <2>1. row'.status = row.status
    BY <1>7 DEF SweepCount, RowAges, TypeOK
  <2> QED
    BY <1>6, <1>7, <2>1 DEF SweepCount, RowAges, history
<1>8. CASE ClaimSent
  <2>1. phase = "ready" /\ phase' = "announced"
    BY <1>8 DEF ClaimSent, phase, Inflight
  <2> QED
    BY <1>8, <2>1 DEF ClaimSent, Life!Next, Life!Announce
<1>9. CASE CalcTakes \/ CalcFails
  BY <1>9, WorkerRefines DEF CalcTakes, CalcFails
<1>10. ASSUME NEW r \in Runs, Render(r) PROVE [Life!Next]_(Life!vars)
  BY <1>10, WorkerRefines
  DEF Render, CalcSucceeds, RenderCompletes, RenderFails, RenderRepeats, RenderStep
<1>11. CASE CooldownEnds
  BY <1>11, Unseen DEF CooldownEnds, history
<1>12. CASE UNCHANGED vars
  BY <1>12, Unseen DEF vars, history
<1> QED
  BY <1>1, <1>2, <1>3, <1>4, <1>5, <1>7, <1>8, <1>9, <1>10, <1>11, <1>12 DEF Next, Enqueue

\* The pipeline implements the life of a report: whoever interleaves with
\* whom, it is announced only when ready and once for each completion.
THEOREM Refinement == Spec => RefinesLife
<1>1. TypeOK /\ [Next]_vars => [Life!Next]_(Life!vars)
  BY StepRefines
<1> QED
  BY <1>1, InitRefines, TypeCorrect, PTL DEF Spec, Safe, RefinesLife, Life!Spec
=============================================================================

-------------------------------- MODULE Ops --------------------------------
(***************************************************************************)
(* What an operator does to the report of one exam: have it computed again *)
(* (trigger) or replace its PDF by hand (uploadPdf).  Both count the       *)
(* operator's audit rows of the last minute first and write their own last,*)
(* and both act on the status they read some calls earlier, while the      *)
(* pipeline computes the report and the status poll announces it.          *)
(*                                                                         *)
(* "working" stands for STARTED, CALCULATING, WRITING and UPLOADING.       *)
(***************************************************************************)
EXTENDS Naturals, FiniteSets

CONSTANTS
  Actions,      \* the operator's requests in flight
  OpsLimit,     \* OPS_RATE_PER_MIN
  MaxDone,      \* bound: completions of the report, those of crossed uploads included
  MaxActed      \* bound: requests of a minute that take effect

ASSUME OpsAssumption ==
  /\ IsFiniteSet(Actions)
  /\ OpsLimit \in Nat \ {0} /\ MaxDone \in Nat /\ MaxActed \in Nat

VARIABLES
  log,        \* status of the newest report_logs row; "none" without one
  stale,      \* that row has not been written for OPS_STALE_MS
  queued,     \* a calculation of the report is queued or running
  action,     \* where each request is, its mode, and the status it read
  audited,    \* rows of ops_action_log of the last minute
  acted,      \* history: requests of that minute that took effect
  lost,       \* history: of those, how many have no audit row for ever
  done,       \* history: times the report was completed
  mails,      \* history: times it was announced
  crossed     \* history: uploads that read the status before an announcement and wrote after it

opsVars == <<log, stale, queued, action, audited, acted, lost, done, mails, crossed>>
opsHistory == <<acted, lost, done, mails, crossed>>

Modes == {"recalculate", "regenerate", "retry"}
Resting == [at |-> "idle"]

OpsInit ==
  /\ log \in {"none", "FAILED", "SENT"} /\ stale = FALSE /\ queued = FALSE
  /\ action = [o \in Actions |-> Resting]
  /\ audited = 0 /\ acted = 0 /\ lost = 0 /\ done = 0 /\ mails = 0 /\ crossed = 0

Is(o, step) == action[o].at = step
Moves(o, record) == action' = [action EXCEPT ![o] = record]

Room == done + crossed < MaxDone

-----------------------------------------------------------------------------
(* How both begin and end                                                  *)

\* throttle counts the audit rows of the minute; the own one is written last.
Free == audited < OpsLimit

Request(o, m) ==
  /\ Is(o, "idle")
  /\ Free
  /\ Moves(o, IF m = "upload" THEN [at |-> "put"] ELSE [at |-> "read", mode |-> m])
  /\ UNCHANGED <<log, stale, queued, audited, opsHistory>>

\* audit swallows a failure.
Audit(o) ==
  /\ Is(o, "audit")
  /\ \/ audited' = audited + 1 /\ UNCHANGED lost
     \/ lost' = (IF action[o].took THEN lost + 1 ELSE lost) /\ UNCHANGED audited
  /\ Moves(o, Resting)
  /\ UNCHANGED <<log, stale, queued, acted, done, mails, crossed>>

\* The rows leave the window that the next count looks at.
MinutePasses ==
  /\ \A o \in Actions : Is(o, "idle")
  /\ audited' = 0 /\ acted' = 0 /\ lost' = 0
  /\ UNCHANGED <<log, stale, queued, action, done, mails, crossed>>

-----------------------------------------------------------------------------
(* trigger                                                                 *)

\* retry is for a failed report, and no mode for one that is being worked on.
ReadStatus(o) ==
  /\ Is(o, "read")
  /\ IF (action[o].mode = "retry" /\ log # "FAILED") \/ (log = "working" /\ ~stale)
       THEN Moves(o, Resting)
       ELSE Moves(o, [at |-> "enqueue"])
  /\ UNCHANGED <<log, stale, queued, audited, opsHistory>>

\* enqueueCalc makes the row PENDING, also when it then finds the job queued.
Enqueue(o) ==
  /\ Is(o, "enqueue")
  /\ queued \/ acted < MaxActed
  /\ log' = "PENDING" /\ stale' = FALSE
  /\ queued' = TRUE
  /\ acted' = IF queued THEN acted ELSE acted + 1
  /\ Moves(o, [at |-> "audit", took |-> ~queued])
  /\ UNCHANGED <<audited, lost, done, mails, crossed>>

-----------------------------------------------------------------------------
(* uploadPdf                                                               *)

\* The report server takes the file, or the failure is audited.
PutPdf(o) ==
  /\ Is(o, "put")
  /\ \/ Moves(o, [at |-> "look"]) /\ acted < MaxActed /\ acted' = acted + 1
     \/ Moves(o, [at |-> "audit", took |-> FALSE]) /\ UNCHANGED acted
  /\ UNCHANGED <<log, stale, queued, audited, lost, done, mails, crossed>>

LookAtLog(o) ==
  /\ Is(o, "look")
  /\ Moves(o, [at |-> "write", seen |-> log])
  /\ UNCHANGED <<log, stale, queued, audited, opsHistory>>

\* A slip: a report that was sent is made COMPLETED as well.
NextStatusAlways(seen) == "COMPLETED"

NextStatus(seen) == IF seen = "SENT" THEN "SENT" ELSE "COMPLETED"

\* updateById, or create for an exam that never had a row.
WriteLog(o) ==
  /\ Is(o, "write")
  /\ LET seen == action[o].seen IN
       /\ log' = NextStatus(seen) /\ stale' = FALSE
       /\ CASE seen = "SENT" \/ log = "COMPLETED" -> UNCHANGED <<done, crossed>>
            [] seen # "SENT" /\ log = "SENT" ->
                 Room /\ crossed' = crossed + 1 /\ UNCHANGED done
            [] OTHER -> Room /\ done' = done + 1 /\ UNCHANGED crossed
  /\ Moves(o, [at |-> "audit", took |-> TRUE])
  /\ UNCHANGED <<queued, audited, acted, lost, mails>>

\* A call throws or the replica goes down: no audit row is written.
BreakOff(o) ==
  /\ action[o].at \in {"read", "enqueue", "put", "look", "write"}
  /\ IF action[o].at \in {"look", "write"} THEN lost' = lost + 1
     ELSE UNCHANGED lost
  /\ Moves(o, Resting)
  /\ UNCHANGED <<log, stale, queued, audited, acted, done, mails, crossed>>

-----------------------------------------------------------------------------
(* The pipeline and the status poll meanwhile                              *)

WorkerReports(s) ==
  /\ queued
  /\ log' = s /\ stale' = FALSE
  /\ queued' = (s = "working")
  /\ IF s = "COMPLETED" THEN Room /\ done' = done + 1 ELSE UNCHANGED done
  /\ UNCHANGED <<action, audited, acted, lost, mails, crossed>>

RowGrowsOld == log = "working" /\ stale' = TRUE /\ UNCHANGED <<log, queued, action, audited, opsHistory>>

\* claimSent: a conditional UPDATE, and the mail is sent by the one that made it.
Announce ==
  /\ log = "COMPLETED"
  /\ log' = "SENT" /\ mails' = mails + 1
  /\ UNCHANGED <<stale, queued, action, audited, acted, lost, done, crossed>>

OpsNext ==
  \/ \E o \in Actions :
       \/ \E m \in Modes \cup {"upload"} : Request(o, m)
       \/ ReadStatus(o) \/ Enqueue(o)
       \/ PutPdf(o) \/ LookAtLog(o) \/ WriteLog(o)
       \/ BreakOff(o) \/ Audit(o)
  \/ MinutePasses
  \/ \E s \in {"working", "FAILED", "COMPLETED"} : WorkerReports(s)
  \/ RowGrowsOld
  \/ Announce

OpsSpec == OpsInit /\ [][OpsNext]_opsVars

-----------------------------------------------------------------------------
(* Properties                                                              *)

\* The comment in uploadPdf: a report that was announced stays SENT and is not
\* announced again because of the upload, any other is announced once.  It
\* holds but for uploads that read the status before the announcement and
\* wrote after it.
UploadsMailOnce == mails <= done + crossed

\* throttle: however requests overlap, an operator gets no more through in a
\* minute than the limit, those in flight at once, and those whose audit row
\* or whose last call was lost.
ActionsBounded == acted <= OpsLimit + lost + Cardinality(Actions) - 1

OpsSafe == UploadsMailOnce /\ ActionsBounded
=============================================================================

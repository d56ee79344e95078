------------------------------- MODULE Cleanup -------------------------------
(***************************************************************************)
(* The clean-up of exams by an administrator: a preview with a token, then *)
(* the report files, the recordings and at last the rows; meanwhile exams  *)
(* are taken, reports made and sold, recordings uploaded.                  *)
(*                                                                         *)
(* One recording of an exam and one clean-up at a time.  The ways to       *)
(* select exams are one: by their codes.  The services and users that a    *)
(* clean-up removes with their last exam are left out.                     *)
(***************************************************************************)
CONSTANTS ExamCodes

VARIABLES
  sitting,      \* the exam: open, started, left (three hours ago), over, gone
  reportJob,    \* none, running or stuck (for OPS_STALE_MS)
  sold,         \* codes with a paid report or service
  pdf,          \* codes with a report file
  recording,    \* media_object: none, pending, ready
  object,       \* codes with a recording in the storage
  token,        \* the plan of the last preview, or NoToken
  cleanup,      \* what the clean-up does
  lateFiles,    \* history: files written after they were to be deleted
  lateGuards    \* history: exams started, sold or reported after the plan

cleanupVars == <<sitting, reportJob, sold, pdf, recording, object, token, cleanup,
                 lateFiles, lateGuards>>

NoToken == [codes |-> {}, orphans |-> {}, chosen |-> {}, force |-> FALSE]
NoCleanup == [at |-> "idle"]

CleanupInit ==
  /\ sitting = [k \in ExamCodes |-> "open"]
  /\ reportJob = [k \in ExamCodes |-> "none"]
  /\ sold = {} /\ pdf = {} /\ object = {}
  /\ recording = [k \in ExamCodes |-> "none"]
  /\ token = NoToken
  /\ cleanup = NoCleanup
  /\ lateFiles = {} /\ lateGuards = {}

Exams == <<sitting, reportJob, sold>>
Files == <<pdf, recording, object>>

Cleaning == cleanup.at # "idle"
Planned(k) == Cleaning /\ k \in cleanup.codes

-----------------------------------------------------------------------------
(* What goes on besides *)

Guarding(k) == lateGuards' = IF Planned(k) THEN lateGuards \cup {k} ELSE lateGuards

Take(k) ==
  /\ \/ sitting[k] = "open" /\ sitting' = [sitting EXCEPT ![k] = "started"] /\ Guarding(k)
     \/ sitting[k] = "started" /\ sitting' = [sitting EXCEPT ![k] = "left"] /\ UNCHANGED lateGuards
     \/ sitting[k] \in {"started", "left"} /\ sitting' = [sitting EXCEPT ![k] = "over"]
        /\ UNCHANGED lateGuards
  /\ UNCHANGED <<reportJob, sold, Files, token, cleanup, lateFiles>>

Sell(k) ==
  /\ sitting[k] # "gone" /\ k \notin sold
  /\ sold' = sold \cup {k}
  /\ Guarding(k)
  /\ UNCHANGED <<sitting, reportJob, Files, token, cleanup, lateFiles>>

\* A first report or one more.
StartReport(k) ==
  /\ sitting[k] = "over" /\ reportJob[k] = "none"
  /\ reportJob' = [reportJob EXCEPT ![k] = "running"]
  /\ Guarding(k)
  /\ UNCHANGED <<sitting, sold, Files, token, cleanup, lateFiles>>

ReportStuck(k) ==
  /\ reportJob[k] = "running"
  /\ reportJob' = [reportJob EXCEPT ![k] = "stuck"]
  /\ UNCHANGED <<sitting, sold, Files, token, cleanup, lateFiles, lateGuards>>

\* A file written when those of the code have been, or may have been, deleted.
WrittenLate(k, steps) ==
  lateFiles' = IF sitting[k] = "gone" \/ (Planned(k) /\ cleanup.at \in steps)
               THEN lateFiles \cup {k} ELSE lateFiles

\* The calculation goes on after its rows have been deleted.
EndReport(k) ==
  /\ reportJob[k] # "none"
  /\ reportJob' = [reportJob EXCEPT ![k] = "none"]
  /\ pdf' \in {pdf, pdf \cup {k}}
  /\ WrittenLate(k, {"recordings", "objects", "records", "rows"})
  /\ UNCHANGED <<sitting, sold, recording, object, token, cleanup, lateGuards>>

\* presign: a row, if the exam is there, and a link to upload to.
Presign(k) ==
  /\ sitting[k] # "gone" /\ recording[k] = "none"
  /\ recording' = [recording EXCEPT ![k] = "pending"]
  /\ WrittenLate(k, {"objects", "records", "rows"})
  /\ UNCHANGED <<Exams, pdf, object, token, cleanup, lateGuards>>

\* The browser uploads; the link is good for 15 minutes, the row or not.
Upload(k) ==
  /\ recording[k] = "pending" \/ (Planned(k) /\ cleanup.at \in {"rows"} /\ k \in cleanup.found)
  /\ object' = object \cup {k}
  /\ WrittenLate(k, {"objects", "records", "rows"})
  /\ UNCHANGED <<Exams, pdf, recording, token, cleanup, lateGuards>>

\* complete: ready, or the file is not what was announced.
Complete(k) ==
  /\ recording[k] = "pending" /\ k \in object
  /\ \/ recording' = [recording EXCEPT ![k] = "ready"] /\ UNCHANGED object
     \/ recording' = [recording EXCEPT ![k] = "none"] /\ object' = object \ {k}
  /\ UNCHANGED <<Exams, pdf, token, cleanup, lateFiles, lateGuards>>

-----------------------------------------------------------------------------
(* The clean-up *)

Protected(k) == sitting[k] = "started" \/ k \in sold

\* plan(): what would be deleted of the chosen codes.
Plan(chosen, force) ==
  [chosen |-> chosen, force |-> force,
   orphans |-> {k \in chosen : sitting[k] = "gone"},
   codes |-> {k \in chosen : /\ sitting[k] # "gone" /\ reportJob[k] # "running"
                             /\ force \/ ~Protected(k)}]

Preview(chosen, force) ==
  /\ LET p == Plan(chosen, force) IN
     token' = IF p.codes \cup p.orphans = {} THEN NoToken ELSE p
  /\ UNCHANGED <<Exams, Files, cleanup, lateFiles, lateGuards>>

\* A slip: what was previewed is deleted without another look.
ApplyPreviewed ==
  /\ ~Cleaning /\ token # NoToken
  /\ cleanup' = [at |-> "files", codes |-> token.codes, orphans |-> token.orphans,
                 force |-> token.force, found |-> {}]
  /\ lateGuards' = {}
  /\ UNCHANGED <<Exams, Files, token, lateFiles>>

\* apply plans again, and goes on if the plan is the one of the token.
Apply ==
  /\ ~Cleaning /\ token # NoToken
  /\ token = Plan(token.chosen, token.force)
  /\ cleanup' = [at |-> "files", codes |-> token.codes, orphans |-> token.orphans,
                 force |-> token.force, found |-> {}]
  /\ lateGuards' = {}
  /\ UNCHANGED <<Exams, Files, token, lateFiles>>

TokenExpires ==
  /\ token # NoToken
  /\ token' = NoToken
  /\ UNCHANGED <<Exams, Files, cleanup, lateFiles, lateGuards>>

Proceed(to, failed) ==
  cleanup' = [at |-> to, codes |-> cleanup.codes \ failed, orphans |-> cleanup.orphans,
              force |-> cleanup.force, found |-> cleanup.found]

\* A slip: codes whose files could not be deleted go on.
DeleteAllFiles ==
  /\ cleanup.at = "files"
  /\ \E failed \in SUBSET (cleanup.codes \cup cleanup.orphans) :
       pdf' = pdf \ ((cleanup.codes \cup cleanup.orphans) \ failed)
  /\ Proceed("recordings", {})
  /\ UNCHANGED <<Exams, recording, object, token, lateFiles, lateGuards>>

\* deleteFiles: the report server answers for each code; where it failed, one
\* of the two copies of the file is left.  Or a batch fails as a whole.
DeleteFiles ==
  /\ cleanup.at = "files"
  /\ \E failed \in SUBSET (cleanup.codes \cup cleanup.orphans) :
       /\ pdf' = pdf \ ((cleanup.codes \cup cleanup.orphans) \ failed)
       /\ Proceed("recordings", failed) \/ cleanup' = NoCleanup
  /\ UNCHANGED <<Exams, recording, object, token, lateFiles, lateGuards>>

\* deleteByExamCodes reads the rows of media_object, ...
FindRecordings ==
  /\ cleanup.at = "recordings"
  /\ cleanup' = [at |-> "objects", codes |-> cleanup.codes, orphans |-> cleanup.orphans,
                 force |-> cleanup.force,
                 found |-> {k \in cleanup.codes : recording[k] # "none"}]
  /\ UNCHANGED <<Exams, Files, token, lateFiles, lateGuards>>

\* ... deletes the objects, of which some fail, ...
DeleteObjects ==
  /\ cleanup.at = "objects"
  /\ \E failed \in SUBSET cleanup.found :
       /\ object' = object \ (cleanup.found \ failed)
       /\ Proceed("records", failed)
  /\ UNCHANGED <<Exams, pdf, recording, token, lateFiles, lateGuards>>

\* ... and the rows of the others.
DeleteRecords ==
  /\ cleanup.at = "records"
  /\ recording' = [k \in ExamCodes |->
       IF k \in cleanup.found \cap cleanup.codes THEN "none" ELSE recording[k]]
  /\ Proceed("rows", {})
  /\ UNCHANGED <<Exams, pdf, object, token, lateFiles, lateGuards>>

\* The transaction.
DeleteRows ==
  /\ cleanup.at = "rows"
  /\ sitting' = [k \in ExamCodes |-> IF k \in cleanup.codes THEN "gone" ELSE sitting[k]]
  /\ cleanup' = NoCleanup
  /\ UNCHANGED <<reportJob, sold, Files, token, lateFiles, lateGuards>>

\* An error or the end of the process, anywhere.
StopCleanup ==
  /\ Cleaning
  /\ cleanup' = NoCleanup
  /\ UNCHANGED <<Exams, Files, token, lateFiles, lateGuards>>

CleanupNext ==
  \/ \E k \in ExamCodes :
       \/ Take(k) \/ Sell(k) \/ StartReport(k) \/ ReportStuck(k) \/ EndReport(k)
       \/ Presign(k) \/ Upload(k) \/ Complete(k)
  \/ \E chosen \in SUBSET ExamCodes, force \in BOOLEAN : Preview(chosen, force)
  \/ Apply \/ TokenExpires \/ DeleteFiles \/ FindRecordings \/ DeleteObjects
  \/ DeleteRecords \/ DeleteRows \/ StopCleanup

CleanupSpec == CleanupInit /\ [][CleanupNext]_cleanupVars

-----------------------------------------------------------------------------
(* What a clean-up leaves                                                  *)

\* An exam whose rows are gone leaves no file behind, but one that was
\* written after its files had been looked for: rows outlive files.
NothingLeftBehind ==
  \A k \in ExamCodes : sitting[k] = "gone" =>
    k \in lateFiles \/ (k \notin pdf \cup object /\ recording[k] = "none")

\* An exam under way, a paid one (both without force) or one with a running
\* report is deleted only if it became so after the plan of this very run.
GuardedStays ==
  [][\A k \in ExamCodes : sitting[k] # "gone" /\ sitting'[k] = "gone" =>
       \/ k \in lateGuards
       \/ reportJob[k] # "running" /\ (cleanup.force \/ ~Protected(k))]_cleanupVars
=============================================================================

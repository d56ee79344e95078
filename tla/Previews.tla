------------------------------ MODULE Previews ------------------------------
(***************************************************************************)
(* A trial exam of the studio: made without a service, taken in tabs as a  *)
(* real one, shown as a PDF that is not kept, and then deleted with all of *)
(* its data; trials left over for a day go when the next one is made.  The *)
(* tabs save the row of the exam as they read it, and repository.save      *)
(* inserts a row that is not there any more.                               *)
(***************************************************************************)
EXTENDS Naturals, FiniteSets

CONSTANTS
  Pages,         \* pages that take the trial
  MaxSaves      \* bound: requests of the tabs

ASSUME PreviewsAssumption == MaxSaves \in Nat

VARIABLES
  exam,         \* the row of the trial: "none", "open" or "ended"
  submitted,        \* userAnswer has rows of it
  old,          \* it was made more than a day ago
  tab,          \* the request of each tab, and what it read
  sweep,        \* the codes the next createStudioPreview read: nobody, or this trial
  pdf,          \* the PDF the studio asked for
  saves,
  tidy          \* history: it was deleted while no tab held the row to save it

previewVars == <<exam, submitted, old, tab, sweep, pdf, saves, tidy>>

NoRequest == [at |-> "none"]
PreviewsInit ==
  /\ exam = "none" /\ submitted = FALSE /\ old = FALSE /\ tab = [t \in Pages |-> NoRequest]
  /\ sweep = "none" /\ pdf = "none" /\ saves = 0 /\ tidy = FALSE

At(t, at) == tab[t].at = at
Put(t, record) == tab' = [tab EXCEPT ![t] = record]
Held == \E t \in Pages : tab[t].at \in {"save", "saveEnd"} /\ tab[t].row # "none"

\* Trials are told from other exams by the row, which keeps the mark.
CreatePreview ==
  /\ exam = "none" /\ ~old /\ ~tidy /\ saves = 0 /\ exam' = "open"
  /\ UNCHANGED <<submitted, old, tab, sweep, pdf, saves, tidy>>

-----------------------------------------------------------------------------
(* The tabs                                                                *)

\* exam/access, the registration form and updateByCode read the row and save it,
\* create and finish only look whether it is there.
StartRequest(t) ==
  /\ At(t, "none") /\ saves < MaxSaves /\ saves' = saves + 1 /\ exam # "none"
  /\ \E kind \in {"read", "submit", "finish"} : Put(t, [at |-> kind])
  /\ UNCHANGED <<exam, submitted, old, sweep, pdf, tidy>>

ReadToSave(t) ==
  /\ At(t, "read") \/ At(t, "end")
  /\ Put(t, [at |-> IF At(t, "read") THEN "save" ELSE "saveEnd", row |-> exam])
  /\ UNCHANGED <<exam, submitted, old, sweep, pdf, saves, tidy>>

\* A slip: the row is inserted even when it was not there to be read.
UpsertedAnyway(row, new) == new

\* Without the row there is no assessmentName, and the database refuses.
Upserted(row, new) == IF row = "none" THEN exam ELSE new

SaveTrial(t) ==
  /\ \/ At(t, "save") /\ exam' = Upserted(tab[t].row, tab[t].row)
     \/ At(t, "saveEnd") /\ exam' = Upserted(tab[t].row, "ended")
  /\ Put(t, NoRequest) /\ UNCHANGED <<submitted, old, sweep, pdf, saves, tidy>>

\* create looks for the exam, inserts the answers, of which each needs its exam,
\* and asks for no report of a trial.
FindTrial(t) ==
  /\ At(t, "submit") \/ At(t, "finish")
  /\ Put(t, IF exam = "none" THEN NoRequest
               ELSE [at |-> IF At(t, "submit") THEN "insert" ELSE "claim"])
  /\ UNCHANGED <<exam, submitted, old, sweep, pdf, saves, tidy>>
InsertAnswers(t) ==
  /\ At(t, "insert") /\ UNCHANGED <<exam, old, sweep, pdf, saves, tidy>>
  /\ IF exam = "none" THEN UNCHANGED submitted /\ Put(t, NoRequest)
     ELSE submitted' = TRUE /\ tab' \in {[tab EXCEPT ![t] = r] : r \in {NoRequest, [at |-> "end"]}}
ClaimTrial(t) ==
  /\ At(t, "claim") /\ Put(t, NoRequest)
  /\ exam' = IF exam = "open" THEN "ended" ELSE exam
  /\ UNCHANGED <<submitted, old, sweep, pdf, saves, tidy>>

-----------------------------------------------------------------------------
(* The studio                                                              *)

\* studioPreviewReport: the state, and then the PDF, made of what is stored then.
AskPdf ==
  /\ pdf = "none" /\ exam = "ended" /\ pdf' = "asked"
  /\ UNCHANGED <<exam, submitted, old, tab, sweep, saves, tidy>>
ShowPdf ==
  /\ pdf = "asked" /\ pdf' = (IF exam = "none" THEN "failed" ELSE "shown")
  /\ UNCHANGED <<exam, submitted, old, tab, sweep, saves, tidy>>

\* Answers and results first, the exam last, in one transaction.
Erased == FALSE

\* deletePreviewByCode.
Erase ==
  /\ exam' = "none" /\ submitted' = (IF exam = "none" THEN submitted ELSE Erased)
  /\ tidy' = (tidy \/ (exam # "none" /\ ~Held))
DeletePreview ==
  /\ Erase /\ (exam' # exam \/ submitted' # submitted)
  /\ UNCHANGED <<old, tab, sweep, pdf, saves>>

DayPasses ==
  /\ exam # "none" /\ ~old /\ old' = TRUE
  /\ UNCHANGED <<exam, submitted, tab, sweep, pdf, saves, tidy>>
\* A trial inserted again keeps the day it was made.
FindStale ==
  /\ old /\ exam # "none" /\ sweep = "none" /\ sweep' = "this"
  /\ UNCHANGED <<exam, submitted, old, tab, pdf, saves, tidy>>
\* An error is passed over, and the trial stays for the next time.
SweepStale ==
  /\ sweep = "this" /\ sweep' = "none"
  /\ Erase \/ UNCHANGED <<exam, submitted, tidy>>
  /\ UNCHANGED <<old, tab, pdf, saves>>

PreviewsNext ==
  \/ CreatePreview \/ AskPdf \/ ShowPdf \/ DeletePreview \/ DayPasses \/ FindStale \/ SweepStale
  \/ \E t \in Pages : \/ StartRequest(t) \/ ReadToSave(t) \/ SaveTrial(t) \/ FindTrial(t)
                     \/ InsertAnswers(t) \/ ClaimTrial(t)

PreviewsSpec == PreviewsInit /\ [][PreviewsNext]_previewVars

-----------------------------------------------------------------------------
\* A trial deleted while no request held its row stays deleted, whatever the
\* tabs that are still open send.
StaysDeleted == tidy => exam = "none"

\* Deleted, a trial leaves no answers, and none arrive later.
NoAnswersLeft == exam = "none" => ~submitted

PreviewsSafe == StaysDeleted /\ NoAnswersLeft
=============================================================================

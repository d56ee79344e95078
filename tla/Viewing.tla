------------------------------ MODULE Viewing ------------------------------
(***************************************************************************)
(* A browser asks for the PDF of a report (requestPdf) until it gets it.   *)
(* One request reads, one call after another, whether the report is sold   *)
(* and bought, whether the organisation hides it, the result, the newest   *)
(* row of report_logs and the file on the report server, and starts a new  *)
(* report when there is none to show.  Meanwhile the report is bought,     *)
(* hidden, made, lost, and the report server restarts.                     *)
(*                                                                         *)
(* The report is handed over as it is without REPORT_PIPELINE=v2: by HTTP, *)
(* several tries, with a row of its own when all of them fail.             *)
(* ReportPipeline models the other way.                                    *)
(***************************************************************************)
EXTENDS Naturals, FiniteSets

CONSTANTS
  Browsers,     \* browsers of the client who took one exam, which has ended
  Tries,        \* maxAttempts of a hand-over
  MaxAuto,      \* REPORT_AUTO_MAX: automatic reports of an exam in a day
  MaxChanges    \* bound: changes of price, purchase, visibility, server and file

ASSUME ViewingAssumption ==
  Tries \in Nat \ {0} /\ MaxAuto \in Nat /\ MaxChanges \in Nat /\ IsFiniteSet(Browsers)

VARIABLES
  priced, bought, visible,  \* it is sold; somebody bought it; it is not hidden
  result, file,             \* the result row and the PDF exist
  log,                      \* status of the newest row of report_logs
  server,                   \* how the report server answers
  jobs,                     \* hand-overs it accepted and has not begun
  view,                     \* where each request is, and what it read
  auto, recent,             \* rows report.auto of the day; one is under three minutes old
  hand,                     \* the try each browser's hand-over is at; 0 without one
  entitled,                 \* history: requests during which the report could be read
  lacking,                  \* history: requests during which it was not there to show
  owed,                     \* history: a report was asked for and nothing came of it yet
  changes

viewVars == <<priced, bought, visible, result, file, log, server, jobs, view, auto,
              recent, hand, entitled, lacking, owed, changes>>

\* Traefik answers for a server that restarts ("edge"), a busy one times out.
Servers == {"up", "down", "edge", "busy"}
Finished == {"COMPLETED"}
Away == [at |-> "away"]
GivenUp == Tries + 1

ViewInit ==
  /\ priced \in BOOLEAN /\ bought = FALSE /\ visible = TRUE /\ server = "up"
  /\ \/ log = "none" /\ result = FALSE /\ file = FALSE
     \/ log = "FAILED" /\ result = TRUE /\ file = FALSE
     \/ log = "COMPLETED" /\ result = TRUE /\ file = TRUE
  /\ jobs = 0 /\ auto = 0 /\ recent = FALSE
  /\ view = [b \in Browsers |-> Away] /\ hand = [b \in Browsers |-> 0]
  /\ entitled = {} /\ lacking = {} /\ owed = FALSE /\ changes = 0

Stage(b, at) == view[b].at = at
To(b, record) == view' = [view EXCEPT ![b] = record]
State == <<priced, bought, visible, result, file, log, server>>
Counted == <<auto, recent, hand, jobs, owed>>

-----------------------------------------------------------------------------
(* The request                                                             *)

Ask(b) ==
  /\ Stage(b, "away") /\ To(b, [at |-> "row"]) /\ UNCHANGED <<State, Counted>>

\* canDownload of a report with a price.
Downloadable == bought

\* resolve reads the exam and its price, and only then looks for a purchase.
\* Staff, and a client who bought the test, have nothing to pay (isExempt).
Resolve(b) ==
  /\ Stage(b, "row") /\ UNCHANGED <<State, Counted>>
  /\ To(b, [at |-> IF priced THEN "bill" ELSE "seen"])
ReadPaid(b) ==
  /\ Stage(b, "bill") /\ UNCHANGED <<State, Counted>>
  /\ To(b, IF Downloadable THEN [at |-> "seen"] ELSE Away)
\* getPdf.
ReadVisible(b) ==
  /\ Stage(b, "seen") /\ UNCHANGED <<State, Counted>>
  /\ To(b, IF visible THEN [at |-> "info"] ELSE Away)
\* getExamInfoByCode throws without a result.
ReadInfo(b) ==
  /\ Stage(b, "info") /\ UNCHANGED <<State, Counted>>
  /\ To(b, IF result /\ visible THEN [at |-> "log"] ELSE Away)
ReadLog(b) ==
  /\ Stage(b, "log") /\ UNCHANGED <<State, Counted>>
  /\ To(b, IF log \in Finished \cup {"none"}
           THEN [at |-> "fetch", log |-> log, try |-> 1]
           ELSE [at |-> "ensure", log |-> log, missing |-> FALSE])

\* A slip: any 404 means that the file is gone.
MissingAny == server = "edge" \/ (server = "up" /\ ~file)

\* classify: only the application's own 404 says so, Traefik's does not.
Missing == server = "up" /\ ~file

\* getReport: two tries, the second only after a refused connection or a 5xx.
FetchReport(b) ==
  /\ Stage(b, "fetch") /\ UNCHANGED <<State, Counted>>
  /\ To(b, IF Missing THEN [at |-> "ensure", log |-> view[b].log, missing |-> TRUE]
           ELSE IF server = "up" THEN [at |-> "read"]
           ELSE IF server = "down" /\ view[b].try = 1 THEN [view[b] EXCEPT !.try = 2]
           ELSE Away)
Close(b) == Stage(b, "read") /\ To(b, Away) /\ UNCHANGED <<State, Counted>>

\* decideEnsure waits for a report under way or just asked for, and gives up one
\* that failed for good or was asked for too often.
Declines(b) ==
  \/ view[b].log = "permanent" \/ view[b].log = "underway"
  \/ view[b].log \in Finished /\ ~view[b].missing
  \/ recent \/ auto >= MaxAuto
EnsureReport(b) ==
  /\ Stage(b, "ensure") /\ UNCHANGED <<State, Counted>>
  /\ To(b, IF Declines(b) THEN Away ELSE [at |-> "generate"])

\* The row report.auto, whose failure is only logged, and the hand-over behind
\* the reply.  Bound: one hand-over of a browser at a time.
Generate(b) ==
  /\ Stage(b, "generate") /\ hand[b] = 0 /\ To(b, Away)
  /\ \/ auto' = auto + 1 /\ recent' = TRUE
     \/ UNCHANGED <<auto, recent>>
  /\ hand' = [hand EXCEPT ![b] = 1] /\ owed' = TRUE
  /\ UNCHANGED <<State, jobs>>

-----------------------------------------------------------------------------
(* The hand-over                                                           *)

\* A timed out try may have been accepted all the same.
HandOver(b) ==
  /\ hand[b] \in 1..Tries
  /\ IF server = "up"
     THEN hand' = [hand EXCEPT ![b] = 0] /\ jobs' = jobs + 1
     ELSE /\ hand' = [hand EXCEPT ![b] = @ + 1]
          /\ jobs' \in {jobs} \cup (IF server = "busy" THEN {jobs + 1} ELSE {})
  /\ UNCHANGED <<State, view, auto, recent, owed>>

\* The row core-failed-... in report_logs, whose own failure is only logged.
RecordFailure ==
  \/ log' = "FAILED" /\ owed' = FALSE
  \/ log' = log /\ owed' = FALSE
GiveUp(b) ==
  /\ hand[b] = GivenUp /\ hand' = [hand EXCEPT ![b] = 0] /\ RecordFailure
  /\ UNCHANGED <<priced, bought, visible, result, file, server, jobs, view, auto, recent>>

-----------------------------------------------------------------------------
(* The report server, the operators and time                               *)

\* The end of the exam and the operators hand the report over as well.
OthersAsk ==
  /\ changes < MaxChanges /\ changes' = changes + 1 /\ jobs' = jobs + 1
  /\ UNCHANGED <<State, view, auto, recent, hand, owed>>

Begin ==
  /\ jobs > 0 /\ server # "down" /\ jobs' = jobs - 1 /\ log' = "underway" /\ owed' = FALSE
  /\ UNCHANGED <<priced, bought, visible, result, file, server, view, auto, recent, hand>>
\* The result is written before the PDF; an error may be a permanent one.
WriteResult ==
  /\ log = "underway" /\ ~result /\ result' = TRUE
  /\ UNCHANGED <<priced, bought, visible, file, log, server, view, Counted>>
Complete ==
  /\ log = "underway" /\ result /\ log' = "COMPLETED" /\ file' = TRUE
  /\ UNCHANGED <<priced, bought, visible, result, server, view, Counted>>
\* Ten minutes without a word make the row a stuck one.
Break ==
  /\ log = "underway" /\ log' \in {"FAILED", "permanent", "stale"}
  /\ UNCHANGED <<priced, bought, visible, result, file, server, view, Counted>>

\* Payment, prices, visibility, the disk and deployments change behind it.
Change ==
  /\ changes < MaxChanges /\ changes' = changes + 1 /\ UNCHANGED <<view, Counted>>
  /\ \/ bought' = TRUE /\ ~bought /\ UNCHANGED <<priced, visible, result, file, log, server>>
     \/ priced' = ~priced /\ UNCHANGED <<bought, visible, result, file, log, server>>
     \/ visible' = ~visible /\ UNCHANGED <<priced, bought, result, file, log, server>>
     \/ file' = FALSE /\ file /\ UNCHANGED <<priced, bought, visible, result, log, server>>
     \/ server' \in Servers \ {server} /\ UNCHANGED <<priced, bought, visible, result, file, log>>

\* All tries of a hand-over end within the three minutes.
Cool ==
  /\ recent /\ recent' = FALSE /\ \A b \in Browsers : hand[b] = 0
  /\ UNCHANGED <<State, view, auto, hand, jobs, owed>>
Tomorrow ==
  /\ auto > 0 /\ ~recent /\ auto' = 0 /\ UNCHANGED <<State, view, recent, hand, jobs, owed>>

Request(b) ==
  \/ Ask(b) \/ Resolve(b) \/ ReadPaid(b) \/ ReadVisible(b) \/ ReadInfo(b) \/ ReadLog(b)
  \/ FetchReport(b) \/ Close(b) \/ EnsureReport(b) \/ Generate(b)

\* What the properties compare a request with: all it could have seen.
Remember ==
  LET began == {b \in Browsers : Stage(b, "away") /\ view'[b] # Away}
      going == {b \in Browsers : view'[b] # Away}
  IN /\ entitled' = ((entitled \ began) \cap going)
                      \cup (IF ~priced' \/ bought' THEN going ELSE {})
     /\ lacking' = ((lacking \ began) \cap going)
                      \cup (IF log' \notin Finished \/ ~file' THEN going ELSE {})

ViewNext ==
  /\ \/ \E b \in Browsers : (Request(b) \/ HandOver(b) \/ GiveUp(b)) /\ UNCHANGED changes
     \/ (Begin \/ WriteResult \/ Complete \/ Break \/ Cool \/ Tomorrow) /\ UNCHANGED changes
     \/ Change \/ OthersAsk
  /\ Remember

ViewSpec == ViewInit /\ [][ViewNext]_viewVars

-----------------------------------------------------------------------------
ViewTypeOK ==
  /\ {priced, bought, visible, result, file, recent, owed} \subseteq BOOLEAN
  /\ log \in {"none", "underway", "stale", "FAILED", "permanent", "COMPLETED"}
  /\ server \in Servers /\ jobs \in Nat /\ auto \in 0..MaxAuto + Cardinality(Browsers)
  /\ hand \in [Browsers -> 0..GivenUp] /\ changes \in 0..MaxChanges
  /\ entitled \subseteq Browsers /\ lacking \subseteq Browsers

\* The PDF goes to a browser only if, at some moment of its request, it was
\* free or bought.
ReadWhenOpen == \A b \in Browsers : Stage(b, "read") => b \in entitled

\* A report is made again only if, at some moment of the request, it was not
\* finished or its file was gone: not because the report server restarted.
MadeForNeed == \A b \in Browsers : Stage(b, "generate") => b \in lacking

\* A report asked for does not vanish: it is being handed over, waits at the
\* report server, or has left a row (or the error of writing one).
NothingVanishes == owed => jobs > 0 \/ \E b \in Browsers : hand[b] > 0

ViewingSafe == ViewTypeOK /\ ReadWhenOpen /\ MadeForNeed /\ NothingVanishes
=============================================================================

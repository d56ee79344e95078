--------------------------- MODULE ServicesProofs ---------------------------
(***************************************************************************)
(* The queue of e-mails for any number of letters and tries, the paywall   *)
(* for any number of requests, confirmations, codes and prices, the        *)
(* clean-up for any number of exams, and the cache of definitions for any  *)
(* number of readers, writers and changes.                                 *)
(*                                                                         *)
(* E-mails: a job that can be tried again has no acceptance that was not   *)
(* counted as a doubt, or its row is deleted and it will never pass Mark.  *)
(* Paywall: a row in the database was priced when its request began and    *)
(* its quote never changes again (Priced); a confirmation that was told    *)
(* "paid" was told so of this row's own invoice (Confirming).  Clean-up:   *)
(* each stage has done its part for every code that is still in the plan,  *)
(* unless a file was written too late (Emptied).  Cache: what is kept is   *)
(* current, or someone who wrote has still to clear it.                    *)
(***************************************************************************)
EXTENDS Emails, ReportAccess, Cleanup, DefinitionCache, FiniteSetTheorems, TLAPS

-----------------------------------------------------------------------------
(* E-mails *)

Undoubted(e) == accepted[e] <= unsure[e]

NoSecondSend ==
  \A e \in Letters :
    /\ accepted[e] <= 1 + unsure[e]
    /\ job[e] \in {"none", "logged", "send", "limited", "refused"} => Undoubted(e)
    /\ job[e] \in {"waiting", "mark", "thrown"} => Undoubted(e) \/ log[e] = "deleted"
    /\ job[e] = "none" <=> log[e] = "none"

TriesLeft == \A e \in Letters : job[e] # "gone" => tries[e] < MaxTries

EmailInv == EmailTypeOK /\ TriesLeft /\ NoSecondSend

LEMMA EmailInitInv == EmailInit => EmailInv
BY EmailsAssumption DEF EmailInit, EmailInv, EmailTypeOK, TriesLeft, NoSecondSend, Undoubted

LEMMA EmailTypeStep == EmailInv /\ [EmailNext]_emailVars => EmailTypeOK' /\ TriesLeft'
<1> SUFFICES ASSUME EmailTypeOK, TriesLeft, [EmailNext]_emailVars
    PROVE  EmailTypeOK' /\ TriesLeft'
  BY DEF EmailInv
<1> USE EmailsAssumption DEF EmailTypeOK, TriesLeft, Active, Step
<1>1. ASSUME NEW e \in Letters, LogEmail(e) \/ Queue(e) \/ Unqueued(e) PROVE EmailTypeOK' /\ TriesLeft'
  BY <1>1 DEF LogEmail, Queue, Unqueued
<1>2. ASSUME NEW e \in Letters, TakeJob(e) \/ Mark(e) PROVE EmailTypeOK' /\ TriesLeft'
  BY <1>2 DEF TakeJob, Mark, Status
<1>3. ASSUME NEW e \in Letters, Send(e) PROVE EmailTypeOK' /\ TriesLeft'
  BY <1>3 DEF Send
<1>4. ASSUME NEW e \in Letters, Record(e) PROVE EmailTypeOK' /\ TriesLeft'
  BY <1>4 DEF Record, Status
<1>5. ASSUME NEW e \in Letters, Catch(e) PROVE EmailTypeOK' /\ TriesLeft'
  BY <1>5 DEF Catch, NextTry
<1>6. ASSUME NEW e \in Letters, Failing(e) PROVE EmailTypeOK' /\ TriesLeft'
  BY <1>6 DEF Failing, NextTry
<1>7. ASSUME NEW e \in Letters, Stall(e) \/ DeleteLog(e) PROVE EmailTypeOK' /\ TriesLeft'
  BY <1>7 DEF Stall, DeleteLog
<1>8. CASE UNCHANGED emailVars
  BY <1>8 DEF emailVars
<1>9. QED
  BY <1>1, <1>2, <1>3, <1>4, <1>5, <1>6, <1>7, <1>8 DEF EmailNext, Work

LEMMA EmailStep == EmailInv /\ [EmailNext]_emailVars => NoSecondSend'
<1> SUFFICES ASSUME EmailTypeOK, NoSecondSend, [EmailNext]_emailVars PROVE NoSecondSend'
  BY DEF EmailInv
<1> USE DEF EmailTypeOK, NoSecondSend, Undoubted, Active, Step
<1>1. ASSUME NEW e \in Letters, LogEmail(e) \/ Queue(e) \/ Unqueued(e) PROVE NoSecondSend'
  BY <1>1 DEF LogEmail, Queue, Unqueued
<1>2. ASSUME NEW e \in Letters, TakeJob(e) \/ Mark(e) PROVE NoSecondSend'
  BY <1>2 DEF TakeJob, Mark, Status
<1>3. ASSUME NEW e \in Letters, Send(e) PROVE NoSecondSend'
  BY <1>3 DEF Send
<1>4. ASSUME NEW e \in Letters, Record(e) PROVE NoSecondSend'
  BY <1>4 DEF Record, Status
<1>5. ASSUME NEW e \in Letters, Catch(e) PROVE NoSecondSend'
  BY <1>5 DEF Catch, NextTry
<1>6. ASSUME NEW e \in Letters, Failing(e) PROVE NoSecondSend'
  BY <1>6 DEF Failing, NextTry
<1>7. ASSUME NEW e \in Letters, Stall(e) \/ DeleteLog(e) PROVE NoSecondSend'
  BY <1>7 DEF Stall, DeleteLog
<1>8. CASE UNCHANGED emailVars
  BY <1>8 DEF emailVars
<1>9. QED
  BY <1>1, <1>2, <1>3, <1>4, <1>5, <1>6, <1>7, <1>8 DEF EmailNext, Work

\* The variables of Emails keep their types: among them, no job is tried more
\* than MaxTries times.
THEOREM EmailTypeCorrect == EmailSpec => []EmailTypeOK
<1>1. EmailInv /\ [EmailNext]_emailVars => EmailInv'
  BY EmailTypeStep, EmailStep DEF EmailInv
<1>2. EmailInv => EmailTypeOK
  BY DEF EmailInv
<1>3. QED
  BY EmailInitInv, <1>1, <1>2, PTL DEF EmailSpec

\* Resend takes no e-mail twice but for failures that hid that it had taken
\* it: neither BullMQ's retries nor a deleted row of the log repeat one.
THEOREM EmailSentOnce == EmailSpec => []SentOncePerDoubt
<1>1. EmailInv /\ [EmailNext]_emailVars => EmailInv'
  BY EmailTypeStep, EmailStep DEF EmailInv
<1>2. EmailInv => SentOncePerDoubt
  BY DEF EmailInv, NoSecondSend, SentOncePerDoubt
<1>3. QED
  BY EmailInitInv, <1>1, <1>2, PTL DEF EmailSpec

-----------------------------------------------------------------------------
(* The paywall *)

Priced ==
  \A b \in Bills :
    /\ bill[b] \in {"resolved", "counted", "created", "issued"} => quoted[b] > 0
    /\ bill[b] \in {"created", "issued"} => access[b] # "none"
    /\ access[b] # "none" => quoted[b] > 0 /\ bill[b] \in {"created", "issued", "done"}
    /\ b \in stored => access[b] # "none"

Covered(b) == b \in stored /\ paidSum[b] >= quoted[b]

Confirming ==
  /\ \A k \in Confirms, b \in Bills :
       /\ confirm[k] = <<"asking", b>> => b \in stored
       /\ confirm[k] = <<"paid", b>> => Covered(b)
  /\ \A b \in Bills : access[b] = "success" => Covered(b)

AccessInv == AccessTypeOK /\ Priced /\ Confirming

LEMMA AccessInitInv == AccessInit => AccessInv
BY AccessAssumption DEF AccessInit, AccessInv, AccessTypeOK, BillSteps, Priced, Confirming, Unconfirmed

LEMMA BillStep ==
  ASSUME AccessInv, NEW b \in Bills,
         ResolveAccess(b) \/ RateLimited(b) \/ CountRecent(b) \/ CreateAccess(b)
           \/ IssueInvoice(b) \/ SetInvoice(b) \/ RowLeavesWindow(b)
  PROVE  AccessInv'
<1> USE AccessAssumption DEF AccessInv, AccessTypeOK, BillSteps, Priced, Confirming, Covered,
                             Rows, Billing, RowsOf
<1>1. CASE ResolveAccess(b)
  BY <1>1 DEF ResolveAccess
<1>2. CASE RateLimited(b)
  BY <1>2 DEF RateLimited
<1>3. CASE CountRecent(b)
  BY <1>3 DEF CountRecent
<1>4. CASE CreateAccess(b)
  BY <1>4 DEF CreateAccess
<1>5. CASE IssueInvoice(b)
  BY <1>5 DEF IssueInvoice
<1>6. CASE SetInvoice(b)
  BY <1>6 DEF SetInvoice
<1>7. CASE RowLeavesWindow(b)
  BY <1>7 DEF RowLeavesWindow
<1>8. QED
  BY <1>1, <1>2, <1>3, <1>4, <1>5, <1>6, <1>7

LEMMA MoneyStep ==
  ASSUME AccessInv, NEW b \in Bills, NEW n \in 0..MaxPrice,
         SetPrice(n) \/ (n \in 1..MaxPrice /\ PayReport(b, n))
  PROVE  AccessInv'
<1> USE AccessAssumption DEF AccessInv, AccessTypeOK, BillSteps, Priced, Confirming, Covered,
                             Rows, Billing
<1>1. CASE SetPrice(n)
  BY <1>1 DEF SetPrice
<1>2. CASE n \in 1..MaxPrice /\ PayReport(b, n)
  BY <1>2 DEF PayReport
<1>3. QED
  BY <1>1, <1>2

LEMMA ConfirmStep ==
  ASSUME AccessInv, NEW k \in Confirms, NEW b \in Bills,
         FindAccess(k, b) \/ AskPaid(k, b) \/ MarkPaid(k, b)
  PROVE  AccessInv'
<1> USE AccessAssumption DEF AccessInv, AccessTypeOK, BillSteps, Priced, Confirming, Covered,
                             Rows, Billing, Unconfirmed
<1>1. CASE FindAccess(k, b)
  BY <1>1 DEF FindAccess
<1>2. CASE AskPaid(k, b)
  BY <1>2 DEF AskPaid
<1>3. CASE MarkPaid(k, b)
  BY <1>3 DEF MarkPaid
<1>4. QED
  BY <1>1, <1>2, <1>3

LEMMA AccessStep == AccessInv /\ [AccessNext]_accessVars => AccessInv'
<1> SUFFICES ASSUME AccessInv, [AccessNext]_accessVars PROVE AccessInv'
  OBVIOUS
<1>1. ASSUME NEW p \in 0..MaxPrice, SetPrice(p), Bills # {} PROVE AccessInv'
  BY <1>1, MoneyStep
<1>2. ASSUME NEW p \in 0..MaxPrice, SetPrice(p), Bills = {} PROVE AccessInv'
  BY <1>2 DEF SetPrice, AccessInv, AccessTypeOK, Priced, Confirming, Rows, Billing
<1>3. CASE UNCHANGED accessVars
  BY <1>3 DEF accessVars, AccessInv, AccessTypeOK, Priced, Confirming, Covered, Unconfirmed
<1>4. \A n \in 1..MaxPrice : n \in 0..MaxPrice
  BY AccessAssumption
<1>5. QED
  BY <1>1, <1>2, <1>3, <1>4, BillStep, MoneyStep, ConfirmStep DEF AccessNext

\* The variables of ReportAccess keep their types.
THEOREM AccessTypeCorrect == AccessSpec => []AccessTypeOK
<1>1. AccessInv => AccessTypeOK
  BY DEF AccessInv
<1>2. QED
  BY AccessInitInv, AccessStep, <1>1, PTL DEF AccessSpec

\* A report opens only for a payment, on its own invoice, of at least what the
\* buyer was quoted, however prices change and confirmations overlap.
THEOREM ReportsSoldForTheirPrice == AccessSpec => []SoldForItsPrice
<1>1. AccessInv => SoldForItsPrice
  BY DEF AccessInv, Priced, Confirming, Covered, SoldForItsPrice
<1>2. QED
  BY AccessInitInv, AccessStep, <1>1, PTL DEF AccessSpec

-----------------------------------------------------------------------------
(* The limit of invoices *)

RecentOf(b) == RowsOf(b) \cap recentRows

\* A request that has counted and was not overtaken finds the room it counted.
RoomLeft ==
  /\ IsFiniteSet(recentRows)
  /\ \A b \in Bills : bill[b] = "counted" /\ b \notin lateRows =>
       Cardinality(RecentOf(b)) < InvoiceMax

LimitInv == AccessTypeOK /\ RoomLeft /\ InvoicesBounded

\* Rows that leave, or are of a set no larger, leave room.
LEMMA FewerRows ==
  ASSUME NEW S, NEW T, IsFiniteSet(T), S \subseteq T
  PROVE  IsFiniteSet(S) /\ Cardinality(S) <= Cardinality(T)
         /\ Cardinality(S) \in Nat /\ Cardinality(T) \in Nat
BY FS_Subset, FS_CardinalityType

LEMMA OneMoreRow ==
  ASSUME NEW S, NEW x, IsFiniteSet(S)
  PROVE  IsFiniteSet(S \cup {x}) /\ Cardinality(S \cup {x}) <= Cardinality(S) + 1
<1>1. Cardinality(S) \in Nat
  BY FS_CardinalityType
<1>2. QED
  BY <1>1, FS_AddElement

LEMMA LimitInitInv == AccessInit => LimitInv
<1> SUFFICES ASSUME AccessInit PROVE LimitInv
  OBVIOUS
<1>1. AccessTypeOK
  BY AccessInitInv DEF AccessInv
<1>2. IsFiniteSet({}) /\ Cardinality({}) = 0
  BY FS_EmptySet
<1>3. \A c \in ReportCodes : {b \in recentRows \ lateRows : billCode[b] = c} = {}
  BY DEF AccessInit
<1>4. QED
  BY <1>1, <1>2, <1>3, AccessAssumption DEF AccessInit, LimitInv, RoomLeft, InvoicesBounded

\* Steps that add no row and start no other count.
LEMMA NoNewRow ==
  ASSUME LimitInv, AccessTypeOK', billCode' = billCode, recentRows' \subseteq recentRows,
         lateRows' = lateRows,
         \A b \in Bills : bill'[b] = "counted" => bill[b] = "counted" \/
           Cardinality(RecentOf(b)) < InvoiceMax
  PROVE  LimitInv'
<1> USE DEF LimitInv, AccessTypeOK
<1>1. IsFiniteSet(recentRows')
  BY FewerRows DEF RoomLeft
<1>2. ASSUME NEW b \in Bills, bill'[b] = "counted", b \notin lateRows'
      PROVE Cardinality(RecentOf(b)') < InvoiceMax
  <2>1. Cardinality(RecentOf(b)) < InvoiceMax
    BY <1>2 DEF RoomLeft
  <2>2. RecentOf(b)' \subseteq RecentOf(b) /\ IsFiniteSet(RecentOf(b))
    BY FewerRows DEF RoomLeft, RecentOf, RowsOf
  <2>3. QED
    BY <2>1, <2>2, FewerRows, AccessAssumption
<1>3. ASSUME NEW c \in ReportCodes
      PROVE Cardinality({b \in recentRows' \ lateRows' : billCode'[b] = c}) <= InvoiceMax
  <2> DEFINE S == {b \in recentRows \ lateRows : billCode[b] = c}
             T == {b \in recentRows' \ lateRows' : billCode'[b] = c}
  <2>1. T \subseteq S /\ S \subseteq recentRows
    OBVIOUS
  <2>2. IsFiniteSet(S)
    BY <2>1, FewerRows DEF RoomLeft
  <2>3. Cardinality(S) <= InvoiceMax
    BY DEF InvoicesBounded
  <2> HIDE DEF S, T
  <2>4. Cardinality(T) <= InvoiceMax
    BY <2>1, <2>2, <2>3, FewerRows, AccessAssumption
  <2>5. QED
    BY <2>4 DEF T
<1>4. QED
  BY <1>1, <1>2, <1>3 DEF RoomLeft, InvoicesBounded

LEMMA NewRow ==
  ASSUME LimitInv, AccessTypeOK', NEW b \in Bills, CreateAccess(b)
  PROVE  LimitInv'
<1> USE DEF LimitInv, AccessTypeOK, CreateAccess
<1>1. IsFiniteSet(recentRows') /\ IsFiniteSet(recentRows)
  BY FS_AddElement DEF RoomLeft
<1>2. ASSUME NEW a \in Bills, bill'[a] = "counted", a \notin lateRows'
      PROVE Cardinality(RecentOf(a)') < InvoiceMax
  <2>1. a # b /\ bill[a] = "counted" /\ a \notin lateRows /\ a \notin RowsOf(b)
    BY <1>2
  <2>2. billCode[a] # billCode[b]
    BY <2>1 DEF RowsOf
  <2>3. RecentOf(a)' = RecentOf(a)
    BY <2>2 DEF RecentOf, RowsOf
  <2>4. QED
    BY <2>1, <2>3 DEF RoomLeft
<1>3. ASSUME NEW c \in ReportCodes
      PROVE Cardinality({a \in recentRows' \ lateRows' : billCode'[a] = c}) <= InvoiceMax
  <2> DEFINE S == {a \in recentRows \ lateRows : billCode[a] = c}
             T == {a \in recentRows' \ lateRows' : billCode'[a] = c}
  <2>1. IsFiniteSet(S) /\ S \subseteq recentRows /\ IsFiniteSet(RecentOf(b))
    BY <1>1, FewerRows DEF RecentOf
  <2>2. Cardinality(S) <= InvoiceMax
    BY DEF InvoicesBounded
  <2>3. CASE b \in lateRows \/ billCode[b] # c
    <3>1. T \subseteq S
      BY <2>3
    <3> HIDE DEF S, T
    <3>2. Cardinality(T) <= InvoiceMax
      BY <3>1, <2>1, <2>2, FewerRows, AccessAssumption
    <3>3. QED
      BY <3>2 DEF T
  <2>4. CASE b \notin lateRows /\ billCode[b] = c
    <3>1. Cardinality(RecentOf(b)) < InvoiceMax
      BY <2>4 DEF RoomLeft
    <3>2. T \subseteq RecentOf(b) \cup {b}
      BY <2>4 DEF RecentOf, RowsOf
    <3>3. /\ IsFiniteSet(RecentOf(b) \cup {b})
          /\ Cardinality(RecentOf(b) \cup {b}) <= Cardinality(RecentOf(b)) + 1
      BY <2>1, OneMoreRow
    <3> HIDE DEF T
    <3>4. Cardinality(T) <= InvoiceMax
      BY <3>1, <3>2, <3>3, <2>1, FewerRows, FS_CardinalityType, AccessAssumption
    <3>5. QED
      BY <3>4 DEF T
  <2>5. QED
    BY <2>3, <2>4
<1>4. QED
  BY <1>1, <1>2, <1>3 DEF RoomLeft, InvoicesBounded

\* Within the window a code has at most InvoiceMax rows, but for requests that
\* another one overtook between its count and its insert.
THEOREM InvoicesLimited == AccessSpec => []InvoicesBounded
<1>1. AccessInv /\ LimitInv /\ [AccessNext]_accessVars => LimitInv'
  <2> SUFFICES ASSUME AccessInv, LimitInv, [AccessNext]_accessVars PROVE LimitInv'
    OBVIOUS
  <2>1. AccessTypeOK'
    BY AccessStep DEF AccessInv
  <2>2. ASSUME NEW b \in Bills, CreateAccess(b) PROVE LimitInv'
    BY <2>1, <2>2, NewRow
  <2>3. ASSUME NEW b \in Bills, CountRecent(b) PROVE LimitInv'
    <3>1. RecentOf(b) = RowsOf(b) \cap recentRows /\ IsFiniteSet(RecentOf(b))
      BY FewerRows DEF LimitInv, RoomLeft, RecentOf
    <3>2. \A a \in Bills : bill'[a] = "counted" => bill[a] = "counted" \/
            Cardinality(RecentOf(a)) < InvoiceMax
      <4>1. Cardinality(RecentOf(b)) \in Nat
        BY <3>1, FS_CardinalityType
      <4>2. bill'[b] = "counted" => Cardinality(RecentOf(b)) < InvoiceMax
        BY <2>3, <3>1, <4>1, AccessAssumption DEF CountRecent, LimitInv, AccessTypeOK
      <4>3. \A a \in Bills \ {b} : bill'[a] = bill[a]
        BY <2>3 DEF CountRecent, LimitInv, AccessTypeOK
      <4>4. QED
        BY <4>2, <4>3
    <3>3. QED
      BY <2>1, <2>3, <3>2, NoNewRow DEF CountRecent, Rows
  <2>4. ASSUME NEW b \in Bills,
               ResolveAccess(b) \/ RateLimited(b) \/ IssueInvoice(b) \/ SetInvoice(b)
                 \/ RowLeavesWindow(b)
        PROVE LimitInv'
    <3>1. /\ billCode' = billCode /\ recentRows' \subseteq recentRows /\ lateRows' = lateRows
          /\ \A a \in Bills : bill'[a] = "counted" => bill[a] = "counted"
      BY <2>4 DEF ResolveAccess, RateLimited, IssueInvoice, SetInvoice, RowLeavesWindow, Rows,
                  LimitInv, AccessTypeOK
    <3>2. QED
      BY <2>1, <3>1, NoNewRow
  <2>5. CASE UNCHANGED Billing
    BY <2>1, <2>5, NoNewRow DEF Billing
  <2>6. QED
    BY <2>2, <2>3, <2>4, <2>5 DEF AccessNext, SetPrice, PayReport, FindAccess, AskPaid, MarkPaid,
       Billing, accessVars
<1>2. LimitInv => InvoicesBounded
  BY DEF LimitInv
<1>3. QED
  BY AccessInitInv, LimitInitInv, AccessStep, <1>1, <1>2, PTL DEF AccessSpec

\* Both together: what the run checks of the paywall.
THEOREM AccessIsSafe == AccessSpec => []AccessSafe
<1>1. SoldForItsPrice /\ InvoicesBounded => AccessSafe
  BY DEF AccessSafe
<1>2. QED
  BY ReportsSoldForTheirPrice, InvoicesLimited, <1>1, PTL

-----------------------------------------------------------------------------
(* The clean-up *)

CleanupStages == {"files", "recordings", "objects", "records", "rows"}

Shape ==
  /\ sitting \in [ExamCodes -> {"open", "started", "left", "over", "gone"}]
  /\ reportJob \in [ExamCodes -> {"none", "running", "stuck"}]
  /\ recording \in [ExamCodes -> {"none", "pending", "ready"}]
  /\ Cleaning => cleanup.at \in CleanupStages

NoPdf(k) == k \in lateFiles \/ k \notin pdf
NoRecording(k) == k \in lateFiles \/ (recording[k] = "none" /\ k \notin object)

Emptied ==
  /\ \A k \in object : recording[k] # "none" \/ k \in lateFiles
  /\ \A k \in ExamCodes : sitting[k] = "gone" => NoPdf(k) /\ NoRecording(k)
  /\ \A k \in ExamCodes : Planned(k) =>
       /\ cleanup.at # "files" => NoPdf(k)
       /\ cleanup.at \in {"objects", "records"} /\ k \notin cleanup.found => NoRecording(k)
       /\ cleanup.at = "records" /\ k \in cleanup.found => k \in lateFiles \/ k \notin object
       /\ cleanup.at = "rows" => NoRecording(k)

CleanupInv == Shape /\ object \subseteq ExamCodes /\ Emptied

LEMMA CleanupInitInv == CleanupInit => CleanupInv
BY DEF CleanupInit, CleanupInv, Shape, Emptied, Cleaning, Planned, NoCleanup, NoPdf, NoRecording

\* What goes on beside a clean-up.
LEMMA BesideStep ==
  ASSUME CleanupInv, NEW k \in ExamCodes,
         Take(k) \/ Sell(k) \/ StartReport(k) \/ ReportStuck(k) \/ EndReport(k)
           \/ Presign(k) \/ Upload(k) \/ Complete(k)
  PROVE  CleanupInv'
<1> USE DEF CleanupInv, Shape, Emptied, Cleaning, Planned, NoPdf, NoRecording, CleanupStages,
            Exams, Files
<1>1. CASE Take(k) \/ Sell(k)
  BY <1>1 DEF Take, Sell
<1>2. CASE StartReport(k) \/ ReportStuck(k)
  BY <1>2 DEF StartReport, ReportStuck
<1>3. CASE EndReport(k)
  BY <1>3 DEF EndReport, WrittenLate
<1>4. CASE Presign(k)
  BY <1>4 DEF Presign, WrittenLate
<1>5. CASE Upload(k)
  BY <1>5 DEF Upload, WrittenLate
<1>6. CASE Complete(k)
  BY <1>6 DEF Complete
<1>7. QED
  BY <1>1, <1>2, <1>3, <1>4, <1>5, <1>6

LEMMA StageStep ==
  ASSUME CleanupInv,
         Apply \/ DeleteFiles \/ FindRecordings \/ DeleteObjects \/ DeleteRecords
           \/ DeleteRows \/ StopCleanup
  PROVE  CleanupInv'
<1> USE DEF CleanupInv, Shape, Emptied, Cleaning, Planned, NoPdf, NoRecording, CleanupStages,
            Exams, Files, NoCleanup, Proceed
<1>1. CASE Apply
  BY <1>1 DEF Apply
<1>2. CASE DeleteFiles
  BY <1>2 DEF DeleteFiles
<1>3. CASE FindRecordings
  BY <1>3 DEF FindRecordings
<1>4. CASE DeleteObjects
  BY <1>4 DEF DeleteObjects
<1>5. CASE DeleteRecords
  BY <1>5 DEF DeleteRecords
<1>6. CASE DeleteRows
  BY <1>6 DEF DeleteRows
<1>7. CASE StopCleanup
  BY <1>7 DEF StopCleanup
<1>8. QED
  BY <1>1, <1>2, <1>3, <1>4, <1>5, <1>6, <1>7

LEMMA CleanupStep == CleanupInv /\ [CleanupNext]_cleanupVars => CleanupInv'
<1> SUFFICES ASSUME CleanupInv, [CleanupNext]_cleanupVars PROVE CleanupInv'
  OBVIOUS
<1>1. CASE UNCHANGED <<Exams, Files, cleanup, lateFiles>>
  BY <1>1 DEF CleanupInv, Shape, Emptied, Cleaning, Planned, NoPdf, NoRecording, Exams, Files
<1>2. QED
  BY <1>1, BesideStep, StageStep DEF CleanupNext, Preview, TokenExpires, cleanupVars, Exams, Files

\* A removed exam leaves no report file and no recording behind, but one that
\* was written after its files had been looked for.
THEOREM CleanupLeavesNothing == CleanupSpec => []NothingLeftBehind
<1>1. CleanupInv => NothingLeftBehind
  BY DEF CleanupInv, Shape, Emptied, NoPdf, NoRecording, NothingLeftBehind
<1>2. QED
  BY CleanupInitInv, CleanupStep, <1>1, PTL DEF CleanupSpec

\* What was planned may still be deleted, or was disturbed since.
StillPlanned ==
  \A k \in ExamCodes : Planned(k) =>
    k \in lateGuards \/ (reportJob[k] # "running" /\ (cleanup.force \/ ~Protected(k)))

LEMMA StillPlannedStep ==
  CleanupInv /\ StillPlanned /\ [CleanupNext]_cleanupVars => StillPlanned'
<1> SUFFICES ASSUME CleanupInv, StillPlanned, [CleanupNext]_cleanupVars PROVE StillPlanned'
  OBVIOUS
<1> USE DEF CleanupInv, Shape, StillPlanned, Planned, Cleaning, Protected, Exams, Files
<1>1. ASSUME NEW k \in ExamCodes, Take(k) PROVE StillPlanned'
  BY <1>1 DEF Take, Guarding
<1>2. ASSUME NEW k \in ExamCodes, Sell(k) \/ StartReport(k) PROVE StillPlanned'
  BY <1>2 DEF Sell, StartReport, Guarding
<1>3. ASSUME NEW k \in ExamCodes, ReportStuck(k) \/ EndReport(k) PROVE StillPlanned'
  BY <1>3 DEF ReportStuck, EndReport
<1>4. ASSUME NEW k \in ExamCodes, Presign(k) \/ Upload(k) \/ Complete(k) PROVE StillPlanned'
  BY <1>4 DEF Presign, Upload, Complete
<1>5. CASE Apply
  <2>1. \A k \in token.codes : reportJob[k] # "running" /\ (token.force \/ ~Protected(k))
    BY <1>5 DEF Apply, Plan
  <2>2. QED
    BY <1>5, <2>1 DEF Apply
<1>6. CASE DeleteFiles \/ FindRecordings \/ DeleteObjects \/ DeleteRecords
  BY <1>6 DEF DeleteFiles, FindRecordings, DeleteObjects, DeleteRecords, Proceed, NoCleanup
<1>7. CASE DeleteRows \/ StopCleanup
  BY <1>7 DEF DeleteRows, StopCleanup, NoCleanup
<1>8. CASE UNCHANGED <<Exams, Files, cleanup, lateGuards>>
  BY <1>8
<1>9. QED
  BY <1>1, <1>2, <1>3, <1>4, <1>5, <1>6, <1>7, <1>8 DEF CleanupNext, Preview, TokenExpires, cleanupVars

\* No exam under way, paid or with a running report is removed unless it became
\* so after the plan of the run that removes it.
THEOREM CleanupKeepsGuarded == CleanupSpec => GuardedStays
<1> DEFINE Step1 == \A k \in ExamCodes : sitting[k] # "gone" /\ sitting'[k] = "gone" =>
       \/ k \in lateGuards
       \/ reportJob[k] # "running" /\ (cleanup.force \/ ~Protected(k))
<1>1. CleanupInit => StillPlanned
  BY DEF CleanupInit, StillPlanned, Planned, Cleaning, NoCleanup
<1>2. CleanupInv /\ StillPlanned /\ [CleanupNext]_cleanupVars => [Step1]_cleanupVars
  <2> SUFFICES ASSUME CleanupInv, StillPlanned, CleanupNext,
                      NEW k \in ExamCodes, sitting[k] # "gone", sitting'[k] = "gone"
               PROVE  k \in lateGuards \/ (reportJob[k] # "running" /\ (cleanup.force \/ ~Protected(k)))
    OBVIOUS
  <2>1. DeleteRows
    BY DEF CleanupNext, CleanupInv, Shape, Take, Sell, StartReport, ReportStuck, EndReport, Presign,
           Upload, Complete, Preview, Apply, TokenExpires, DeleteFiles, FindRecordings,
           DeleteObjects, DeleteRecords, StopCleanup, Exams, Files
  <2>2. Planned(k)
    BY <2>1 DEF DeleteRows, Planned, Cleaning, CleanupInv, Shape
  <2>3. QED
    BY <2>2 DEF StillPlanned
<1>3. QED
  BY CleanupInitInv, CleanupStep, StillPlannedStep, <1>1, <1>2, PTL DEF CleanupSpec, GuardedStays

-----------------------------------------------------------------------------
(* The definition cache                                                    *)

Keyed == [at : {"asked", "keyed", "load"}, core : Cores, key : Nat]
Loaded == [at : {"store", "set"}, core : Cores, key : Nat, value : Nat]
Working == [at : {"query"}, seen : Nat] \cup [at : {"clear", "incr"}]

CacheTypeOK ==
  /\ kind \in Kinds /\ table \in Nat /\ view \in Nat /\ epoch \in Nat /\ broken \in BOOLEAN
  /\ DOMAIN epochCopy = Cores /\ \A p \in Cores : epochCopy[p] \in Nat
  /\ read \in [Reads -> {Waiting} \cup Keyed \cup Loaded]
  /\ DOMAIN edit = DefEdits
  /\ refreshing \in [Cores -> {Waiting} \cup Working]

\* Nothing is kept, or about to be kept, under an epoch still to come.
KeysBounded ==
  /\ \A c \in cached : c[2] \in 0..epoch
  /\ \A p \in Cores : epochCopy[p] # Unknown => epochCopy[p] <= epoch
  /\ \A r \in Reads : read[r] # Waiting => read[r].key <= epoch

\* The view has the last edit, or a refresh that will read it is due, or the
\* one under way has read it.
ViewFollows ==
  /\ \A p, q \in Cores : refreshing[p].at = "query" /\ refreshing[q].at = "query" => p = q
  /\ timer = {} =>
       /\ \A p \in Cores : refreshing[p].at = "query" => refreshing[p].seen = table
       /\ (\A p \in Cores : refreshing[p].at # "query") => view = table

\* What is kept, or about to be kept, under the current epoch is the last version.
Current ==
  /\ \A c \in cached : c[2] = epoch => c[3] = Source
  /\ \A r \in Reads : read[r].at \in {"store", "set"} /\ read[r].key = epoch => read[r].value = Source

\* A change of the source is followed by a bump.
BumpDue ==
  IF kind = "questions" THEN \E d \in DefEdits : edit[d][1] \in {"committed", "cleared"}
                        ELSE \E p \in Cores : refreshing[p].at \in {"clear", "incr"}

CacheInv ==
  /\ CacheTypeOK
  /\ KeysBounded
  /\ ~broken => ViewFollows
  /\ ~broken /\ ~BumpDue => Current

LEMMA CacheInitInv == CacheInit => CacheInv
<1> SUFFICES ASSUME CacheInit PROVE CacheInv
  OBVIOUS
<1>1. broken \in BOOLEAN
  BY Zenon DEF CacheInit
<1>2. CacheTypeOK
  BY <1>1 DEF CacheInit, CacheTypeOK, Unknown
<1> QED
  BY <1>2 DEF CacheInit, CacheInv, KeysBounded, ViewFollows, Current, Source, Waiting, Unknown

\* A read goes on: with a key of the past, and a value that is the source's if
\* the key is the current epoch.
LEMMA ReadStep ==
  ASSUME CacheInv, NEW r \in Reads, NEW to \in {Waiting} \cup Keyed \cup Loaded,
         read' = [read EXCEPT ![r] = to],
         UNCHANGED <<kind, table, view, epoch, edit, timer, refreshing, broken>>,
         DOMAIN epochCopy' = Cores,
         \A p \in Cores : epochCopy'[p] \in Nat /\ (epochCopy'[p] # Unknown => epochCopy'[p] <= epoch),
         \A c \in cached' : c \in cached \/ c[2] \in 0..epoch,
         to # Waiting => to.key <= epoch,
         ~broken /\ ~BumpDue =>
           /\ \A c \in cached' : c[2] = epoch => c[3] = Source
           /\ to.at \in {"store", "set"} /\ to.key = epoch => to.value = Source
  PROVE  CacheInv'
<1>1. CacheTypeOK'
  BY DEF CacheInv, CacheTypeOK
<1>2. KeysBounded'
  BY DEF CacheInv, CacheTypeOK, KeysBounded
<1>3. ~broken' => ViewFollows'
  BY DEF CacheInv, ViewFollows
<1>4. ~broken' /\ ~BumpDue' => Current'
  <2>1. (BumpDue' <=> BumpDue) /\ Source' = Source
    BY DEF BumpDue, Source
  <2> QED BY <2>1 DEF CacheInv, CacheTypeOK, Current
<1> QED BY <1>1, <1>2, <1>3, <1>4 DEF CacheInv

LEMMA ReadingStep ==
  ASSUME CacheInv, NEW r \in Reads,
         (\E p \in Cores : AskEpoch(r, p)) \/ GotEpoch(r) \/ LookUp(r) \/ Load(r) \/ Store(r)
  PROVE  CacheInv'
<1> USE DEF CacheInv, CacheTypeOK
<1>1. ASSUME NEW p \in Cores, AskEpoch(r, p) PROVE CacheInv'
  <2> DEFINE to == IF epochCopy[p] = Unknown THEN [at |-> "asked", core |-> p, key |-> epoch]
                                             ELSE [at |-> "keyed", core |-> p, key |-> epochCopy[p]]
  <2>1. to \in Keyed /\ to.key <= epoch /\ to.at \notin {"store", "set"}
    BY DEF Keyed, KeysBounded
  <2>2. read' = [read EXCEPT ![r] = to]
        /\ UNCHANGED <<kind, table, view, epoch, epochCopy, cached, edit, timer, refreshing, broken>>
    BY <1>1 DEF AskEpoch, Reading
  <2> HIDE DEF to
  <2> QED BY <2>1, <2>2, ReadStep DEF KeysBounded, Current
<1>2. CASE GotEpoch(r)
  <2> DEFINE to == [read[r] EXCEPT !.at = "keyed"]
  <2>1. read[r] \in Keyed /\ read[r] # Waiting
    BY <1>2 DEF GotEpoch, Reading, Keyed, Loaded, Waiting
  <2>2. to \in Keyed /\ to.key = read[r].key /\ to.at \notin {"store", "set"} /\ read[r].key \in Nat
    BY <2>1 DEF Keyed
  <2>3. read' = [read EXCEPT ![r] = to] /\ epochCopy' = [epochCopy EXCEPT ![read[r].core] = read[r].key]
        /\ UNCHANGED <<kind, table, view, epoch, cached, edit, timer, refreshing, broken>>
    BY <1>2 DEF GotEpoch, Reading
  <2>4. to.key <= epoch
    BY <2>1, <2>2 DEF KeysBounded
  <2>5. DOMAIN epochCopy' = Cores
        /\ \A p \in Cores : epochCopy'[p] \in Nat /\ (epochCopy'[p] # Unknown => epochCopy'[p] <= epoch)
    BY <2>2, <2>3, <2>4 DEF KeysBounded
  <2> HIDE DEF to
  <2> QED BY <2>2, <2>3, <2>4, <2>5, ReadStep DEF KeysBounded, Current
<1>3. CASE LookUp(r)
  <2>1. read[r] \in Keyed /\ read[r] # Waiting
    BY <1>3 DEF LookUp, Keyed, Loaded, Waiting
  <2>2. read[r].key \in 0..epoch
    BY <2>1 DEF KeysBounded, Keyed
  <2> DEFINE to == IF Waiting = read'[r] THEN Waiting ELSE [read[r] EXCEPT !.at = "load"]
  <2>3. [read[r] EXCEPT !.at = "load"] \in Keyed /\ [read[r] EXCEPT !.at = "load"].key = read[r].key
    BY <2>1 DEF Keyed
  <2>4. read' = [read EXCEPT ![r] = to]
        /\ UNCHANGED <<kind, table, view, epoch, epochCopy, edit, timer, refreshing, broken>>
    BY <1>3 DEF LookUp, Reading
  <2>5. to = Waiting \/ (to \in Keyed /\ to.key = read[r].key)
    BY <2>3
  <2>6. \A c \in cached' : \/ c \in cached
                           \/ \E e \in cached : c[2] = e[2] /\ c[3] = e[3] /\ e[2] = read[r].key
    BY <1>3 DEF LookUp, Put, At
  <2> HIDE DEF to
  <2>7. /\ to \in {Waiting} \cup Keyed \cup Loaded /\ to.at \notin {"store", "set"}
        /\ to # Waiting => to.key <= epoch
    BY <2>2, <2>5 DEF Waiting, Keyed
  <2>8. \A c \in cached' : c \in cached \/ c[2] \in 0..epoch
    BY <2>2, <2>6
  <2>9. ~broken /\ ~BumpDue => \A c \in cached' : c[2] = epoch => c[3] = Source
    BY <2>6 DEF Current
  <2>10. \A p \in Cores : epochCopy[p] # Unknown => epochCopy[p] <= epoch
    BY DEF KeysBounded
  <2> QED BY <2>4, <2>7, <2>8, <2>9, <2>10, ReadStep
<1>4. CASE Load(r)
  <2> DEFINE to == [at |-> "store", core |-> read[r].core, key |-> read[r].key, value |-> Source]
  <2>1. read[r] \in Keyed /\ read[r] # Waiting
    BY <1>4 DEF Load, Reading, Keyed, Loaded, Waiting
  <2>2. to \in Loaded /\ to.key = read[r].key /\ to.value = Source
    BY <2>1 DEF Loaded, Keyed, Source
  <2>3. read' = [read EXCEPT ![r] = to]
        /\ UNCHANGED <<kind, table, view, epoch, epochCopy, cached, edit, timer, refreshing, broken>>
    BY <1>4 DEF Load, Reading
  <2> HIDE DEF to
  <2> QED BY <2>1, <2>2, <2>3, ReadStep DEF KeysBounded, Current
<1>5. CASE Store(r)
  <2>1. read[r] \in Loaded /\ read[r] # Waiting
    BY <1>5 DEF Store, Reading, Keyed, Loaded, Waiting
  <2>2. [read[r] EXCEPT !.at = "set"] \in Loaded /\ [read[r] EXCEPT !.at = "set"].key = read[r].key
        /\ [read[r] EXCEPT !.at = "set"].value = read[r].value
    BY <2>1 DEF Loaded
  <2>3. read[r].key \in 0..epoch /\ read[r].at \in {"store", "set"}
    BY <2>1 DEF KeysBounded, Loaded
  <2>4. PICK to \in {Waiting, [read[r] EXCEPT !.at = "set"]} :
          /\ read' = [read EXCEPT ![r] = to]
          /\ UNCHANGED <<kind, table, view, epoch, epochCopy, edit, timer, refreshing, broken>>
    BY <1>5 DEF Store, Reading
  <2>5. to = Waiting \/ (to \in Loaded /\ to.key = read[r].key /\ to.value = read[r].value)
    BY <2>2
  <2>6. \A c \in cached' : c \in cached \/ (c[2] = read[r].key /\ c[3] = read[r].value)
    BY <1>5 DEF Store, Put
  <2>7. to \in {Waiting} \cup Keyed \cup Loaded /\ (to # Waiting => to.key <= epoch)
    BY <2>3, <2>5
  <2>8. \A c \in cached' : c \in cached \/ c[2] \in 0..epoch
    BY <2>3, <2>6
  <2>9. ~broken /\ ~BumpDue =>
          /\ \A c \in cached' : c[2] = epoch => c[3] = Source
          /\ to.at \in {"store", "set"} /\ to.key = epoch => to.value = Source
    BY <2>3, <2>5, <2>6 DEF Current, Waiting
  <2>10. \A p \in Cores : epochCopy[p] # Unknown => epochCopy[p] <= epoch
    BY DEF KeysBounded
  <2> QED BY <2>4, <2>7, <2>8, <2>9, <2>10, ReadStep
<1> QED BY <1>1, <1>2, <1>3, <1>4, <1>5

\* Entries and copies may go at any time.
LEMMA FewerEntries ==
  ASSUME CacheInv, cached' \subseteq cached,
         DOMAIN epochCopy' = Cores, \A p \in Cores : epochCopy'[p] \in {epochCopy[p], Unknown},
         UNCHANGED <<kind, table, view, epoch, read, timer, broken>>,
         DOMAIN edit' = DefEdits, refreshing' \in [Cores -> {Waiting} \cup Working],
         \A p \in Cores : refreshing'[p].at = "query" <=> refreshing[p].at = "query",
         \A p \in Cores : refreshing[p].at = "query" => refreshing'[p] = refreshing[p],
         BumpDue => BumpDue'
  PROVE  CacheInv'
<1>1. CacheTypeOK'
  BY DEF CacheInv, CacheTypeOK, Unknown
<1>2. KeysBounded'
  BY DEF CacheInv, CacheTypeOK, KeysBounded
<1>3. ~broken' => ViewFollows'
  BY DEF CacheInv, ViewFollows
<1>4. ~broken' /\ ~BumpDue' => Current'
  BY DEF CacheInv, Current, Source
<1> QED BY <1>1, <1>2, <1>3, <1>4 DEF CacheInv

\* A new epoch is empty; a bump that fails is noted.
LEMMA IncrStep ==
  ASSUME CacheInv, Incr, UNCHANGED <<kind, table, view, epochCopy, cached, read, timer>>,
         DOMAIN edit' = DefEdits, refreshing' \in [Cores -> {Waiting} \cup Working],
         \A p \in Cores : refreshing'[p].at = "query" <=> refreshing[p].at = "query",
         \A p \in Cores : refreshing[p].at = "query" => refreshing'[p] = refreshing[p]
  PROVE  CacheInv'
<1>1. epoch' \in Nat /\ epoch' >= epoch /\ broken' \in BOOLEAN /\ (~broken' => epoch' = epoch + 1 /\ ~broken)
  <2>1. epoch \in Nat /\ broken \in BOOLEAN
    BY DEF CacheInv, CacheTypeOK
  <2>2. CASE epoch' = epoch + 1 /\ broken' = broken
    BY <2>1, <2>2
  <2>3. CASE epoch' = epoch /\ broken' = TRUE
    BY <2>1, <2>3
  <2> QED BY <2>2, <2>3 DEF Incr
<1>2. CacheTypeOK'
  BY <1>1 DEF CacheInv, CacheTypeOK
<1>3. \A c \in cached : c[2] \in 0..epoch
  BY DEF CacheInv, KeysBounded
<1>4. \A r \in Reads : read[r].at \in {"store", "set"} => read[r].key \in 0..epoch
  BY DEF CacheInv, CacheTypeOK, KeysBounded, Waiting, Keyed, Loaded
<1>5. \A r \in Reads : read[r] # Waiting => read[r].key \in Nat /\ read[r].key <= epoch
  BY DEF CacheInv, CacheTypeOK, KeysBounded, Keyed, Loaded
<1>6. KeysBounded'
  <2>1. \A p \in Cores : epochCopy[p] # Unknown => epochCopy[p] \in Nat /\ epochCopy[p] <= epoch
    BY DEF CacheInv, CacheTypeOK, KeysBounded
  <2>2. epoch \in Nat
    BY DEF CacheInv, CacheTypeOK
  <2> QED BY <1>1, <1>3, <1>5, <2>1, <2>2 DEF KeysBounded
<1>7. ~broken' => ViewFollows'
  BY <1>1 DEF CacheInv, ViewFollows
<1>8. ~broken' => Current'
  BY <1>1, <1>3, <1>4 DEF Current, CacheInv, CacheTypeOK
<1> QED BY <1>2, <1>6, <1>7, <1>8 DEF CacheInv

LEMMA EditingStep ==
  ASSUME CacheInv, NEW p \in Cores, NEW d \in DefEdits,
         CommitEdit(d, p) \/ BumpEdit(d, p) \/ LateCommit(d, p)
  PROVE  CacheInv'
<1>1. CASE CommitEdit(d, p)
  <2>1. edit' = [edit EXCEPT ![d] = <<"committed", p>>] /\ table' = table + 1 /\ timer' = timer \cup {p}
        /\ UNCHANGED <<kind, view, epoch, epochCopy, cached, read, refreshing, broken>>
    BY <1>1 DEF CommitEdit
  <2>2. edit[d] = <<"idle">> /\ edit'[d][1] = "committed"
    BY <1>1, <2>1 DEF CommitEdit, CacheInv, CacheTypeOK
  <2>3. CacheTypeOK' /\ KeysBounded'
    BY <2>1 DEF CacheInv, CacheTypeOK, KeysBounded
  <2>4. ~broken' => ViewFollows'
    BY <2>1 DEF CacheInv, ViewFollows
  <2>5. ~broken' /\ ~BumpDue' => Current'
    <3>1. CASE kind = "questions"
      BY <2>1, <2>2, <3>1 DEF BumpDue
    <3>2. CASE kind # "questions"
      BY <2>1, <3>2 DEF BumpDue, CacheInv, Current, Source
    <3> QED BY <3>1, <3>2
  <2> QED BY <2>3, <2>4, <2>5 DEF CacheInv
<1>2. CASE BumpEdit(d, p) /\ edit[d] = <<"committed", p>>
  <2>1. /\ edit' = [edit EXCEPT ![d] = <<"cleared", p>>] /\ ClearLocal(p)
        /\ UNCHANGED <<kind, table, view, epoch, read, timer, refreshing, broken>>
    BY <1>2 DEF BumpEdit
  <2>2. edit'[d][1] = "cleared" /\ DOMAIN edit' = DefEdits
    BY <2>1 DEF CacheInv, CacheTypeOK
  <2>3. BumpDue => BumpDue'
    BY <2>1, <2>2 DEF BumpDue
  <2>4. /\ cached' \subseteq cached /\ DOMAIN epochCopy' = Cores
        /\ \A q \in Cores : epochCopy'[q] \in {epochCopy[q], Unknown}
    BY <2>1 DEF ClearLocal, CacheInv, CacheTypeOK
  <2>5. refreshing' \in [Cores -> {Waiting} \cup Working]
    BY <2>1 DEF CacheInv, CacheTypeOK
  <2> QED BY <2>1, <2>2, <2>3, <2>4, <2>5, FewerEntries
<1>3. CASE BumpEdit(d, p) /\ edit[d] # <<"committed", p>>
  <2>1. Incr /\ UNCHANGED <<kind, table, view, epochCopy, cached, read, timer, refreshing>>
        /\ edit' = [edit EXCEPT ![d] = <<"done", p>>]
    BY <1>3 DEF BumpEdit
  <2>2. DOMAIN edit' = DefEdits /\ refreshing' \in [Cores -> {Waiting} \cup Working]
    BY <2>1 DEF CacheInv, CacheTypeOK
  <2> QED BY <2>1, <2>2, IncrStep
<1>4. CASE LateCommit(d, p)
  <2>1. edit' = [edit EXCEPT ![d] = <<"written">>] /\ table' = table + 1 /\ broken' = TRUE
        /\ UNCHANGED <<kind, view, epoch, epochCopy, cached, read, timer, refreshing>>
    BY <1>4 DEF LateCommit
  <2> QED BY <2>1 DEF CacheInv, CacheTypeOK, KeysBounded
<1> QED BY <1>1, <1>2, <1>3, <1>4

LEMMA RefreshingStep ==
  ASSUME CacheInv, NEW p \in Cores, FireTimer(p) \/ RefreshStep(p)
  PROVE  CacheInv'
<1> USE DEF CacheInv, CacheTypeOK
<1>1. CASE FireTimer(p)
  <2>1. UNCHANGED <<kind, table, view, epoch, epochCopy, cached, read, edit, broken>>
    BY <1>1 DEF FireTimer
  <2>2. CASE UNCHANGED <<timer, refreshing>>
    BY <2>1, <2>2 DEF KeysBounded, ViewFollows, Current, Source, BumpDue
  <2>3. CASE refreshing[p] = Waiting
    <3>1. /\ \A q \in Cores : refreshing[q].at # "query"
          /\ timer' = timer \ {p}
          /\ refreshing' = [refreshing EXCEPT ![p] = [at |-> "query", seen |-> table]]
      BY <1>1, <2>3 DEF FireTimer
    <3>2. [at |-> "query", seen |-> table] \in Working
      BY DEF Working
    <3>3. CacheTypeOK'
      BY <2>1, <3>1, <3>2
    <3>4. \A q \in Cores : q # p => refreshing'[q] = refreshing[q]
      BY <3>1
    <3>5. refreshing'[p].at = "query" /\ refreshing'[p].seen = table
      BY <3>1
    <3>6. ViewFollows'
      BY <2>1, <3>1, <3>4, <3>5 DEF ViewFollows
    <3>7. BumpDue' <=> BumpDue
      BY <2>1, <2>3, <3>4, <3>5 DEF BumpDue, Waiting
    <3> QED BY <2>1, <3>3, <3>6, <3>7 DEF KeysBounded, Current, Source
  <2> QED BY <1>1, <2>2, <2>3 DEF FireTimer
<1>2. CASE RefreshStep(p) /\ refreshing[p].at = "query"
  <2>1. UNCHANGED <<kind, table, read, edit, timer, epoch, epochCopy, cached>>
    BY <1>2 DEF RefreshStep, Refresh
  <2>2. CASE broken' = TRUE /\ refreshing' = [refreshing EXCEPT ![p] = Waiting] /\ view' = view
    BY <2>1, <2>2 DEF KeysBounded
  <2>3. CASE view' = refreshing[p].seen /\ refreshing' = [refreshing EXCEPT ![p] = [at |-> "clear"]]
             /\ broken' = broken
    <3>1. refreshing[p].seen \in Nat
      BY <1>2 DEF Waiting, Working
    <3>2. [at |-> "clear"] \in Working
      BY DEF Working
    <3>3. CacheTypeOK' /\ KeysBounded'
      BY <2>1, <2>3, <3>1, <3>2 DEF KeysBounded
    <3>4. refreshing'[p].at = "clear" /\ \A q \in Cores : q # p => refreshing'[q] = refreshing[q]
      BY <2>3
    <3>5. ~broken' => ViewFollows'
      BY <1>2, <2>1, <2>3, <3>4 DEF ViewFollows
    <3>6. ~broken' /\ ~BumpDue' => Current'
      BY <2>1, <2>3, <3>4 DEF BumpDue, Current, Source
    <3> QED BY <3>3, <3>5, <3>6
  <2> QED BY <1>2, <2>2, <2>3 DEF RefreshStep, Refresh
<1>3. CASE RefreshStep(p) /\ refreshing[p].at = "clear"
  <2>1. /\ refreshing' = [refreshing EXCEPT ![p] = [at |-> "incr"]] /\ ClearLocal(p)
        /\ UNCHANGED <<kind, table, view, epoch, read, edit, timer, broken>>
    BY <1>3 DEF RefreshStep, Refresh
  <2>2. [at |-> "incr"] \in Working
    BY DEF Working
  <2>3. refreshing' \in [Cores -> {Waiting} \cup Working] /\ refreshing'[p].at = "incr"
        /\ \A q \in Cores : q # p => refreshing'[q] = refreshing[q]
    BY <2>1, <2>2
  <2>4. /\ cached' \subseteq cached /\ DOMAIN epochCopy' = Cores
        /\ \A q \in Cores : epochCopy'[q] \in {epochCopy[q], Unknown}
    BY <2>1 DEF ClearLocal
  <2>5. BumpDue => BumpDue'
    BY <2>1, <2>3 DEF BumpDue
  <2> QED BY <1>3, <2>1, <2>3, <2>4, <2>5, FewerEntries
<1>4. CASE RefreshStep(p) /\ refreshing[p].at \notin {"query", "clear"}
  <2>1. /\ refreshing[p].at = "incr" /\ refreshing' = [refreshing EXCEPT ![p] = Waiting] /\ Incr
        /\ UNCHANGED <<kind, table, view, epochCopy, cached, read, edit, timer>>
    BY <1>4 DEF RefreshStep, Refresh
  <2>2. refreshing' \in [Cores -> {Waiting} \cup Working] /\ refreshing'[p].at = "idle"
        /\ \A q \in Cores : q # p => refreshing'[q] = refreshing[q]
    BY <2>1 DEF Waiting
  <2> QED BY <2>1, <2>2, IncrStep
<1> QED BY <1>1, <1>2, <1>3, <1>4

LEMMA CacheStep == CacheInv /\ [CacheNext]_cacheVars => CacheInv'
<1> SUFFICES ASSUME CacheInv, [CacheNext]_cacheVars PROVE CacheInv'
  OBVIOUS
<1>1. CASE UNCHANGED cacheVars
  BY <1>1 DEF cacheVars, CacheInv, CacheTypeOK, KeysBounded, ViewFollows, Current, Source, BumpDue
<1>2. ASSUME NEW p \in Cores, CopyExpires(p) PROVE CacheInv'
  <2>1. /\ DOMAIN epochCopy' = Cores /\ \A q \in Cores : epochCopy'[q] \in {epochCopy[q], Unknown}
        /\ UNCHANGED <<kind, table, view, epoch, cached, read, edit, timer, refreshing, broken>>
    BY <1>2 DEF CopyExpires, CacheInv, CacheTypeOK
  <2> QED BY <2>1, FewerEntries DEF CacheInv, CacheTypeOK, BumpDue
<1>3. ASSUME NEW c \in cached, EntryExpires(c) PROVE CacheInv'
  BY <1>3, FewerEntries DEF EntryExpires, CacheInv, CacheTypeOK, BumpDue
<1>4. ASSUME NEW p \in Cores, Down(p) PROVE CacheInv'
  <2>1. /\ broken' = TRUE /\ refreshing' = [refreshing EXCEPT ![p] = Waiting] /\ ClearLocal(p)
        /\ DOMAIN edit' = DefEdits
        /\ UNCHANGED <<kind, table, view, epoch>>
    BY <1>4 DEF Down
  <2>2. /\ cached' \subseteq cached /\ DOMAIN epochCopy' = Cores
        /\ \A q \in Cores : epochCopy'[q] \in {epochCopy[q], Unknown}
    BY <2>1 DEF ClearLocal, CacheInv, CacheTypeOK
  <2>3. read' \in [Reads -> {Waiting} \cup Keyed \cup Loaded]
        /\ \A r \in Reads : read'[r] # Waiting => read'[r] = read[r]
    BY <1>4 DEF Down, CacheInv, CacheTypeOK
  <2> QED BY <2>1, <2>2, <2>3 DEF CacheInv, CacheTypeOK, KeysBounded, Unknown
<1> QED
  BY <1>1, <1>2, <1>3, <1>4, ReadingStep, EditingStep, RefreshingStep DEF CacheNext

\* When edits and refreshes are over nothing stale is kept or about to be kept
\* under the current epoch, for any number of replicas, readers and edits
\* (DefinitionCache.getOrLoad, bump, ViewService.doRefresh).
THEOREM RestIsFresh == CacheSpec => []NothingStaleAtRest
<1>1. CacheInv => NothingStaleAtRest
  <2> SUFFICES ASSUME CacheInv, AtRest, ~broken PROVE view = table /\ Current
    BY DEF NothingStaleAtRest, Current
  <2>1. \A p \in Cores : refreshing[p].at = "idle"
    BY DEF AtRest, Waiting
  <2>2. ~BumpDue
    BY <2>1 DEF AtRest, BumpDue
  <2> QED BY <2>1, <2>2 DEF CacheInv, ViewFollows, AtRest
<1> QED BY <1>1, CacheInitInv, CacheStep, PTL DEF CacheSpec
=============================================================================

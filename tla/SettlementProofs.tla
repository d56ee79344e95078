-------------------------- MODULE SettlementProofs --------------------------
(***************************************************************************)
(* The safety of Settlement, for any number of services and requests, of   *)
(* the clients of QPay and e-barimt, and of the browsers that ask for a    *)
(* report.                                                                 *)
(*                                                                         *)
(* The argument: a row turns SUCCESS once, so that at most one request     *)
(* ever books a service, and where that request stands says exactly what   *)
(* is booked so far (Books).  An invoice found sufficient stays            *)
(* sufficient, because QPay never takes a payment back (Checked).          *)
(***************************************************************************)
EXTENDS Settlement, Clients, Viewing, FiniteSetTheorems, TLAPS

\* The services that a request is booking were opened by it alone.
SoleBooker ==
  /\ \A r \in Requests : pc[r] \in Booking => status[svc[r]] = "SUCCESS"
  /\ \A q, r \in Requests :
       pc[q] \in Booking /\ pc[r] \in Booking /\ svc[q] = svc[r] => q = r

\* What is booked for a service while its request is at location l.
BookedAt(l, s) ==
  /\ payments[s] = IF l = "bookPayment" THEN 0 ELSE 1
  /\ costs[s] = IF l = "receipt" THEN 1 ELSE 0
  /\ receipts[s] = 0

Books ==
  /\ \A r \in Requests : pc[r] \in Booking => BookedAt(pc[r], svc[r])
  /\ \A s \in Services :
       status[s] # "SUCCESS" =>
         payments[s] = 0 /\ costs[s] = 0 /\ receipts[s] = 0

\* A request works on a row that exists, on an invoice it knows.
Known ==
  /\ \A s \in Services : sale[s] = "new" => status[s] = "none"
  /\ \A r \in Requests :
       pc[r] # "idle" => status[svc[r]] # "none" /\ inv[r] \in Services

\* Past checkPayment the invoice covers the price.
Checked == \A r \in Requests : pc[r] = "claim" => paid[inv[r]] >= Price[svc[r]]

Inv ==
  /\ TypeOK
  /\ SoleBooker
  /\ Books
  /\ Known
  /\ Checked
  /\ BookedOnce
  /\ BooksComplete
  /\ PaidInFull
  /\ TruthfulAnswer

-----------------------------------------------------------------------------

LEMMA InitInv == Init => Inv
<1> SUFFICES ASSUME Init PROVE Inv
  OBVIOUS
<1>1. TypeOK
  BY SettlementAssumption DEF Init, TypeOK
<1>2. QED
  BY <1>1 DEF Init, Inv, SoleBooker, Books, BookedAt, Known, Checked, BookedOnce,
    BooksComplete, PaidInFull, TruthfulAnswer, Booking

LEMMA NextInv == Inv /\ [Next]_vars => Inv'
<1> SUFFICES ASSUME Inv, [Next]_vars PROVE Inv'
  OBVIOUS
<1> USE SettlementAssumption
<1> USE DEF Inv, TypeOK, SoleBooker, Books, BookedAt, Known, Checked, BookedOnce,
      BooksComplete, PaidInFull, TruthfulAnswer, Booking, Confirming, Goto,
      Finish, rowVars, qpayVars, reqVars, bookVars
<1>1. ASSUME NEW s \in Services, CreateRow(s) PROVE Inv'
  BY <1>1 DEF CreateRow, SaleStep
<1>2. ASSUME NEW s \in Services, CreateInvoice(s) PROVE Inv'
  BY <1>2 DEF CreateInvoice, SaleStep
<1>3. ASSUME NEW s \in Services, SetInvoiceId(s) PROVE Inv'
  BY <1>3 DEF SetInvoiceId, SaleStep
<1>4. ASSUME NEW s \in Services, SaleFails(s) PROVE Inv'
  BY <1>4 DEF SaleFails, SaleStep
<1>5. ASSUME NEW s \in Services, NEW n \in 1..MaxPaid, Pay(s, n) PROVE Inv'
  BY <1>5 DEF Pay
<1>6. ASSUME NEW r \in Requests, NEW s \in Services,
             NEW i \in Services \cup {NoInvoice}, Confirm(r, s, i)
      PROVE  Inv'
  <2>1. TypeOK'
    <3>1. pc' \in [Requests -> {"idle"} \cup Confirming \cup Booking]
      BY <1>6 DEF Confirm
    <3>2. answer' \in [Requests -> {"none", "settled", "already", "unpaid", "error"}]
      BY <1>6 DEF Confirm
    <3>3. QED
      BY <1>6, <3>1, <3>2 DEF Confirm
  <2>2. SoleBooker'
    BY <1>6 DEF Confirm
  <2>3. Books'
    BY <1>6 DEF Confirm
  <2>4. Known'
    BY <1>6 DEF Confirm
  <2>5. Checked'
    BY <1>6 DEF Confirm
  <2>6. (BookedOnce /\ BooksComplete /\ PaidInFull)'
    BY <1>6 DEF Confirm
  <2>7. TruthfulAnswer'
    BY <1>6 DEF Confirm
  <2>8. QED
    BY <2>1, <2>2, <2>3, <2>4, <2>5, <2>6, <2>7
<1>7. ASSUME NEW r \in Requests, FindByInvoice(r) PROVE Inv'
  <2>1. TypeOK'
    <3>1. pc' \in [Requests -> {"idle"} \cup Confirming \cup Booking]
      BY <1>7 DEF FindByInvoice
    <3>2. answer' \in [Requests -> {"none", "settled", "already", "unpaid", "error"}]
      BY <1>7 DEF FindByInvoice
    <3>3. QED
      BY <1>7, <3>1, <3>2 DEF FindByInvoice
  <2>2. SoleBooker'
    BY <1>7 DEF FindByInvoice
  <2>3. Books'
    BY <1>7 DEF FindByInvoice
  <2>4. Known'
    BY <1>7 DEF FindByInvoice
  <2>5. Checked'
    BY <1>7 DEF FindByInvoice
  <2>6. (BookedOnce /\ BooksComplete /\ PaidInFull)'
    BY <1>7 DEF FindByInvoice
  <2>7. TruthfulAnswer'
    BY <1>7 DEF FindByInvoice
  <2>8. QED
    BY <2>1, <2>2, <2>3, <2>4, <2>5, <2>6, <2>7
<1>8. ASSUME NEW r \in Requests, CheckPayment(r) PROVE Inv'
  <2>1. TypeOK'
    BY <1>8 DEF CheckPayment, Enough
  <2>2. SoleBooker'
    BY <1>8 DEF CheckPayment, Enough
  <2>3. Books'
    BY <1>8 DEF CheckPayment, Enough
  <2>4. Known'
    BY <1>8 DEF CheckPayment, Enough
  <2>5. Checked'
    BY <1>8 DEF CheckPayment, Enough
  <2>6. (BookedOnce /\ BooksComplete /\ PaidInFull)'
    BY <1>8 DEF CheckPayment, Enough
  <2>7. TruthfulAnswer'
    BY <1>8 DEF CheckPayment, Enough
  <2>8. QED
    BY <2>1, <2>2, <2>3, <2>4, <2>5, <2>6, <2>7
<1>9. ASSUME NEW r \in Requests, Claim(r) PROVE Inv'
  <2>1. TypeOK'
    <3>1. pc' \in [Requests -> {"idle"} \cup Confirming \cup Booking]
      BY <1>9 DEF Claim, Claimable
    <3>2. answer' \in [Requests -> {"none", "settled", "already", "unpaid", "error"}]
      BY <1>9 DEF Claim, Claimable
    <3>3. /\ status' \in [Services -> {"none", "PENDING", "SUCCESS"}]
          /\ bound' \in [Services -> Services \cup {NoInvoice}]
          /\ via' \in [Services -> Services \cup {NoInvoice}]
      <4>1. inv[r] \in Services /\ svc[r] \in Services
        BY <1>9 DEF Claim
      <4>2. QED
        BY <1>9, <4>1 DEF Claim, Claimable
    <3>4. QED
      BY <1>9, <3>1, <3>2, <3>3 DEF Claim
  <2>2. SoleBooker'
    BY <1>9 DEF Claim, Claimable
  <2>3. Books'
    BY <1>9 DEF Claim, Claimable
  <2>4. Known'
    BY <1>9 DEF Claim, Claimable
  <2>5. Checked'
    BY <1>9 DEF Claim, Claimable
  <2>6. (BookedOnce /\ BooksComplete /\ PaidInFull)'
    BY <1>9 DEF Claim, Claimable
  <2>7. TruthfulAnswer'
    BY <1>9 DEF Claim, Claimable
  <2>8. QED
    BY <2>1, <2>2, <2>3, <2>4, <2>5, <2>6, <2>7
<1>10. ASSUME NEW r \in Requests, BookPayment(r) PROVE Inv'
  BY <1>10 DEF BookPayment
<1>11. ASSUME NEW r \in Requests, BookCost(r) PROVE Inv'
  BY <1>11 DEF BookCost
<1>12. ASSUME NEW r \in Requests, Receipt(r) PROVE Inv'
  BY <1>12 DEF Receipt
<1>13. ASSUME NEW r \in Requests, Fail(r) PROVE Inv'
  BY <1>13 DEF Fail
<1>14. ASSUME UNCHANGED vars PROVE Inv'
  BY <1>14 DEF vars
<1>15. QED
  BY <1>1, <1>2, <1>3, <1>4, <1>5, <1>6, <1>7, <1>8, <1>9, <1>10, <1>11, <1>12,
    <1>13, <1>14 DEF Next, SaleNext, RequestNext, Callback, Poll

-----------------------------------------------------------------------------

LEMMA Invariance == Spec => []Inv
<1>1. QED
  BY InitInv, NextInv, PTL DEF Spec

\* Every variable of Settlement keeps its type.
THEOREM TypeCorrect == Spec => []TypeOK
<1>1. Inv => TypeOK
  BY DEF Inv
<1>2. QED
  BY Invariance, <1>1, PTL

\* recordPayment's three entries exist at most once for each service, however
\* many callbacks and polls confirm it.
THEOREM NoDoubleBooking == Spec => []BookedOnce
<1>1. Inv => BookedOnce
  BY DEF Inv
<1>2. QED
  BY Invariance, <1>1, PTL

\* An opened service is booked in full, is being booked, or lost its
\* bookkeeping to a failure of the request that opened it.
THEOREM NothingElseLosesBooks == Spec => []BooksComplete
<1>1. Inv => BooksComplete
  BY DEF Inv
<1>2. QED
  BY Invariance, <1>1, PTL

\* Both together: what the run checks of the books.
THEOREM BooksAreRight == Spec => []BookedRight
<1>1. BookedOnce /\ BooksComplete => BookedRight
  BY DEF BookedRight
<1>2. QED
  BY NoDoubleBooking, NothingElseLosesBooks, <1>1, PTL

\* The unique index: an invoice is bound to one row.
BoundOnce ==
  \A s, t \in Services : bound[s] = bound[t] /\ bound[s] # NoInvoice => s = t

LEMMA BoundOnceStep == Inv /\ BoundOnce /\ [Next]_vars => BoundOnce'
<1> SUFFICES ASSUME Inv, BoundOnce, [Next]_vars PROVE BoundOnce'
  OBVIOUS
<1> USE SettlementAssumption DEF Inv, TypeOK, BoundOnce, rowVars
<1>1. ASSUME NEW s \in Services, SetInvoiceId(s) PROVE BoundOnce'
  BY <1>1 DEF SetInvoiceId, Taken
<1>2. ASSUME NEW r \in Requests, Claim(r) PROVE BoundOnce'
  BY <1>2 DEF Claim, Refused, Taken
<1>3. ASSUME NEW s \in Services,
             \/ CreateRow(s) \/ CreateInvoice(s) \/ SaleFails(s)
             \/ \E n \in 1..MaxPaid : Pay(s, n)
      PROVE  BoundOnce'
  BY <1>3 DEF CreateRow, CreateInvoice, SaleFails, Pay
<1>4. ASSUME NEW r \in Requests,
             \/ \E s \in Services : Callback(r, s)
             \/ \E s, i \in Services : Poll(r, s, i)
             \/ FindByInvoice(r) \/ CheckPayment(r) \/ BookPayment(r) \/ BookCost(r)
             \/ Receipt(r) \/ Fail(r)
      PROVE  BoundOnce'
  BY <1>4 DEF Callback, Poll, Confirm, FindByInvoice, CheckPayment, BookPayment, BookCost,
    Receipt, Fail
<1>5. CASE UNCHANGED vars
  BY <1>5 DEF vars
<1>6. QED
  BY <1>1, <1>2, <1>3, <1>4, <1>5 DEF Next, SaleNext, RequestNext

\* However many polls name one invoice, it opens one row, but for a row whose
\* own invoice create wrote over it.
THEOREM OneRowPerInvoice == Spec => []InvoiceOpensOneRow
<1>1. Init => BoundOnce
  BY DEF Init, BoundOnce
<1>2. BoundOnce => InvoiceOpensOneRow
  BY DEF BoundOnce, InvoiceOpensOneRow
<1>3. QED
  BY Invariance, BoundOnceStep, <1>1, <1>2, PTL DEF Spec

\* A service opens only on an invoice paid with at least its price.
THEOREM OpensOnlyWhenPaid == Spec => []PaidInFull
<1>1. Inv => PaidInFull
  BY DEF Inv
<1>2. QED
  BY Invariance, <1>1, PTL

\* Both together: what the run checks of payments.
THEOREM OpenedByOwnPayment == Spec => []OpenedByPayment
<1>1. PaidInFull /\ InvoiceOpensOneRow => OpenedByPayment
  BY DEF OpenedByPayment
<1>2. QED
  BY OpensOnlyWhenPaid, OneRowPerInvoice, <1>1, PTL

\* confirmPending answers "settled" or "already" only of an open service.
THEOREM AnswersAreTrue == Spec => []TruthfulAnswer
<1>1. Inv => TruthfulAnswer
  BY DEF Inv
<1>2. QED
  BY Invariance, <1>1, PTL

\* A row that is SUCCESS never becomes anything else.
THEOREM SuccessIsFinal ==
  Spec => [][\A s \in Services : status[s] = "SUCCESS" => status'[s] = "SUCCESS"]_vars
<1>1. Inv /\ [Next]_vars =>
        [\A s \in Services : status[s] = "SUCCESS" => status'[s] = "SUCCESS"]_vars
  BY SettlementAssumption DEF Inv, TypeOK, Known, Next, SaleNext, RequestNext, CreateRow,
    CreateInvoice, SetInvoiceId, SaleFails, SaleStep, Pay, Callback, Poll,
    Confirm, FindByInvoice, CheckPayment, Claim, BookPayment, BookCost,
    Receipt, Fail, rowVars, vars
<1>2. QED
  BY Invariance, <1>1, PTL DEF Spec

-----------------------------------------------------------------------------
(* The clients of QPay and e-barimt                                        *)

Before == {"idle", "login", "send", "sent", "relogin", "resend", "resent", "waits", "post"}

\* Where a request is says how often it was carried out.
RanAt ==
  /\ DOMAIN at = Calls /\ ran \in [Calls -> {0, 1}]
  /\ \A c \in Calls : at[c] \in Before \cup {"carried", "recarried", "done", "failed"}
  /\ \A c \in Calls : at[c] \in Before => ran[c] = 0
  /\ \A c \in Calls : at[c] \in {"carried", "recarried", "done"} => ran[c] = 1

LEMMA ClientsStep == RanAt /\ [ClientsNext]_clientVars => RanAt'
<1> SUFFICES ASSUME RanAt, [ClientsNext]_clientVars PROVE RanAt'
  OBVIOUS
<1> USE DEF RanAt, Before, Move
<1>1. CASE UNCHANGED clientVars
  BY <1>1 DEF clientVars
<1>2. ASSUME NEW c \in QCalls,
             \/ EnsureValidToken(c) \/ AuthenticateFails(c) \/ Send(c) \/ Answer(c) \/ Refuse(c) \/ Lose(c)
             \/ \E t \in Tokens : Authenticate(c, t)
      PROVE  RanAt'
  BY <1>2 DEF EnsureValidToken, AuthenticateFails, Send, Answer, Refuse, Lose, Authenticate, Calls
<1>3. ASSUME NEW c \in Calls, Again(c) PROVE RanAt'
  BY <1>3 DEF Again
<1>4. ASSUME NEW c \in QCalls, CarryOut(c) PROVE RanAt'
  BY <1>4 DEF CarryOut, RanOnceMore, Calls
<1>5. ASSUME NEW c \in BCalls, Post(c) PROVE RanAt'
  BY <1>5 DEF Post, RanOnceMore, Calls
<1>6. ASSUME NEW c \in BCalls, LoginEbarimt(c) \/ Receive(c) \/ PostFails(c) PROVE RanAt'
  BY <1>6 DEF LoginEbarimt, Receive, PostFails, Calls
<1>7. ASSUME NEW ok \in BOOLEAN, GetNewToken(ok) PROVE RanAt'
  BY <1>7 DEF GetNewToken
<1>8. CASE DayPasses \/ TokenEnds \/ \E t \in Tokens : Revoke(t)
  BY <1>8 DEF DayPasses, TokenEnds, Revoke
<1> QED BY <1>1, <1>2, <1>3, <1>4, <1>5, <1>6, <1>7, <1>8 DEF ClientsNext, QPayNext, EbarimtNext, Calls

\* Whatever tokens expire or are refused and whatever answers are lost, no request
\* is carried out twice, and an answered one was (request, ensureValidToken,
\* getNewToken).
THEOREM NothingTwice == ClientsSpec => []CarriedOutOnce
<1>1. ClientsInit => RanAt
  BY DEF ClientsInit, RanAt, Before
<1>2. RanAt => CarriedOutOnce
  BY DEF RanAt, CarriedOutOnce, Before
<1> QED BY <1>1, <1>2, ClientsStep, PTL DEF ClientsSpec

-----------------------------------------------------------------------------
(* Browsers that ask for a report                                          *)

Generating == {b \in Browsers : Stage(b, "generate")}

\* ensureReport counts before it starts: who has counted may still start.
AutoBounded == auto + Cardinality(Generating) <= MaxAuto + Cardinality(Browsers)

Fetching == [at : {"fetch"}, log : {"none", "underway", "stale", "FAILED", "permanent", "COMPLETED"},
             try : {1, 2}]

ViewInv ==
  /\ \A b \in Browsers : Stage(b, "fetch") => view[b] \in Fetching
  /\ ViewTypeOK /\ auto \in Nat /\ DOMAIN view = Browsers
  /\ AutoBounded
  /\ \A b \in Browsers :
       view[b].at \in {"seen", "info", "log", "fetch", "read", "ensure", "generate"} => b \in entitled
  /\ \A b \in Browsers : view[b].at \in {"ensure", "generate"} => b \in lacking
  /\ NothingVanishes

LEMMA GeneratingBounded ==
  ASSUME NEW S, S = Generating
  PROVE  IsFiniteSet(S) /\ Cardinality(S) \in Nat /\ Cardinality(S) <= Cardinality(Browsers)
         /\ Cardinality(Browsers) \in Nat
<1>1. S \in SUBSET Browsers /\ IsFiniteSet(Browsers)
  BY ViewingAssumption DEF Generating
<1>2. IsFiniteSet(S) /\ Cardinality(S) <= Cardinality(Browsers)
  BY <1>1, FS_Subset
<1> QED BY <1>1, <1>2, FS_CardinalityType

\* What a step leaves as it is, when only the request of b goes on.
OnlyRequest(b) ==
  /\ \A c \in Browsers \ {b} : view'[c] = view[c]
  /\ DOMAIN view' = Browsers
  /\ UNCHANGED <<State, jobs, hand, owed, auto, recent, changes>>

\* Who was entitled, or lacked the report, still was while the request goes on.
LEMMA Remembered ==
  ASSUME Remember, NEW b \in Browsers, view'[b] # Away, ~(Stage(b, "away"))
  PROVE  /\ b \in entitled => b \in entitled'
         /\ b \in lacking => b \in lacking'
         /\ ~priced' \/ bought' => b \in entitled'
         /\ log' \notin Finished \/ ~file' => b \in lacking'
  BY DEF Remember

LEMMA RequestStep ==
  ASSUME ViewInv, Remember, NEW b \in Browsers, Request(b), UNCHANGED changes, ~Generate(b)
  PROVE  ViewInv'
<1> USE DEF ViewInv
<1>1. OnlyRequest(b)
  BY DEF Request, Ask, Resolve, ReadPaid, ReadVisible, ReadInfo, ReadLog, FetchReport, Close,
         EnsureReport, To, OnlyRequest, Counted, State
<1>2. ASSUME FetchReport(b)
      PROVE  \/ view'[b].at = "ensure" /\ Missing
             \/ view'[b].at \in {"read", "away"}
             \/ view'[b] \in Fetching
  <2>1. view[b] \in Fetching
    BY <1>2 DEF FetchReport
  <2>2. view[b].try = 1 => [view[b] EXCEPT !.try = 2] \in Fetching
    BY <2>1 DEF Fetching
  <2> QED BY <1>2, <2>2 DEF FetchReport, To, Away
<1>9. \A c \in Browsers : Stage(c, "fetch")' => view'[c] \in Fetching
  <2>1. Stage(b, "fetch")' => view'[b] \in Fetching
    <3>1. CASE FetchReport(b)
      BY <1>2, <3>1 DEF Stage, Fetching
    <3>2. CASE ReadLog(b)
      BY <3>2 DEF ReadLog, To, Stage, Fetching, Finished, ViewTypeOK
    <3>3. CASE ~FetchReport(b) /\ ~ReadLog(b)
      BY <3>3 DEF Request, Ask, Resolve, ReadPaid, ReadVisible, ReadInfo, Close, EnsureReport, To,
                  Stage, Away
    <3> QED BY <3>1, <3>2, <3>3
  <2> QED BY <1>1, <2>1 DEF OnlyRequest, Stage
<1>3. entitled' \subseteq Browsers /\ lacking' \subseteq Browsers
  BY DEF ViewTypeOK, Remember
<1>4. ViewTypeOK' /\ NothingVanishes'
  BY <1>1, <1>3 DEF ViewTypeOK, OnlyRequest, NothingVanishes, State
<1>5. ASSUME NEW c \in Browsers,
             view'[c].at \in {"seen", "info", "log", "fetch", "read", "ensure", "generate"}
      PROVE  c \in entitled'
  <2>1. view'[c] # Away
    BY <1>5 DEF Away
  <2>2. CASE c # b
    <3>1. ~Stage(c, "away") /\ c \in entitled
      BY <1>1, <1>5, <2>2 DEF OnlyRequest, Stage
    <3> QED BY <2>1, <3>1, Remembered
  <2>3. CASE c = b
    <3>1. ~Stage(b, "away")
      BY <1>5, <2>3 DEF Request, Ask, Resolve, ReadPaid, ReadVisible, ReadInfo, ReadLog, FetchReport,
           Close, EnsureReport, To, Stage, Away
    <3>2. b \in entitled \/ ~priced' \/ bought'
      BY <1>1, <1>5, <2>3 DEF Request, Ask, Resolve, ReadPaid, ReadVisible, ReadInfo, ReadLog,
           FetchReport, Close, EnsureReport, To, Stage, Away, OnlyRequest, State, Downloadable
    <3> QED BY <2>1, <2>3, <3>1, <3>2, Remembered
  <2> QED BY <2>2, <2>3
<1>6. ASSUME NEW c \in Browsers, view'[c].at \in {"ensure", "generate"}
      PROVE  c \in lacking'
  <2>1. view'[c] # Away
    BY <1>6 DEF Away
  <2>2. CASE c # b
    <3>1. ~Stage(c, "away") /\ c \in lacking
      BY <1>1, <1>6, <2>2 DEF OnlyRequest, Stage
    <3> QED BY <2>1, <3>1, Remembered
  <2>3. CASE c = b
    <3>1. ~Stage(b, "away")
      BY <1>6, <2>3 DEF Request, Ask, Resolve, ReadPaid, ReadVisible, ReadInfo, ReadLog, FetchReport,
           Close, EnsureReport, To, Stage, Away
    <3>2. b \in lacking \/ log' \notin Finished \/ ~file'
      <4>1. CASE FetchReport(b)
        BY <1>1, <1>2, <1>6, <2>3, <4>1 DEF Fetching, Missing, OnlyRequest, State
      <4>2. CASE ~FetchReport(b)
        BY <1>1, <1>6, <2>3, <4>2 DEF Request, Ask, Resolve, ReadPaid, ReadVisible, ReadInfo, ReadLog,
           Close, EnsureReport, To, Stage, Away, OnlyRequest, State
      <4> QED BY <4>1, <4>2
    <3> QED BY <2>1, <2>3, <3>1, <3>2, Remembered
  <2> QED BY <2>2, <2>3
<1>7. AutoBounded'
  <2>1. IsFiniteSet(Generating) /\ Cardinality(Generating) \in Nat
        /\ Cardinality(Generating) <= Cardinality(Browsers) /\ Cardinality(Browsers) \in Nat
    BY GeneratingBounded
  <2>2. auto' = auto
    BY <1>1 DEF OnlyRequest
  <2>3. CASE ~Stage(b, "generate")'
    <3>1. Generating' \subseteq Generating
      BY <1>1, <2>3 DEF OnlyRequest, Generating, Stage
    <3>2. Cardinality(Generating') <= Cardinality(Generating) /\ Cardinality(Generating') \in Nat
      BY <2>1, <3>1, FS_Subset, FS_CardinalityType
    <3> QED BY <2>1, <2>2, <3>2, ViewingAssumption DEF AutoBounded
  <2>4. CASE Stage(b, "generate")'
    <3>1. EnsureReport(b)
      <4>1. ~FetchReport(b)
        BY <1>2, <2>4 DEF Stage, Fetching
      <4> QED BY <2>4, <4>1 DEF Request, Ask, Resolve, ReadPaid, ReadVisible, ReadInfo, ReadLog,
           Close, To, Stage, Away
    <3>2. auto < MaxAuto
      BY <2>4, <3>1, ViewingAssumption DEF EnsureReport, To, Stage, Away, Declines
    <3>3. \A S : S = Generating' => Cardinality(S) <= Cardinality(Browsers) /\ Cardinality(S) \in Nat
      <4> TAKE S
      <4> HAVE S = Generating'
      <4>1. S \in SUBSET Browsers /\ IsFiniteSet(Browsers)
        BY ViewingAssumption DEF Generating
      <4> QED BY <4>1, FS_Subset, FS_CardinalityType
    <3> QED BY <2>1, <2>2, <3>2, <3>3, ViewingAssumption DEF AutoBounded
  <2> QED BY <2>3, <2>4
<1>8. auto' \in Nat /\ DOMAIN view' = Browsers
  BY <1>1 DEF OnlyRequest
<1> QED BY <1>4, <1>5, <1>6, <1>7, <1>8, <1>9

LEMMA GenerateStep ==
  ASSUME ViewInv, Remember, NEW b \in Browsers, Generate(b), UNCHANGED changes
  PROVE  ViewInv'
<1> USE DEF ViewInv
<1>1. /\ Stage(b, "generate") /\ view'[b] = Away /\ DOMAIN view' = Browsers
      /\ \A c \in Browsers \ {b} : view'[c] = view[c]
      /\ hand' = [hand EXCEPT ![b] = 1] /\ owed' = TRUE
      /\ UNCHANGED <<State, jobs>>
      /\ (auto' = auto + 1 /\ recent' = TRUE) \/ UNCHANGED <<auto, recent>>
  BY DEF Generate, To
<1>2. NothingVanishes'
  BY <1>1 DEF ViewTypeOK, NothingVanishes
<1>3. AutoBounded' /\ auto' \in Nat /\ auto' <= MaxAuto + Cardinality(Browsers)
  <2>1. IsFiniteSet(Generating) /\ Cardinality(Generating) \in Nat
        /\ Cardinality(Browsers) \in Nat
    BY GeneratingBounded
  <2>2. b \in Generating /\ Generating' = Generating \ {b}
    BY <1>1 DEF Generating, Stage, Away
  <2>3. Cardinality(Generating \ {b}) = Cardinality(Generating) - 1
    BY <2>1, <2>2, FS_RemoveElement
  <2>4. IsFiniteSet(Generating \ {b})
    BY <2>1, FS_RemoveElement
  <2>5. Cardinality(Generating \ {b}) \in Nat
    BY <2>4, FS_CardinalityType
  <2>6. Cardinality(Generating') = Cardinality(Generating) - 1 /\ Cardinality(Generating) >= 1
    BY <2>1, <2>2, <2>3, <2>5
  <2> QED BY <1>1, <2>1, <2>6, ViewingAssumption DEF AutoBounded
<1>4. ViewTypeOK'
  <2>1. entitled' \subseteq Browsers /\ lacking' \subseteq Browsers
    BY DEF ViewTypeOK, Remember
  <2>2. recent' \in BOOLEAN /\ owed' \in BOOLEAN
    BY <1>1, Zenon DEF ViewTypeOK
  <2>3. hand' \in [Browsers -> 0..GivenUp]
    BY <1>1, ViewingAssumption DEF ViewTypeOK, GivenUp
  <2>4. Cardinality(Browsers) \in Nat
    BY FS_CardinalityType, ViewingAssumption
  <2>5. auto' \in 0..MaxAuto + Cardinality(Browsers)
    BY <1>3, <2>4, ViewingAssumption
  <2> QED BY <1>1, <2>1, <2>2, <2>3, <2>5 DEF ViewTypeOK, State
<1>5. \A c \in Browsers :
        /\ view'[c].at \in {"seen", "info", "log", "fetch", "read", "ensure", "generate"} => c \in entitled'
        /\ view'[c].at \in {"ensure", "generate"} => c \in lacking'
        /\ view'[c].at = "fetch" => view'[c] \in Fetching
  <2> SUFFICES ASSUME NEW c \in Browsers, view'[c].at # "away"
               PROVE  /\ view'[c].at \in {"seen", "info", "log", "fetch", "read", "ensure", "generate"}
                             => c \in entitled'
                      /\ view'[c].at \in {"ensure", "generate"} => c \in lacking'
                      /\ view'[c].at = "fetch" => view'[c] \in Fetching
    OBVIOUS
  <2>1. view'[c] = view[c] /\ view'[c] # Away /\ ~Stage(c, "away")
    BY <1>1 DEF Away, Stage
  <2> QED BY <2>1, Remembered DEF Stage
<1> QED BY <1>1, <1>2, <1>3, <1>4, <1>5 DEF Stage

\* The hand-over, the report server, the operators and time leave every request
\* where it is.
LEMMA BehindStep ==
  ASSUME ViewInv, Remember, UNCHANGED view,
         \/ \E b \in Browsers : (HandOver(b) \/ GiveUp(b)) /\ UNCHANGED changes
         \/ (Begin \/ WriteResult \/ Complete \/ Break \/ Cool \/ Tomorrow) /\ UNCHANGED changes
         \/ Change \/ OthersAsk
  PROVE  ViewInv'
<1> USE DEF ViewInv
<1>1. entitled' \subseteq Browsers /\ lacking' \subseteq Browsers
  BY DEF ViewTypeOK, Remember
<1>2. auto' = auto \/ auto' = 0
  BY DEF HandOver, GiveUp, Begin, WriteResult, Complete, Break, Cool, Tomorrow, Change, OthersAsk, Counted
<1>3. AutoBounded' /\ auto' \in Nat /\ auto' \in 0..MaxAuto + Cardinality(Browsers)
  <2>1. Generating' = Generating
    BY DEF Generating, Stage
  <2>2. Cardinality(Generating) \in Nat /\ Cardinality(Generating) <= Cardinality(Browsers)
        /\ Cardinality(Browsers) \in Nat
    BY GeneratingBounded
  <2>3. Cardinality(Generating') = Cardinality(Generating)
    BY <2>1
  <2> QED BY <1>2, <2>2, <2>3, ViewingAssumption DEF AutoBounded
<1>4. \A b \in Browsers :
        /\ view'[b].at \in {"seen", "info", "log", "fetch", "read", "ensure", "generate"} => b \in entitled'
        /\ view'[b].at \in {"ensure", "generate"} => b \in lacking'
        /\ Stage(b, "fetch")' => view'[b] \in Fetching
  <2> SUFFICES ASSUME NEW b \in Browsers, ~Stage(b, "away")
               PROVE  /\ view[b].at \in {"seen", "info", "log", "fetch", "read", "ensure", "generate"}
                             => b \in entitled'
                      /\ view[b].at \in {"ensure", "generate"} => b \in lacking'
                      /\ Stage(b, "fetch") => view[b] \in Fetching
    BY DEF Stage
  <2>1. view'[b] # Away
    BY DEF Stage, Away
  <2> QED BY <2>1, Remembered
<1>5. ASSUME NEW b \in Browsers, HandOver(b) \/ GiveUp(b), UNCHANGED changes
      PROVE  ViewTypeOK' /\ NothingVanishes'
  <2>1. CASE HandOver(b)
    <3>1. jobs' \in Nat /\ (jobs' > 0 \/ hand'[b] > 0)
      BY <2>1, ViewingAssumption DEF HandOver, ViewTypeOK
    <3>2. hand' \in [Browsers -> 0..GivenUp]
      BY <2>1, ViewingAssumption DEF HandOver, ViewTypeOK, GivenUp
    <3>3. UNCHANGED <<priced, bought, visible, result, file, recent, owed, log, server>>
      BY <2>1 DEF HandOver, State
    <3> QED BY <1>1, <1>3, <1>5, <3>1, <3>2, <3>3 DEF ViewTypeOK, NothingVanishes
  <2>2. CASE GiveUp(b)
    <3>1. hand' \in [Browsers -> 0..GivenUp]
      BY <2>2, ViewingAssumption DEF GiveUp, ViewTypeOK, GivenUp
    <3>2. owed' = FALSE /\ (log' = log \/ log' = "FAILED")
          /\ UNCHANGED <<priced, bought, visible, result, file, recent, jobs, server>>
      BY <2>2 DEF GiveUp, RecordFailure
    <3> QED BY <1>1, <1>3, <1>5, <3>1, <3>2 DEF ViewTypeOK, NothingVanishes
  <2> QED BY <1>5, <2>1, <2>2
<1>6. ASSUME Begin \/ OthersAsk, changes' \in 0..MaxChanges PROVE ViewTypeOK' /\ NothingVanishes'
  <2>1. jobs' \in Nat /\ (owed' = FALSE \/ (owed' = owed /\ jobs' > 0))
        /\ (log' = log \/ log' = "underway")
        /\ UNCHANGED <<priced, bought, visible, result, file, recent, server, hand>>
    BY <1>6 DEF Begin, OthersAsk, ViewTypeOK, State
  <2> QED BY <1>1, <1>3, <1>6, <2>1 DEF ViewTypeOK, NothingVanishes
<1>7. ASSUME WriteResult \/ Complete \/ Break \/ Cool \/ Tomorrow \/ Change,
             changes' \in 0..MaxChanges
      PROVE  ViewTypeOK' /\ NothingVanishes'
  <2>1. UNCHANGED <<jobs, hand, owed>>
    BY <1>7 DEF WriteResult, Complete, Break, Cool, Tomorrow, Change, Counted
  <2>2. /\ log' \in {"none", "underway", "stale", "FAILED", "permanent", "COMPLETED"}
        /\ server' \in Servers
    BY <1>7 DEF WriteResult, Complete, Break, Cool, Tomorrow, Change, Counted, State, ViewTypeOK
  <2>3. {priced, bought, visible, result, file, recent}' \subseteq BOOLEAN
    BY <1>7, Zenon DEF WriteResult, Complete, Break, Cool, Tomorrow, Change, Counted, State, ViewTypeOK
  <2> QED BY <1>1, <1>3, <1>7, <2>1, <2>2, <2>3 DEF ViewTypeOK, NothingVanishes
<1>8. UNCHANGED changes => changes' \in 0..MaxChanges
  BY DEF ViewTypeOK
<1>9. Change \/ OthersAsk => changes' \in 0..MaxChanges
  BY ViewingAssumption DEF Change, OthersAsk, ViewTypeOK
<1>10. ViewTypeOK' /\ NothingVanishes'
  BY <1>5, <1>6, <1>7, <1>8, <1>9
<1> QED BY <1>3, <1>4, <1>10

LEMMA ViewStep == ViewInv /\ [ViewNext]_viewVars => ViewInv'
<1> SUFFICES ASSUME ViewInv, [ViewNext]_viewVars PROVE ViewInv'
  OBVIOUS
<1>1. CASE UNCHANGED viewVars
  <2>1. UNCHANGED <<priced, bought, visible, result, file, log, server, jobs, view, auto,
              recent, hand, entitled, lacking, owed, changes>>
    BY <1>1 DEF viewVars
  <2>2. Generating' = Generating
    BY <2>1 DEF Generating, Stage
  <2>3. AutoBounded'
    BY <2>1, <2>2 DEF ViewInv, AutoBounded
  <2> QED BY <2>1, <2>3 DEF ViewInv, ViewTypeOK, NothingVanishes, Stage
<1>2. CASE ViewNext
  <2>1. ASSUME NEW b \in Browsers, Request(b), UNCHANGED changes PROVE ViewInv'
    BY <1>2, <2>1, RequestStep, GenerateStep DEF ViewNext
  <2>2. ASSUME ~(\E b \in Browsers : Request(b) /\ UNCHANGED changes) PROVE ViewInv'
    <3>1. \/ \E b \in Browsers : (HandOver(b) \/ GiveUp(b)) /\ UNCHANGED changes
          \/ (Begin \/ WriteResult \/ Complete \/ Break \/ Cool \/ Tomorrow) /\ UNCHANGED changes
          \/ Change \/ OthersAsk
      BY <1>2, <2>2 DEF ViewNext
    <3>2. UNCHANGED view
      BY <3>1 DEF HandOver, GiveUp, Begin, WriteResult, Complete, Break, Cool, Tomorrow, Change, OthersAsk
    <3> QED BY <1>2, <3>1, <3>2, BehindStep DEF ViewNext
  <2> QED BY <2>1, <2>2
<1> QED BY <1>1, <1>2

\* A browser gets the PDF only if the report was free or bought at some moment of
\* its request, has it made only for need, at most MaxAuto times a day and once
\* more for each browser, and no report asked for vanishes (requestPdf,
\* ensureReport, enqueueReport).
THEOREM ViewingIsSafe == ViewSpec => []ViewingSafe
<1>1. ViewInit => ViewInv
  <2> SUFFICES ASSUME ViewInit PROVE ViewInv
    OBVIOUS
  <2>1. Generating = {} /\ \A b \in Browsers : view[b] = Away
    BY DEF Generating, ViewInit, Stage, Away
  <2>2. Cardinality(Browsers) \in Nat /\ Cardinality(Generating) = 0
    BY <2>1, FS_CardinalityType, FS_EmptySet, ViewingAssumption
  <2>3. AutoBounded /\ auto \in 0..MaxAuto + Cardinality(Browsers)
    BY <2>2, ViewingAssumption DEF AutoBounded, ViewInit
  <2>4. {priced, bought, visible, result, file, recent, owed} \subseteq BOOLEAN
    BY Zenon DEF ViewInit
  <2>5. ViewTypeOK
    BY <2>3, <2>4, ViewingAssumption DEF ViewInit, ViewTypeOK, Servers, GivenUp
  <2>6. DOMAIN view = Browsers /\ auto \in Nat /\ NothingVanishes
    BY DEF ViewInit, NothingVanishes
  <2> QED BY <2>1, <2>3, <2>5, <2>6 DEF ViewInv, Stage, Away
<1>2. ViewInv => ViewingSafe
  <2> SUFFICES ASSUME ViewInv PROVE ReadWhenOpen /\ MadeForNeed
    BY DEF ViewInv, ViewingSafe
  <2> QED BY DEF ViewInv, ReadWhenOpen, MadeForNeed, Stage
<1> QED BY <1>1, <1>2, ViewStep, PTL DEF ViewSpec
=============================================================================

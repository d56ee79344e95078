---------------------------- MODULE ReportAccess ----------------------------
(***************************************************************************)
(* Paid access to a detailed report: requests for a QPay invoice, the rows *)
(* of report_access they create, and the confirmations (polls of a browser *)
(* and callbacks of QPay) that turn a row into SUCCESS.                    *)
(*                                                                         *)
(* Every call to the database or to QPay is a step.  A row has the name of *)
(* the request that creates it.                                            *)
(***************************************************************************)
EXTENDS Naturals, FiniteSets

CONSTANTS
  Bills,        \* requests for an invoice
  Confirms,     \* polls and callbacks under way at a time
  ReportCodes,  \* codes of exams
  MaxPrice,     \* bound on the price of a report and on a payment
  InvoiceMax    \* INVOICE_MAX_PER_CODE

ASSUME AccessAssumption == MaxPrice \in Nat /\ InvoiceMax \in Nat \ {0}

VARIABLES
  reportPrice,  \* assessment.reportPrice
  bill,         \* where each request is
  billCode,     \* its exam
  quoted,       \* the price it read, later the price of its row
  access,       \* status of the row
  stored,       \* rows with an invoiceId
  issued,       \* invoices QPay knows
  paidSum,      \* what QPay has received on each
  recentRows,   \* rows of the last INVOICE_WINDOW_MIN minutes
  lateRows,     \* history: requests overtaken between count and insert
  confirm       \* what each confirmation does: idle, or a step and its row

accessVars == <<reportPrice, bill, billCode, quoted, access, stored, issued,
                paidSum, recentRows, lateRows, confirm>>

BillSteps == {"idle", "resolved", "counted", "created", "issued", "done"}
Unconfirmed == <<"idle">>

AccessTypeOK ==
  /\ reportPrice \in 0..MaxPrice
  /\ bill \in [Bills -> BillSteps]
  /\ billCode \in [Bills -> ReportCodes]
  /\ quoted \in [Bills -> 0..MaxPrice]
  /\ access \in [Bills -> {"none", "pending", "success"}]
  /\ stored \subseteq Bills
  /\ issued \subseteq Bills
  /\ paidSum \in [Bills -> 0..MaxPrice]
  /\ recentRows \subseteq Bills
  /\ lateRows \subseteq Bills
  /\ confirm \in [Confirms -> {Unconfirmed} \cup ({"asking", "paid"} \X Bills)]

AccessInit ==
  /\ reportPrice \in 0..MaxPrice
  /\ bill = [b \in Bills |-> "idle"]
  /\ billCode \in [Bills -> ReportCodes]
  /\ quoted = [b \in Bills |-> 0]
  /\ access = [b \in Bills |-> "none"]
  /\ stored = {} /\ issued = {}
  /\ paidSum = [b \in Bills |-> 0]
  /\ recentRows = {} /\ lateRows = {}
  /\ confirm = [k \in Confirms |-> Unconfirmed]

-----------------------------------------------------------------------------
RowsOf(b) == {a \in Bills : billCode[a] = billCode[b]}

Purchased(b) == \E a \in RowsOf(b) : access[a] = "success"

Rows == <<access, stored, issued, paidSum>>
Billing == <<bill, billCode, quoted, recentRows, lateRows>>

SetPrice(p) ==
  /\ reportPrice' = p
  /\ UNCHANGED <<Billing, Rows, confirm>>

\* createInvoice up to the limits: the report must be for sale and unsold.
ResolveAccess(b) ==
  /\ bill[b] = "idle"
  /\ quoted' = [quoted EXCEPT ![b] = reportPrice]
  /\ bill' = [bill EXCEPT ![b] =
                IF reportPrice = 0 \/ Purchased(b) THEN "done" ELSE "resolved"]
  /\ UNCHANGED <<reportPrice, billCode, recentRows, lateRows, Rows, confirm>>

\* assertInvoiceRate may refuse: what other codes do is not modelled.
RateLimited(b) ==
  /\ bill[b] = "resolved"
  /\ bill' = [bill EXCEPT ![b] = "done"]
  /\ UNCHANGED <<reportPrice, billCode, quoted, recentRows, lateRows, Rows, confirm>>

CountRecent(b) ==
  /\ bill[b] = "resolved"
  /\ bill' = [bill EXCEPT ![b] =
       IF Cardinality(RowsOf(b) \cap recentRows) >= InvoiceMax THEN "done" ELSE "counted"]
  /\ UNCHANGED <<reportPrice, billCode, quoted, recentRows, lateRows, Rows, confirm>>

CreateAccess(b) ==
  /\ bill[b] = "counted"
  /\ bill' = [bill EXCEPT ![b] = "created"]
  /\ access' = [access EXCEPT ![b] = "pending"]
  /\ recentRows' = recentRows \cup {b}
  /\ lateRows' = lateRows \cup {a \in RowsOf(b) \ {b} : bill[a] = "counted"}
  /\ UNCHANGED <<reportPrice, billCode, quoted, stored, issued, paidSum, confirm>>

\* qpay.createInvoice: it answers, fails, or its answer is lost.
IssueInvoice(b) ==
  /\ bill[b] = "created"
  /\ \/ bill' = [bill EXCEPT ![b] = "issued"] /\ issued' = issued \cup {b}
     \/ bill' = [bill EXCEPT ![b] = "done"] /\ issued' \in {issued, issued \cup {b}}
  /\ UNCHANGED <<reportPrice, billCode, quoted, recentRows, lateRows, access,
                 stored, paidSum, confirm>>

\* setInvoice, unless the process goes down first.
SetInvoice(b) ==
  /\ bill[b] = "issued"
  /\ bill' = [bill EXCEPT ![b] = "done"]
  /\ stored' \in {stored, stored \cup {b}}
  /\ UNCHANGED <<reportPrice, billCode, quoted, recentRows, lateRows, access,
                 issued, paidSum, confirm>>

RowLeavesWindow(b) ==
  /\ b \in recentRows
  /\ recentRows' = recentRows \ {b}
  /\ UNCHANGED <<reportPrice, bill, billCode, quoted, lateRows, Rows, confirm>>

\* QPay: money arrives on an invoice.
PayReport(b, n) ==
  /\ b \in issued
  /\ n > paidSum[b]
  /\ paidSum' = [paidSum EXCEPT ![b] = n]
  /\ UNCHANGED <<reportPrice, Billing, access, stored, issued, confirm>>

\* checkPayment and handleCallback find the row, and confirmPending goes on
\* if it is PENDING and has its invoice.  A poll stops earlier if the code is
\* already paid, a callback does not.
FindAccess(k, b) ==
  /\ confirm[k] = Unconfirmed
  /\ access[b] = "pending" /\ b \in stored
  /\ confirm' = [confirm EXCEPT ![k] = <<"asking", b>>]
  /\ UNCHANGED <<reportPrice, Billing, Rows>>

\* A slip: any payment opens the report.
AskPaidAny(k, b) ==
  /\ confirm[k] = <<"asking", b>>
  /\ confirm' = [confirm EXCEPT ![k] = IF paidSum[b] = 0 THEN Unconfirmed ELSE <<"paid", b>>]
  /\ UNCHANGED <<reportPrice, Billing, Rows>>

AskPaid(k, b) ==
  /\ confirm[k] = <<"asking", b>>
  /\ confirm' = [confirm EXCEPT ![k] =
       IF paidSum[b] = 0 \/ paidSum[b] < quoted[b] THEN Unconfirmed ELSE <<"paid", b>>]
  /\ UNCHANGED <<reportPrice, Billing, Rows>>

\* markPaid: PENDING becomes SUCCESS, any other row stays.
MarkPaid(k, b) ==
  /\ confirm[k] = <<"paid", b>>
  /\ confirm' = [confirm EXCEPT ![k] = Unconfirmed]
  /\ access' = [access EXCEPT ![b] = IF @ = "pending" THEN "success" ELSE @]
  /\ UNCHANGED <<reportPrice, Billing, stored, issued, paidSum>>

AccessNext ==
  \/ \E p \in 0..MaxPrice : SetPrice(p)
  \/ \E b \in Bills :
       \/ ResolveAccess(b) \/ RateLimited(b) \/ CountRecent(b) \/ CreateAccess(b)
       \/ IssueInvoice(b) \/ SetInvoice(b) \/ RowLeavesWindow(b)
       \/ \E n \in 1..MaxPrice : PayReport(b, n)
       \/ \E k \in Confirms : FindAccess(k, b) \/ AskPaid(k, b) \/ MarkPaid(k, b)

AccessSpec == AccessInit /\ [][AccessNext]_accessVars

-----------------------------------------------------------------------------
(* What the paywall guarantees                                             *)

\* A report is sold only for a payment, on the row's own invoice, of at least
\* the price the buyer was quoted, whatever the price of the test became
\* meanwhile and however polls and callbacks overlap.
SoldForItsPrice ==
  \A b \in Bills : access[b] = "success" =>
    b \in stored /\ paidSum[b] >= quoted[b] /\ quoted[b] > 0

\* Within the window a code has at most InvoiceMax rows, not counting those
\* whose request was overtaken by another between its count and its insert.
InvoicesBounded ==
  \A c \in ReportCodes :
    Cardinality({b \in recentRows \ lateRows : billCode[b] = c}) <= InvoiceMax

\* The paywall: no report under its price, no flood of invoices.
AccessSafe == SoldForItsPrice /\ InvoicesBounded
=============================================================================

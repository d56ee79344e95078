----------------------------- MODULE Settlement -----------------------------
(***************************************************************************)
(* How a service that somebody buys through QPay becomes SUCCESS.          *)
(*                                                                         *)
(* create writes the row (PENDING), asks QPay for an invoice and stores    *)
(* the invoice's id in the row.  QPay's callback and the buyer's polling   *)
(* both run confirmPending: ask QPay what was paid for the row's invoice,  *)
(* claim the row with a conditional UPDATE, and, as the one that got it,   *)
(* book the payment, its cost and the tax receipt.  A row without an       *)
(* invoice (older than the column, or not that far in create yet) is       *)
(* confirmed by polling only, with the invoice the client names, provided  *)
(* that no row carries that invoice.  A partial unique index keeps two     *)
(* rows from carrying one invoice: the later write throws.                 *)
(*                                                                         *)
(* The invoice QPay issues for service s is called s.                      *)
(***************************************************************************)
EXTENDS Integers

CONSTANTS
  Services,   \* the services sold, and the invoices QPay issues for them
  Requests,   \* requests that run at a time, on all replicas
  NoInvoice,
  Price,      \* what each service costs
  MaxPaid     \* bound: the most QPay ever reports for an invoice

ASSUME SettlementAssumption ==
  /\ NoInvoice \notin Services
  /\ Price \in [Services -> Nat \ {0}]
  /\ MaxPaid \in Nat

VARIABLES
  status,     \* PaymentStatus of each row; "none" before the insert
  bound,      \* qpayInvoiceId of each row
  sale,       \* how far the create that sells the service got
  issued,     \* the invoices that exist at QPay
  paid,       \* what was paid for each invoice
  via,        \* history: the invoice that opened the service
  pc,         \* where each request is
  svc,        \* the service a request confirms
  inv,        \* the invoice it asks QPay about
  bind,       \* it will bind that invoice to the row
  answer,     \* its answer
  payments,   \* payment rows booked for each service
  costs,      \* cost rows booked for each service
  receipts,   \* e-barimt requests for each service
  lost        \* history: services whose bookkeeping was interrupted

rowVars == <<status, bound, via>>
qpayVars == <<issued, paid>>
reqVars == <<pc, svc, inv, bind, answer>>
bookVars == <<payments, costs, receipts>>
vars == <<rowVars, sale, qpayVars, reqVars, bookVars, lost>>

Booking == {"bookPayment", "bookCost", "receipt"}
Confirming == {"findByInvoice", "checkPayment", "claim"}

TypeOK ==
  /\ status \in [Services -> {"none", "PENDING", "SUCCESS"}]
  /\ bound \in [Services -> Services \cup {NoInvoice}]
  /\ sale \in [Services -> {"new", "row", "invoiced", "sold", "failed", "legacy"}]
  /\ issued \subseteq Services
  /\ paid \in [Services -> 0..MaxPaid]
  /\ via \in [Services -> Services \cup {NoInvoice}]
  /\ pc \in [Requests -> {"idle"} \cup Confirming \cup Booking]
  /\ svc \in [Requests -> Services]
  /\ inv \in [Requests -> Services \cup {NoInvoice}]
  /\ bind \in [Requests -> BOOLEAN]
  /\ answer \in [Requests -> {"none", "settled", "already", "unpaid", "error"}]
  /\ payments \in [Services -> Nat]
  /\ costs \in [Services -> Nat]
  /\ receipts \in [Services -> Nat]
  /\ lost \subseteq Services

\* Some rows were sold before qpayInvoiceId existed: their invoice was issued,
\* and its id was not kept.
Init ==
  /\ sale \in [Services -> {"new", "legacy"}]
  /\ status = [s \in Services |-> IF sale[s] = "legacy" THEN "PENDING" ELSE "none"]
  /\ issued = {s \in Services : sale[s] = "legacy"}
  /\ bound = [s \in Services |-> NoInvoice]
  /\ via = [s \in Services |-> NoInvoice]
  /\ paid = [s \in Services |-> 0]
  /\ pc = [r \in Requests |-> "idle"]
  /\ svc \in [Requests -> Services]
  /\ inv = [r \in Requests |-> NoInvoice]
  /\ bind = [r \in Requests |-> FALSE]
  /\ answer = [r \in Requests |-> "none"]
  /\ payments = [s \in Services |-> 0]
  /\ costs = [s \in Services |-> 0]
  /\ receipts = [s \in Services |-> 0]
  /\ lost = {}

-----------------------------------------------------------------------------
(* UserServiceService.create for a buyer who pays through QPay.            *)

SaleStep(s, from, to) ==
  /\ sale[s] = from
  /\ sale' = [sale EXCEPT ![s] = to]

CreateRow(s) ==
  /\ SaleStep(s, "new", "row")
  /\ status' = [status EXCEPT ![s] = "PENDING"]
  /\ UNCHANGED <<bound, via, qpayVars, reqVars, bookVars, lost>>

CreateInvoice(s) ==
  /\ SaleStep(s, "row", "invoiced")
  /\ issued' = issued \cup {s}
  /\ UNCHANGED <<rowVars, paid, reqVars, bookVars, lost>>

\* idx_user_service_qpay_invoice: another row carries invoice i.
Taken(s, i) == \E t \in Services \ {s} : bound[t] = i

\* setInvoiceId writes the row whatever it holds by now, if the index lets it.
SetInvoiceId(s) ==
  /\ SaleStep(s, "invoiced", "sold")
  /\ ~Taken(s, s)
  /\ bound' = [bound EXCEPT ![s] = s]
  /\ UNCHANGED <<status, via, qpayVars, reqVars, bookVars, lost>>

\* QPay, the database or its index refuses, or the replica goes down: the row stays.
SaleFails(s) ==
  /\ \/ SaleStep(s, "row", "failed")
     \/ SaleStep(s, "invoiced", "failed")
  /\ UNCHANGED <<rowVars, qpayVars, reqVars, bookVars, lost>>

-----------------------------------------------------------------------------
(* QPay                                                                    *)

Pay(i, n) ==
  /\ i \in issued
  /\ n \in (paid[i] + 1)..MaxPaid
  /\ paid' = [paid EXCEPT ![i] = n]
  /\ UNCHANGED <<rowVars, sale, issued, reqVars, bookVars, lost>>

-----------------------------------------------------------------------------
(* The two ways into confirmPending, up to its first remote call.          *)

Goto(r, l) == pc' = [pc EXCEPT ![r] = l]

Finish(r, a) ==
  /\ Goto(r, "idle")
  /\ answer' = [answer EXCEPT ![r] = a]

\* The row is read; i is the invoice of the row or, for want of one, the one
\* that the client names.
Confirm(r, s, client) ==
  /\ pc[r] = "idle"
  /\ status[s] # "none"
  /\ svc' = [svc EXCEPT ![r] = s]
  /\ LET own == bound[s] # NoInvoice
         i == IF own THEN bound[s] ELSE client
     IN  /\ inv' = [inv EXCEPT ![r] = i]
         /\ bind' = [bind EXCEPT ![r] = ~own]
         /\ IF status[s] = "SUCCESS" THEN Finish(r, "already")
            ELSE IF i = NoInvoice THEN Finish(r, "unpaid")
            ELSE /\ Goto(r, IF own THEN "checkPayment" ELSE "findByInvoice")
                 /\ answer' = [answer EXCEPT ![r] = "none"]
  /\ UNCHANGED <<rowVars, sale, qpayVars, bookVars, lost>>

\* checkCallback has no invoice to offer for a row without one.
Callback(r, s) == Confirm(r, s, NoInvoice)

\* checkPayment passes on the invoice id in the URL.
Poll(r, s, i) == Confirm(r, s, i)

-----------------------------------------------------------------------------
(* confirmPending                                                          *)

\* An invoice that some row carries already does not open this row.
FindByInvoice(r) ==
  /\ pc[r] = "findByInvoice"
  /\ IF \E s \in Services : bound[s] = inv[r]
       THEN Finish(r, "unpaid")
       ELSE Goto(r, "checkPayment") /\ UNCHANGED answer
  /\ UNCHANGED <<rowVars, sale, qpayVars, svc, inv, bind, bookVars, lost>>

\* A slip: any payment will do.
AnyPayment(r) == paid[inv[r]] > 0

\* An underpaid invoice does not open the service.
Enough(r) == paid[inv[r]] > 0 /\ paid[inv[r]] >= Price[svc[r]]

CheckPayment(r) ==
  /\ pc[r] = "checkPayment"
  /\ IF Enough(r)
       THEN Goto(r, "claim") /\ UNCHANGED answer
       ELSE Finish(r, "unpaid")
  /\ UNCHANGED <<rowVars, sale, qpayVars, svc, inv, bind, bookVars, lost>>

\* A slip: the UPDATE does not ask for PENDING.
ClaimableAlways(s) == status[s] # "none"

\* claimSuccess: UPDATE ... SET status [, invoice] WHERE status = PENDING
Claimable(s) == status[s] = "PENDING"

\* A slip: the index is not there.
RefusedNever(r) == FALSE

\* The index refuses an invoice that another row got meanwhile.
Refused(r) == Claimable(svc[r]) /\ bind[r] /\ Taken(svc[r], inv[r])

Claim(r) ==
  /\ pc[r] = "claim"
  /\ ~Refused(r)
  /\ IF Claimable(svc[r])
       THEN /\ status' = [status EXCEPT ![svc[r]] = "SUCCESS"]
            /\ via' = [via EXCEPT ![svc[r]] = inv[r]]
            /\ bound' = IF bind[r] THEN [bound EXCEPT ![svc[r]] = inv[r]] ELSE bound
            /\ Goto(r, "bookPayment")
            /\ UNCHANGED answer
       ELSE /\ Finish(r, "already")
            /\ UNCHANGED rowVars
  /\ UNCHANGED <<sale, qpayVars, svc, inv, bind, bookVars, lost>>

-----------------------------------------------------------------------------
(* recordPayment, run by the request that claimed the row                  *)

BookPayment(r) ==
  /\ pc[r] = "bookPayment"
  /\ payments' = [payments EXCEPT ![svc[r]] = @ + 1]
  /\ Goto(r, "bookCost")
  /\ UNCHANGED <<rowVars, sale, qpayVars, svc, inv, bind, answer, costs, receipts, lost>>

BookCost(r) ==
  /\ pc[r] = "bookCost"
  /\ costs' = [costs EXCEPT ![svc[r]] = @ + 1]
  /\ Goto(r, "receipt")
  /\ UNCHANGED <<rowVars, sale, qpayVars, svc, inv, bind, answer, payments, receipts, lost>>

\* restReceipt logs a refusal of the tax service and goes on.
Receipt(r) ==
  /\ pc[r] = "receipt"
  /\ receipts' = [receipts EXCEPT ![svc[r]] = @ + 1]
  /\ Finish(r, "settled")
  /\ UNCHANGED <<rowVars, sale, qpayVars, svc, inv, bind, payments, costs, lost>>

-----------------------------------------------------------------------------

\* A call of the handler throws, as a refused claim does, or the replica goes
\* down.  Nothing is rolled
\* back: what the claim left to book stays unbooked.
Fail(r) ==
  /\ pc[r] # "idle"
  /\ Finish(r, "error")
  /\ lost' = IF pc[r] \in Booking THEN lost \cup {svc[r]} ELSE lost
  /\ UNCHANGED <<rowVars, sale, qpayVars, svc, inv, bind, bookVars>>

SaleNext(s) ==
  \/ CreateRow(s)
  \/ CreateInvoice(s)
  \/ SetInvoiceId(s)
  \/ SaleFails(s)
  \/ \E n \in 1..MaxPaid : Pay(s, n)

RequestNext(r) ==
  \/ \E s \in Services : Callback(r, s)
  \/ \E s, i \in Services : Poll(r, s, i)
  \/ FindByInvoice(r)
  \/ CheckPayment(r)
  \/ Claim(r)
  \/ BookPayment(r)
  \/ BookCost(r)
  \/ Receipt(r)
  \/ Fail(r)

Next ==
  \/ \E s \in Services : SaleNext(s)
  \/ \E r \in Requests : RequestNext(r)

Spec == Init /\ [][Next]_vars

-----------------------------------------------------------------------------
(* Properties                                                              *)

\* confirmPending: however callbacks and polls for a row meet, its payment,
\* its cost and its receipt are booked at most once.
BookedOnce ==
  \A s \in Services : payments[s] <= 1 /\ costs[s] <= 1 /\ receipts[s] <= 1

\* recordPayment is not transactional, and an opened row is never booked
\* later: it is booked in full once nobody works on it, or the request that
\* claimed it failed on the way.
BooksComplete ==
  \A s \in Services :
    \/ status[s] # "SUCCESS"
    \/ s \in lost
    \/ \E r \in Requests : pc[r] \in Booking /\ svc[r] = s
    \/ payments[s] = 1 /\ costs[s] = 1 /\ receipts[s] = 1

\* The books of an opened service: each entry once, and all of them.
BookedRight == BookedOnce /\ BooksComplete

\* A service opens only on an invoice that QPay reports as paid, with at
\* least the price of that service, also when the invoice was bound late.
PaidInFull ==
  \A s \in Services :
    status[s] = "SUCCESS" => via[s] # NoInvoice /\ paid[via[s]] >= Price[s]

\* Callback and poll tell the caller "paid" only of a service that is open,
\* also when another request won the claim.
TruthfulAnswer ==
  \A r \in Requests : answer[r] \in {"settled", "already"} => status[svc[r]] = "SUCCESS"

\* What the comment in confirmPending says: an invoice that is bound to one
\* row does not open another, however many polls with it pass the check at
\* the same time, unless create has since written its own invoice over it.
InvoiceOpensOneRow ==
  \A s, t \in Services :
    via[s] # NoInvoice /\ via[s] = via[t]
      => s = t \/ bound[s] # via[s] \/ bound[t] # via[t]

\* A service opens by a payment of its own: enough, and spent on no other.
OpenedByPayment == PaidInFull /\ InvoiceOpensOneRow
=============================================================================

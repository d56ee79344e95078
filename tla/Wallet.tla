------------------------------- MODULE Wallet -------------------------------
(***************************************************************************)
(* The wallet of one organisation (users.wallet) and everything that       *)
(* writes it.                                                              *)
(*                                                                         *)
(* Two kinds of writers meet here.  debitWallet and topUpAtomic move money *)
(* with one conditional UPDATE.  updateWallet (the admin's charge, and the *)
(* refund of a purchase whose row could not be created), and every edit of *)
(* the profile, the password or the OTP of the same user, read the whole   *)
(* row and later save the whole row: TypeORM's save writes each column     *)
(* whose value differs from the database at that moment, so a wallet read  *)
(* earlier is written back.                                                *)
(***************************************************************************)
EXTENDS Integers

CONSTANTS
  Requests,   \* the requests of a behaviour
  Opening,    \* the balance to start with
  Prices,     \* what a purchase or a top-up costs in all
  Charges     \* amounts an admin charges; a negative one is a correction

ASSUME WalletAssumption ==
  /\ Opening \in Nat
  /\ Prices \subseteq Nat \ {0}
  /\ Charges \subseteq Int

VARIABLES
  wallet,     \* the balance in the database
  pc,         \* where each request is
  amount,     \* the money a request moves
  seen,       \* the balance a request read before its save
  service,    \* the service row a purchase created
  debited,    \* history: requests whose debit was committed
  refunded,   \* history: requests whose debit was given back
  spent,      \* history: sum of the committed debits
  credited,   \* history: sum of the charges and refunds that were saved
  raced,      \* history: a save overwrote a balance it had not read
  corrected   \* history: a negative charge was saved

reqVars == <<pc, amount, seen>>
history == <<debited, refunded, spent, credited, raced, corrected>>
vars == <<wallet, reqVars, service, history>>

Ended == {"done", "refused", "error", "dead"}
Buying == {"debit", "createRow", "bill", "settle"}
Refunding == {"refundRead", "refundSave"}
Active == Buying \cup Refunding \cup {"chargeRead", "chargeSave", "editSave", "topup"}

TypeOK ==
  /\ wallet \in Int
  /\ pc \in [Requests -> {"idle"} \cup Active \cup Ended]
  /\ amount \in [Requests -> Int]
  /\ seen \in [Requests -> Int]
  /\ service \in [Requests -> {"none", "PENDING", "SUCCESS"}]
  /\ debited \subseteq Requests
  /\ refunded \subseteq debited
  /\ spent \in Nat
  /\ credited \in Int
  /\ raced \in BOOLEAN
  /\ corrected \in BOOLEAN

Init ==
  /\ wallet = Opening
  /\ pc = [r \in Requests |-> "idle"]
  /\ amount = [r \in Requests |-> 0]
  /\ seen = [r \in Requests |-> 0]
  /\ service = [r \in Requests |-> "none"]
  /\ debited = {}
  /\ refunded = {}
  /\ spent = 0
  /\ credited = 0
  /\ raced = FALSE
  /\ corrected = FALSE

-----------------------------------------------------------------------------
(* Steps shared by the handlers                                            *)

Goto(r, from, to) ==
  /\ pc[r] = from
  /\ pc' = [pc EXCEPT ![r] = to]

Begin(r, l, a) ==
  /\ Goto(r, "idle", l)
  /\ amount' = [amount EXCEPT ![r] = a]
  /\ UNCHANGED <<wallet, seen, service, history>>

\* UPDATE users SET wallet = wallet - a WHERE wallet >= a
Deduct(r) ==
  /\ wallet >= amount[r]
  /\ wallet' = wallet - amount[r]
  /\ spent' = spent + amount[r]

\* findOne of the whole row.
ReadUser(r, from, to) ==
  /\ Goto(r, from, to)
  /\ seen' = [seen EXCEPT ![r] = wallet]
  /\ UNCHANGED <<wallet, amount, service, history>>

\* A slip: the amount replaces the balance.
SaveAmount(r, by) ==
  /\ wallet' = by
  /\ credited' = credited + by
  /\ raced' = (raced \/ wallet # seen[r])
  /\ corrected' = (corrected \/ by < 0)

\* save of the whole row, with `by` added to the balance that was read.
SaveUser(r, by) ==
  /\ wallet' = seen[r] + by
  /\ credited' = credited + by
  /\ raced' = (raced \/ wallet # seen[r])
  /\ corrected' = (corrected \/ by < 0)

\* A database call of the handler throws, or its replica goes down.
Abort(r, from, to) ==
  /\ Goto(r, from, to)
  /\ UNCHANGED <<wallet, amount, seen, service, history>>

-----------------------------------------------------------------------------
(* UserServiceService.create for an organisation: debit, create the row,   *)
(* or give the money back; book the cost; mark the row SUCCESS.            *)

StartPurchase(r, a) == Begin(r, "debit", a)

Debit(r) ==
  /\ Goto(r, "debit", "createRow")
  /\ Deduct(r)
  /\ debited' = debited \cup {r}
  /\ UNCHANGED <<amount, seen, service, refunded, credited, raced, corrected>>

DebitRefused(r) ==
  /\ wallet < amount[r]
  /\ Abort(r, "debit", "refused")

CreateRow(r) ==
  /\ Goto(r, "createRow", "bill")
  /\ service' = [service EXCEPT ![r] = "PENDING"]
  /\ UNCHANGED <<wallet, amount, seen, history>>

\* The insert throws; the row may be there when the answer was lost.
CreateRowFails(r) ==
  /\ Goto(r, "createRow", "refundRead")
  /\ \E s \in {"none", "PENDING"} : service' = [service EXCEPT ![r] = s]
  /\ UNCHANGED <<wallet, amount, seen, history>>

RefundRead(r) == ReadUser(r, "refundRead", "refundSave")

\* A slip: the catch refunds and does not throw again.
RefundGoesOn(r) ==
  /\ Goto(r, "refundSave", "bill")
  /\ SaveUser(r, amount[r])
  /\ refunded' = refunded \cup {r}
  /\ UNCHANGED <<amount, seen, service, debited, spent>>

RefundSave(r) ==
  /\ Goto(r, "refundSave", "error")
  /\ SaveUser(r, amount[r])
  /\ refunded' = refunded \cup {r}
  /\ UNCHANGED <<amount, seen, service, debited, spent>>

\* transactionDao.create: the cost as a payment row.
Bill(r) == Abort(r, "bill", "settle")

SettleService(r) ==
  /\ Goto(r, "settle", "done")
  /\ service' = [service EXCEPT ![r] = "SUCCESS"]
  /\ UNCHANGED <<wallet, amount, seen, history>>

\* No later error is caught: the money stays debited, the row PENDING.
PurchaseFails(r) ==
  \E l \in {"refundRead", "refundSave", "bill", "settle"} : Abort(r, l, "error")

-----------------------------------------------------------------------------
(* PaymentService.charge: the payment row, then updateWallet.              *)

StartCharge(r, a) == Begin(r, "chargeRead", a)

ChargeRead(r) == ReadUser(r, "chargeRead", "chargeSave")

ChargeSave(r) ==
  /\ Goto(r, "chargeSave", "done")
  /\ SaveUser(r, amount[r])
  /\ UNCHANGED <<amount, seen, service, debited, refunded, spent>>

-----------------------------------------------------------------------------
(* UserDao.update, updateByEmail and verify: profile, password, OTP and    *)
(* e-mail confirmation, none of which is about the wallet.                 *)

EditRead(r) == ReadUser(r, "idle", "editSave")

EditSave(r) ==
  /\ Goto(r, "editSave", "done")
  /\ SaveUser(r, 0)
  /\ UNCHANGED <<amount, seen, service, debited, refunded, spent>>

-----------------------------------------------------------------------------
(* topUp of the owner: topUpAtomic debits and adds seats in a transaction. *)

StartTopUp(r, a) == Begin(r, "topup", a)

TopUp(r) ==
  /\ Goto(r, "topup", "done")
  /\ Deduct(r)
  /\ debited' = debited \cup {r}
  /\ UNCHANGED <<amount, seen, service, refunded, credited, raced, corrected>>

TopUpRefused(r) ==
  /\ wallet < amount[r]
  /\ Abort(r, "topup", "refused")

-----------------------------------------------------------------------------

Crash(r) == \E l \in Active : Abort(r, l, "dead")

Quiescent ==
  /\ \A r \in Requests : pc[r] \in Ended
  /\ UNCHANGED vars

RequestStep(r) ==
  \/ \E a \in Prices : StartPurchase(r, a)
  \/ Debit(r)
  \/ DebitRefused(r)
  \/ CreateRow(r)
  \/ CreateRowFails(r)
  \/ RefundRead(r)
  \/ RefundSave(r)
  \/ Bill(r)
  \/ SettleService(r)
  \/ PurchaseFails(r)
  \/ \E a \in Charges : StartCharge(r, a)
  \/ ChargeRead(r)
  \/ ChargeSave(r)
  \/ EditRead(r)
  \/ EditSave(r)
  \/ \E a \in Prices : StartTopUp(r, a)
  \/ TopUp(r)
  \/ TopUpRefused(r)
  \/ Crash(r)

Next == (\E r \in Requests : RequestStep(r)) \/ Quiescent

Spec == Init /\ [][Next]_vars

-----------------------------------------------------------------------------
(* Properties                                                              *)

\* Concurrent purchases and top-ups never overdraw the wallet; only an
\* admin's negative charge, which nothing bounds, can.
NeverOverdrawn == corrected \/ wallet >= 0

\* Money is neither made nor lost as long as no read-modify-write of the
\* user's row overlaps another writer: the balance is what came in less what
\* was spent, whatever fails or crashes in between.
Conservation == raced \/ wallet = Opening + credited - spent

\* The balance is never below zero, and exact while saves do not overlap.
WalletSafe == NeverOverdrawn /\ Conservation

\* An organisation's service is SUCCESS only if its price was taken from the
\* wallet and not given back, also when the insert's answer was lost and the
\* refund ran.
SuccessIsPaid ==
  \A r \in Requests : service[r] = "SUCCESS" => r \in debited \ refunded

\* Under the same condition an organisation spends no more than it had.
SpendCovered == raced \/ corrected \/ spent <= Opening + credited

\* What the comment of debitWallet says: concurrent requests cannot spend
\* the same money twice.
NoDoubleSpend == corrected \/ spent <= Opening + credited
=============================================================================

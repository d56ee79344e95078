------------------------------- MODULE Seats -------------------------------
(***************************************************************************)
(* The seat quota of one purchased service (a row of "userService") and    *)
(* the exams that consume it.                                              *)
(*                                                                         *)
(* A service is sold with `count` seats; usedUserCount says how many are   *)
(* taken.  Four handlers touch the row, each made of several awaited       *)
(* database calls, so that other requests run between any two of them:     *)
(*   createExam        a batch of exams for the owner or the scheduler;    *)
(*   createPublicExam  one exam for a person who opened the QR link;       *)
(*   topUp             more seats;                                         *)
(*   updateStatus      the tail of an organisation's purchase, which reads *)
(*                     the whole row and saves the whole row back;         *)
(* and QPay's confirmation turns the row to SUCCESS with a single UPDATE.  *)
(*                                                                         *)
(* A seat is <<r, i>>: the i-th exam request r asks for.  slot[s] follows  *)
(* that exam from the reservation to the answer.                           *)
(***************************************************************************)
EXTENDS Integers, FiniteSets

CONSTANTS
  Requests,    \* the HTTP requests and scheduler runs of a behaviour
  Contacts,    \* e-mail addresses and phone numbers of the participants
  NoContact,   \* an exam row that carries no address yet
  MaxBatch,    \* bound: the largest batch of createExam and of topUp
  Bought,      \* the seats the service was sold with
  Units        \* the assessment's price when somebody tops up

ASSUME SeatsAssumption ==
  /\ IsFiniteSet(Requests)
  /\ NoContact \notin Contacts
  /\ MaxBatch \in Nat \ {0}
  /\ Bought \in Nat \ {0}
  /\ Units \subseteq Nat

VARIABLES
  status,         \* PaymentStatus of the row
  count,          \* seats sold
  usedUserCount,  \* seats taken
  price,          \* what the row cost so far
  soldAt,         \* history: the price of the row when it was sold
  settle,         \* how the row becomes SUCCESS, and how far that got
  snap,           \* the row as updateStatus read it
  stale,          \* history: updateStatus overwrote a newer value
  pc,             \* where each request is
  size,           \* seats or top-up units a request asks for
  enforce,        \* the request respects the quota
  charge,         \* what a top-up costs
  who,            \* the contact a public registration gave
  before,         \* history: rows that carry that contact since the
                  \* registration began
  slot,           \* the state of each seat
  named,          \* the contact an exam row carries
  lapsed          \* exam rows too old to be offered again

reqVars == <<pc, size, enforce, charge, who, before>>
rowVars == <<status, count, usedUserCount, price>>
settleVars == <<settle, snap, stale>>
examVars == <<slot, named, lapsed>>
vars == <<rowVars, soldAt, settleVars, reqVars, examVars>>

-----------------------------------------------------------------------------
(* Types and state functions *)

Pending == "PENDING"
Success == "SUCCESS"

Seat == Requests \X (1..MaxBatch)

\* free: not reserved.  held: reserved, the exam row is not written.
\* row: the exam row is written, its transaction row is not.
\* done: examService.create returned.  failed, orphan: it threw before,
\* after the exam row was written.  returned, stray: the same exams once
\* the handler gave their seats back.
SlotState ==
  {"free", "held", "row", "done", "failed", "orphan", "returned", "stray"}

\* States in which usedUserCount counts the seat.
Seated == {s \in Seat : slot[s] \in {"held", "row", "done", "failed", "orphan"}}

\* Exam rows in the database that belong to the service.
ExamRows == {s \in Seat : slot[s] \in {"row", "done", "orphan", "stray"}}

\* The rows of contact c that findByServiceAndContact would offer.
Reusable(c) == {s \in ExamRows \ lapsed : named[s] = c}

SeatsOf(r) == {r} \X (1..size[r])

\* Promise.allSettled has an outcome for every exam of the request.
AllSettled(r) == \A s \in SeatsOf(r) : slot[s] \in {"done", "failed", "orphan"}

Rejected(r) == {s \in SeatsOf(r) : slot[s] \in {"failed", "orphan"}}

Ended == {"done", "reused", "refused", "error", "dead"}
Active == {"batchReserve", "batchFill", "lookup", "publicReserve", "publicFill",
           "topup"}

Row == [count : Nat, usedUserCount : Nat, price : Nat]
CurrentRow == [count |-> count, usedUserCount |-> usedUserCount, price |-> price]

TypeOK ==
  /\ status \in {Pending, Success}
  /\ count \in Nat
  /\ usedUserCount \in Nat
  /\ price \in Nat
  /\ soldAt \in Nat
  /\ settle \in {"settled", "qpay", "tail", "read", "failed"}
  /\ snap \in Row
  /\ stale \in BOOLEAN
  /\ pc \in [Requests -> {"idle"} \cup Active \cup Ended]
  /\ size \in [Requests -> 0..MaxBatch]
  /\ enforce \in [Requests -> BOOLEAN]
  /\ charge \in [Requests -> Nat]
  /\ who \in [Requests -> Contacts \cup {NoContact}]
  /\ before \in [Requests -> SUBSET Seat]
  /\ slot \in [Seat -> SlotState]
  /\ named \in [Seat -> Contacts \cup {NoContact}]
  /\ lapsed \subseteq Seat

-----------------------------------------------------------------------------
(* The row is sold: free of charge (SUCCESS at once), or PENDING until     *)
(* QPay confirms it or until the tail of the organisation's own request    *)
(* marks the wallet-paid row.  By then the row is already listed to its    *)
(* owner, and createExam does not look at the status.                      *)

Init ==
  /\ soldAt \in {0, 1}
  /\ price = soldAt
  /\ count = Bought
  /\ usedUserCount = 0
  /\ settle \in IF soldAt = 0 THEN {"settled"} ELSE {"settled", "qpay", "tail"}
  /\ status = IF settle = "settled" THEN Success ELSE Pending
  /\ snap = [count |-> Bought, usedUserCount |-> 0, price |-> soldAt]
  /\ stale = FALSE
  /\ pc = [r \in Requests |-> "idle"]
  /\ size = [r \in Requests |-> 0]
  /\ enforce = [r \in Requests |-> TRUE]
  /\ charge = [r \in Requests |-> 0]
  /\ who = [r \in Requests |-> NoContact]
  /\ before = [r \in Requests |-> {}]
  /\ slot = [s \in Seat |-> "free"]
  /\ named = [s \in Seat |-> NoContact]
  /\ lapsed = {}

Goto(r, l) == pc' = [pc EXCEPT ![r] = l]

-----------------------------------------------------------------------------
(* createExam: load the service, reserve n seats, create n exams at once.  *)

StartBatch(r, n) ==
  /\ pc[r] = "idle"
  /\ size' = [size EXCEPT ![r] = n]
  /\ Goto(r, "batchReserve")
  /\ UNCHANGED <<rowVars, soldAt, settleVars, enforce, charge, who, before, examVars>>

-----------------------------------------------------------------------------
(* createPublicExam: load the service (its price decides whether the quota *)
(* is enforced), look for a row of the same person, check the QR link's    *)
(* signed expiry, reserve one seat.                                        *)

StartPublic(r, c) ==
  /\ pc[r] = "idle"
  /\ size' = [size EXCEPT ![r] = 1]
  /\ who' = [who EXCEPT ![r] = c]
  /\ enforce' = [enforce EXCEPT ![r] = (price # 0)]
  /\ before' = [before EXCEPT ![r] = Reusable(c)]
  /\ Goto(r, "lookup")
  /\ UNCHANGED <<rowVars, soldAt, settleVars, charge, examVars>>

\* A slip: nobody looks for a row of the same person.
LookupSkipped(r) ==
  /\ pc[r] = "lookup"
  /\ \E l \in {"publicReserve", "refused"} : Goto(r, l)
  /\ UNCHANGED <<rowVars, soldAt, settleVars, size, enforce, charge, who, before, examVars>>

Lookup(r) ==
  /\ pc[r] = "lookup"
  /\ IF Reusable(who[r]) # {}
       THEN Goto(r, "reused")
       ELSE \E l \in {"publicReserve", "refused"} : Goto(r, l)  \* checkQrExpiry
  /\ UNCHANGED <<rowVars, soldAt, settleVars, size, enforce, charge, who, before, examVars>>

-----------------------------------------------------------------------------
(* reserveSeats: UPDATE ... SET used = used + n [WHERE count - used >= n]  *)

\* A slip: the batch fits if a single seat is left.
OneSeatLeft(r) == enforce[r] => count - usedUserCount >= 1

SeatsLeft(r) == enforce[r] => count - usedUserCount >= size[r]

Take(r) ==
  /\ usedUserCount' = usedUserCount + size[r]
  /\ slot' = [s \in Seat |-> IF s \in SeatsOf(r) THEN "held" ELSE slot[s]]

Reserve(r) ==
  /\ pc[r] \in {"batchReserve", "publicReserve"}
  /\ IF SeatsLeft(r)
       THEN /\ Take(r)
            /\ Goto(r, IF pc[r] = "batchReserve" THEN "batchFill" ELSE "publicFill")
       ELSE /\ Goto(r, "refused")
            /\ UNCHANGED <<usedUserCount, slot>>
  /\ UNCHANGED <<status, count, price, soldAt, settleVars, size, enforce,
                 charge, who, before, named, lapsed>>

-----------------------------------------------------------------------------
(* examService.create: the exam row, then its transaction row.  Each call  *)
(* may throw.                                                              *)

Filling(r) == pc[r] \in {"batchFill", "publicFill"}

Advance(s, from, to) ==
  /\ Filling(s[1])
  /\ slot[s] = from
  /\ slot' = [slot EXCEPT ![s] = to]
  /\ UNCHANGED <<rowVars, soldAt, settleVars, reqVars, named, lapsed>>

SaveExam(s) == Advance(s, "held", "row")
SaveExamFails(s) == Advance(s, "held", "failed")
RecordExam(s) == Advance(s, "row", "done")
RecordExamFails(s) == Advance(s, "row", "orphan")

\* Every exam of the batch exists: the codes go back to the caller.
FinishBatch(r) ==
  /\ pc[r] = "batchFill"
  /\ AllSettled(r)
  /\ Rejected(r) = {}
  /\ Goto(r, "done")
  /\ UNCHANGED <<rowVars, soldAt, settleVars, size, enforce, charge, who, before, examVars>>

\* examDao.update writes the participant's contact on the new row.
NameExam(r) ==
  /\ pc[r] = "publicFill"
  /\ slot[<<r, 1>>] = "done"
  /\ named' = [named EXCEPT ![<<r, 1>>] = who[r]]
  /\ before' = IF named[<<r, 1>>] = who[r] THEN before
               ELSE [q \in Requests |-> before[q] \ {<<r, 1>>}]
  /\ Goto(r, "done")
  /\ UNCHANGED <<rowVars, soldAt, settleVars, size, enforce, charge, who,
                 slot, lapsed>>

NameExamFails(r) ==
  /\ pc[r] = "publicFill"
  /\ slot[<<r, 1>>] = "done"
  /\ slot' = [slot EXCEPT ![<<r, 1>>] = "orphan"]
  /\ UNCHANGED <<rowVars, soldAt, settleVars, reqVars, named, lapsed>>

\* A slip: the seats of the whole batch go back.
GiveBackBatch(r) ==
  LET left == usedUserCount - size[r] IN
  usedUserCount' = IF left > 0 THEN left ELSE 0

\* releaseSeats: used = GREATEST(0, used - n) for the n exams that threw,
\* then the first error goes back to the caller.
GiveBack(r) ==
  LET left == usedUserCount - Cardinality(Rejected(r)) IN
  usedUserCount' = IF left > 0 THEN left ELSE 0

Release(r) ==
  /\ Filling(r)
  /\ AllSettled(r)
  /\ Rejected(r) # {}
  /\ GiveBack(r)
  /\ slot' = [s \in Seat |->
                IF s \notin Rejected(r) THEN slot[s]
                ELSE IF slot[s] = "failed" THEN "returned" ELSE "stray"]
  /\ Goto(r, "error")
  /\ UNCHANGED <<status, count, price, soldAt, settleVars, size, enforce,
                 charge, who, before, named, lapsed>>

\* The database refuses the release itself: the seats stay taken.
ReleaseFails(r) ==
  /\ Filling(r)
  /\ AllSettled(r)
  /\ Rejected(r) # {}
  /\ Goto(r, "error")
  /\ UNCHANGED <<rowVars, soldAt, settleVars, size, enforce, charge, who, before, examVars>>

-----------------------------------------------------------------------------
(* sendLinkToMail addresses an exam code of the service, or addresses it   *)
(* anew.                                                                   *)

Invite(s, c) ==
  /\ s \in ExamRows
  /\ named[s] # c
  /\ named' = [named EXCEPT ![s] = c]
  /\ before' = [r \in Requests |-> before[r] \ {s}]
  /\ UNCHANGED <<rowVars, soldAt, settleVars, pc, size, enforce, charge, who,
                 slot, lapsed>>

\* The row leaves the window of decidePublicReuse: seven days old and open,
\* or one day old and finished.
Lapse(s) ==
  /\ s \in ExamRows \ lapsed
  /\ named[s] # NoContact
  /\ lapsed' = lapsed \cup {s}
  /\ UNCHANGED <<rowVars, soldAt, settleVars, reqVars, slot, named>>

-----------------------------------------------------------------------------
(* topUp: staff add seats free of charge, the owner pays from the wallet;  *)
(* the row must have been SUCCESS when it was read.                        *)

\* A slip: the status of the row is not looked at.
StartTopUpAnyway(r, n, unit) ==
  /\ pc[r] = "idle"
  /\ size' = [size EXCEPT ![r] = n]
  /\ charge' = [charge EXCEPT ![r] = n * unit]
  /\ Goto(r, "topup")
  /\ UNCHANGED <<rowVars, soldAt, settleVars, enforce, who, before, examVars>>

StartTopUp(r, n, unit) ==
  /\ pc[r] = "idle"
  /\ IF status = Success
       THEN /\ size' = [size EXCEPT ![r] = n]
            /\ charge' = [charge EXCEPT ![r] = n * unit]
            /\ Goto(r, "topup")
       ELSE /\ Goto(r, "refused")
            /\ UNCHANGED <<size, charge>>
  /\ UNCHANGED <<rowVars, soldAt, settleVars, enforce, who, before, examVars>>

\* topUpAtomic: one transaction with the wallet's debit.
TopUp(r) ==
  /\ pc[r] = "topup"
  /\ count' = count + size[r]
  /\ price' = price + charge[r]
  /\ Goto(r, "done")
  /\ UNCHANGED <<status, usedUserCount, soldAt, settleVars, size, enforce,
                 charge, who, before, examVars>>

\* The wallet does not cover the charge: the transaction rolls back.
TopUpRefused(r) ==
  /\ pc[r] = "topup"
  /\ charge[r] > 0
  /\ Goto(r, "refused")
  /\ UNCHANGED <<rowVars, soldAt, settleVars, size, enforce, charge, who, before, examVars>>

-----------------------------------------------------------------------------
(* The row becomes SUCCESS.                                                *)

\* claimSuccess: UPDATE ... SET status WHERE status = PENDING.
ClaimSuccess ==
  /\ settle = "qpay"
  /\ status' = Success
  /\ settle' = "settled"
  /\ UNCHANGED <<count, usedUserCount, price, soldAt, snap, stale, reqVars, examVars>>

\* updateStatus, first half: findOne.
ReadRow ==
  /\ settle = "tail"
  /\ snap' = CurrentRow
  /\ settle' = "read"
  /\ UNCHANGED <<rowVars, soldAt, stale, reqVars, examVars>>

\* updateStatus, second half: save writes every column that differs from
\* the row as it was read.
SaveRow ==
  /\ settle = "read"
  /\ status' = Success
  /\ count' = snap.count
  /\ usedUserCount' = snap.usedUserCount
  /\ price' = snap.price
  /\ stale' = (stale \/ snap # CurrentRow)
  /\ settle' = "settled"
  /\ UNCHANGED <<soldAt, snap, reqVars, examVars>>

\* The purchase's request fails before its last call: the row stays PENDING.
SettleFails ==
  /\ settle \in {"tail", "read"}
  /\ settle' = "failed"
  /\ UNCHANGED <<rowVars, soldAt, snap, stale, reqVars, examVars>>

-----------------------------------------------------------------------------

\* The replica that serves the request goes down.
Crash(r) ==
  /\ pc[r] \in Active
  /\ Goto(r, "dead")
  /\ UNCHANGED <<rowVars, soldAt, settleVars, size, enforce, charge, who, before, examVars>>

\* Every request has its answer: nothing is left to do.
Quiescent ==
  /\ \A r \in Requests : pc[r] \in Ended
  /\ settle \in {"settled", "failed"}
  /\ UNCHANGED vars

RequestStep(r) ==
  \/ \E n \in 1..MaxBatch : StartBatch(r, n)
  \/ \E c \in Contacts : StartPublic(r, c)
  \/ \E n \in 1..MaxBatch, unit \in Units : StartTopUp(r, n, unit)
  \/ Lookup(r)
  \/ Reserve(r)
  \/ FinishBatch(r)
  \/ NameExam(r)
  \/ NameExamFails(r)
  \/ Release(r)
  \/ ReleaseFails(r)
  \/ TopUp(r)
  \/ TopUpRefused(r)
  \/ Crash(r)

SeatStep(s) ==
  \/ SaveExam(s)
  \/ SaveExamFails(s)
  \/ RecordExam(s)
  \/ RecordExamFails(s)
  \/ \E c \in Contacts : Invite(s, c)
  \/ Lapse(s)

RowStep == ClaimSuccess \/ ReadRow \/ SaveRow \/ SettleFails

Next ==
  \/ \E r \in Requests : RequestStep(r)
  \/ \E s \in Seat : SeatStep(s)
  \/ RowStep
  \/ Quiescent

Spec == Init /\ [][Next]_vars

-----------------------------------------------------------------------------
(* Properties                                                              *)

\* usedUserCount is exact: it counts every seat whose reservation was not
\* given back, whatever the order in which reservations, partly failed
\* batches, crashes and releases meet, and the release never needs its
\* GREATEST(0, ...).  Only updateStatus's full-row save can break it.
SeatAccounting == stale \/ usedUserCount = Cardinality(Seated)

\* The quota of a service that was sold for money: reserveSeats with enforce
\* never lets concurrent requests take more seats than were bought, also
\* while a top-up commits, unless updateStatus overwrote the counter.
NoOversell == soldAt # 0 /\ ~stale => Cardinality(Seated) <= count

\* Seats and price that a top-up added are never lost again: topUp refuses a
\* row that is not SUCCESS, and so cannot run between updateStatus's read and
\* its full-row save.
TopUpNeverUndone == [][count' >= count /\ price' >= price]_vars

\* createPublicExam: somebody who registers again, after the row of the first
\* registration (or of an invitation) carries the address, takes no second
\* seat while that row is still offered.
SecondVisitTakesNoSeat ==
  [][\A r \in Requests :
       pc[r] = "publicReserve" /\ pc'[r] = "publicFill"
         => before[r] \cap Reusable(who[r]) = {}]_vars

\* What the comments of reserveSeats and createExam say: concurrent
\* registrations never exceed the quota, every exam holds a seat.
ExamsWithinQuota == soldAt # 0 => Cardinality(ExamRows) <= count

\* What the comment of createPublicExam says: the same person never gets a
\* second row from the same QR link.
RegisteredAlready(s) ==
  /\ s \in ExamRows \ lapsed
  /\ pc[s[1]] = "done"
  /\ who[s[1]] # NoContact
  /\ named[s] = who[s[1]]

NoDuplicateRegistration ==
  \A s, t \in Seat :
    RegisteredAlready(s) /\ RegisteredAlready(t) /\ named[s] = named[t] => s = t
=============================================================================

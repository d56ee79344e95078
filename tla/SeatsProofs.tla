---------------------------- MODULE SeatsProofs ----------------------------
(***************************************************************************)
(* The safety of Seats, Studio, Messages and Choices, for any number of    *)
(* requests, contacts, administrators and drafts, any size of batch and    *)
(* any number of seats, rows and cells.                                    *)
(*                                                                         *)
(* Seats: a request reserves its seats once, while all of them are free    *)
(* (Fresh), so that every step changes usedUserCount by as much as it      *)
(* changes the set of taken seats; a service sold for money keeps a price, *)
(* so that every request for it respects the quota (PaidIsEnforced); and   *)
(* while updateStatus is between its read and its save the row is PENDING, *)
(* so that no top-up touches it (PendingRow).  Studio: a save that         *)
(* nothing overlaps is the only one, and its version is in the row until   *)
(* it is everywhere (SavesApart).  Messages: every draft that is stored,   *)
(* being saved or taken by a batch was found valid (DraftsValid).          *)
(* Choices: ids are given out once (IdsApart), so that the lines of a page *)
(* stay different rows and cells of their own line (PageOK); a save goes   *)
(* on with the row of its line (StepOK), and a quiet one leaves each line  *)
(* behind as it was sent (AloneOK); every insert uses up one sending of    *)
(* its line (AnswersCounted, CellsCounted).                                *)
(***************************************************************************)
EXTENDS Seats, Studio, Messages, Choices, FiniteSetTheorems, TLAPS

\* A request that has not reserved yet holds no seat, and none ever holds a
\* seat beyond the ones it asked for.
Fresh ==
  /\ \A s \in Seat :
       pc[s[1]] \in {"idle", "lookup", "batchReserve", "publicReserve", "topup"}
         => slot[s] = "free"
  /\ \A s \in Seat : slot[s] # "free" => s \in SeatsOf(s[1])

PendingRow ==
  /\ settle # "settled" => status = Pending
  /\ \A r \in Requests : pc[r] = "topup" => status = Success
  /\ settle = "read" => snap.count = count /\ snap.price = price

PaidIsEnforced ==
  soldAt # 0 => price # 0 /\ \A r \in Requests : enforce[r]

WithinQuota == soldAt # 0 /\ ~stale => usedUserCount <= count

Inv ==
  /\ TypeOK
  /\ Fresh
  /\ PendingRow
  /\ PaidIsEnforced
  /\ SeatAccounting
  /\ WithinQuota

-----------------------------------------------------------------------------
(* Sets of seats                                                           *)

LEMMA SeatFinite ==
  ASSUME NEW S, S \subseteq Seat
  PROVE  IsFiniteSet(S) /\ Cardinality(S) \in Nat
<1>1. IsFiniteSet(1..MaxBatch)
  BY FS_Interval, SeatsAssumption
<1>2. IsFiniteSet(Seat)
  BY <1>1, FS_Product, SeatsAssumption DEF Seat
<1>3. QED
  BY <1>2, FS_Subset, FS_CardinalityType

LEMMA SeatsOfCount ==
  ASSUME NEW r \in Requests, size[r] \in 0..MaxBatch
  PROVE  /\ SeatsOf(r) \subseteq Seat
         /\ Cardinality(SeatsOf(r)) = size[r]
<1>1. SeatsOf(r) \subseteq Seat
  BY SeatsAssumption DEF SeatsOf, Seat
<1>2. IsFiniteSet({r}) /\ Cardinality({r}) = 1
  BY FS_Singleton
<1>3. size[r] \in Nat
  BY SeatsAssumption
<1>4. IsFiniteSet(1..size[r]) /\ Cardinality(1..size[r]) = size[r]
  <2>1. /\ IsFiniteSet(1..size[r])
        /\ Cardinality(1..size[r]) = IF 1 > size[r] THEN 0 ELSE size[r] - 1 + 1
    BY <1>3, FS_Interval
  <2>2. QED
    BY <1>3, <2>1
<1>5. Cardinality({r} \X (1..size[r])) = Cardinality({r}) * Cardinality(1..size[r])
  BY <1>2, <1>4, FS_Product, Zenon
<1>6. Cardinality({r} \X (1..size[r])) = size[r]
  BY <1>2, <1>3, <1>4, <1>5
<1>7. QED
  BY <1>1, <1>6 DEF SeatsOf

\* A request that reserves takes seats that nobody holds.
LEMMA TakeCount ==
  ASSUME NEW r \in Requests, TypeOK, Fresh, pc[r] \in {"batchReserve", "publicReserve"},
         Take(r)
  PROVE  Cardinality(Seated') = Cardinality(Seated) + size[r]
<1>1. SeatsOf(r) \subseteq Seat /\ Cardinality(SeatsOf(r)) = size[r]
  BY SeatsOfCount DEF TypeOK
<1>2. \A s \in SeatsOf(r) : slot[s] = "free"
  BY <1>1 DEF SeatsOf, Fresh
<1>3. Seated' = Seated \cup SeatsOf(r)
  BY <1>1, <1>2 DEF Take, Seated
<1>4. Seated \cap SeatsOf(r) = {}
  BY <1>2 DEF Seated
<1>5. IsFiniteSet(Seated) /\ IsFiniteSet(SeatsOf(r)) /\ Cardinality(Seated) \in Nat
  BY <1>1, SeatFinite DEF Seated
<1>6. Cardinality(Seated') = Cardinality(Seated) + size[r] - Cardinality({})
  BY <1>1, <1>3, <1>4, <1>5, FS_Union
<1>7. QED
  BY <1>5, <1>6, FS_EmptySet DEF TypeOK

\* A request that gives seats back holds each of them.
LEMMA ReleaseCount ==
  ASSUME NEW r \in Requests, TypeOK, Release(r)
  PROVE  /\ Cardinality(Rejected(r)) \in Nat
         /\ Cardinality(Seated') \in Nat
         /\ Cardinality(Seated') = Cardinality(Seated) - Cardinality(Rejected(r))
<1>1. Rejected(r) \subseteq Seated
  <2>1. SeatsOf(r) \subseteq Seat
    BY SeatsOfCount DEF TypeOK
  <2>2. QED
    BY <2>1 DEF Rejected, Seated
<1>2. Seated' = Seated \ Rejected(r)
  <2>1. \A s \in Seat : slot'[s] = IF s \notin Rejected(r) THEN slot[s]
                                   ELSE IF slot[s] = "failed" THEN "returned" ELSE "stray"
    BY DEF Release
  <2>2. \A s \in Seat : s \in Seated' <=> s \in Seated /\ s \notin Rejected(r)
    BY <2>1 DEF Seated
  <2>3. QED
    BY <2>2 DEF Seated
<1>3. /\ IsFiniteSet(Seated) /\ Cardinality(Rejected(r)) \in Nat
      /\ Cardinality(Seated') \in Nat
  BY <1>1, <1>2, SeatFinite DEF Seated
<1>4. Cardinality(Seated') = Cardinality(Seated) - Cardinality(Seated \cap Rejected(r))
  BY <1>2, <1>3, FS_Difference
<1>5. Seated \cap Rejected(r) = Rejected(r)
  BY <1>1
<1>6. QED
  BY <1>3, <1>4, <1>5

-----------------------------------------------------------------------------

LEMMA InitInv == Init => Inv
<1> SUFFICES ASSUME Init PROVE Inv
  OBVIOUS
<1>1. TypeOK
  <2>1. stale \in BOOLEAN /\ enforce \in [Requests -> BOOLEAN]
    BY Zenon DEF Init
  <2>2. status \in {Pending, Success} /\ settle \in {"settled", "qpay", "tail"}
    BY DEF Init
  <2>3. QED
    BY <2>1, <2>2, SeatsAssumption DEF Init, TypeOK, Row, SlotState
<1>2. Fresh /\ PendingRow /\ PaidIsEnforced
  BY SeatsAssumption DEF Init, Fresh, PendingRow, PaidIsEnforced, Seat
<1>3. SeatAccounting
  <2>1. Seated = {}
    BY DEF Init, Seated
  <2>2. QED
    BY <2>1, FS_EmptySet DEF Init, SeatAccounting
<1>4. WithinQuota
  BY SeatsAssumption DEF Init, WithinQuota
<1>5. QED
  BY <1>1, <1>2, <1>3, <1>4 DEF Inv

\* A step that moves no seat between taken and free, and leaves the row alone,
\* keeps the accounts.
LEMMA SeatsUntouched ==
  ASSUME SeatAccounting, WithinQuota,
         UNCHANGED <<usedUserCount, count, soldAt, stale>>, Seated' = Seated
  PROVE  SeatAccounting' /\ WithinQuota'
BY DEF SeatAccounting, WithinQuota

LEMMA NextInv == Inv /\ [Next]_vars => Inv'
<1> SUFFICES ASSUME Inv, [Next]_vars PROVE Inv'
  OBVIOUS
<1> USE SeatsAssumption
<1> USE DEF Inv, TypeOK, Row, rowVars, settleVars, reqVars, examVars, Goto,
      Active, Ended, SlotState
<1>1. ASSUME NEW r \in Requests, NEW n \in 1..MaxBatch, StartBatch(r, n) PROVE Inv'
  <2>1. TypeOK'
    BY <1>1 DEF StartBatch
  <2>2. Fresh'
    BY <1>1 DEF StartBatch, Fresh, Seat, SeatsOf
  <2>3. (PendingRow /\ PaidIsEnforced)'
    BY <1>1 DEF StartBatch, PendingRow, PaidIsEnforced
  <2>4. Seated' = Seated
    BY <1>1 DEF StartBatch, Seated
  <2>5. (SeatAccounting /\ WithinQuota)'
    BY <1>1, <2>4, SeatsUntouched DEF StartBatch
  <2>6. QED
    BY <2>1, <2>2, <2>3, <2>5
<1>2. ASSUME NEW r \in Requests, NEW c \in Contacts, StartPublic(r, c) PROVE Inv'
  <2>1. TypeOK'
    BY <1>2 DEF StartPublic, Reusable, ExamRows
  <2>2. Fresh'
    BY <1>2 DEF StartPublic, Reusable, ExamRows, Fresh, Seat, SeatsOf
  <2>3. (PendingRow /\ PaidIsEnforced)'
    BY <1>2 DEF StartPublic, Reusable, ExamRows, PendingRow, PaidIsEnforced
  <2>4. Seated' = Seated
    BY <1>2 DEF StartPublic, Reusable, ExamRows, Seated
  <2>5. (SeatAccounting /\ WithinQuota)'
    BY <1>2, <2>4, SeatsUntouched DEF StartPublic, Reusable, ExamRows
  <2>6. QED
    BY <2>1, <2>2, <2>3, <2>5
<1>3. ASSUME NEW r \in Requests, NEW n \in 1..MaxBatch, NEW unit \in Units, StartTopUp(r, n, unit) PROVE Inv'
  <2>1. TypeOK'
    BY <1>3 DEF StartTopUp
  <2>2. Fresh'
    BY <1>3 DEF StartTopUp, Fresh, Seat, SeatsOf
  <2>3. (PendingRow /\ PaidIsEnforced)'
    BY <1>3 DEF StartTopUp, PendingRow, PaidIsEnforced
  <2>4. Seated' = Seated
    BY <1>3 DEF StartTopUp, Seated
  <2>5. (SeatAccounting /\ WithinQuota)'
    BY <1>3, <2>4, SeatsUntouched DEF StartTopUp
  <2>6. QED
    BY <2>1, <2>2, <2>3, <2>5
<1>4. ASSUME NEW r \in Requests, Lookup(r) PROVE Inv'
  <2>1. TypeOK'
    BY <1>4 DEF Lookup
  <2>2. Fresh'
    BY <1>4 DEF Lookup, Fresh, Seat, SeatsOf
  <2>3. (PendingRow /\ PaidIsEnforced)'
    BY <1>4 DEF Lookup, PendingRow, PaidIsEnforced
  <2>4. Seated' = Seated
    BY <1>4 DEF Lookup, Seated
  <2>5. (SeatAccounting /\ WithinQuota)'
    BY <1>4, <2>4, SeatsUntouched DEF Lookup
  <2>6. QED
    BY <2>1, <2>2, <2>3, <2>5
<1>5. ASSUME NEW r \in Requests, FinishBatch(r) PROVE Inv'
  <2>1. TypeOK'
    BY <1>5 DEF FinishBatch
  <2>2. Fresh'
    BY <1>5 DEF FinishBatch, Fresh, Seat, SeatsOf
  <2>3. (PendingRow /\ PaidIsEnforced)'
    BY <1>5 DEF FinishBatch, PendingRow, PaidIsEnforced
  <2>4. Seated' = Seated
    BY <1>5 DEF FinishBatch, Seated
  <2>5. (SeatAccounting /\ WithinQuota)'
    BY <1>5, <2>4, SeatsUntouched DEF FinishBatch
  <2>6. QED
    BY <2>1, <2>2, <2>3, <2>5
<1>6. ASSUME NEW r \in Requests, NameExam(r) PROVE Inv'
  <2>1. TypeOK'
    BY <1>6 DEF NameExam
  <2>2. Fresh'
    BY <1>6 DEF NameExam, Fresh, Seat, SeatsOf
  <2>3. (PendingRow /\ PaidIsEnforced)'
    BY <1>6 DEF NameExam, PendingRow, PaidIsEnforced
  <2>4. Seated' = Seated
    BY <1>6 DEF NameExam, Seated
  <2>5. (SeatAccounting /\ WithinQuota)'
    BY <1>6, <2>4, SeatsUntouched DEF NameExam
  <2>6. QED
    BY <2>1, <2>2, <2>3, <2>5
<1>7. ASSUME NEW r \in Requests, NameExamFails(r) PROVE Inv'
  <2>1. TypeOK'
    BY <1>7 DEF NameExamFails
  <2>2. Fresh'
    BY <1>7 DEF NameExamFails, Fresh, Seat, SeatsOf
  <2>3. (PendingRow /\ PaidIsEnforced)'
    BY <1>7 DEF NameExamFails, PendingRow, PaidIsEnforced
  <2>4. Seated' = Seated
    BY <1>7 DEF NameExamFails, Seated
  <2>5. (SeatAccounting /\ WithinQuota)'
    BY <1>7, <2>4, SeatsUntouched DEF NameExamFails
  <2>6. QED
    BY <2>1, <2>2, <2>3, <2>5
<1>8. ASSUME NEW r \in Requests, ReleaseFails(r) PROVE Inv'
  <2>1. TypeOK'
    BY <1>8 DEF ReleaseFails, Filling
  <2>2. Fresh'
    BY <1>8 DEF ReleaseFails, Filling, Fresh, Seat, SeatsOf
  <2>3. (PendingRow /\ PaidIsEnforced)'
    BY <1>8 DEF ReleaseFails, Filling, PendingRow, PaidIsEnforced
  <2>4. Seated' = Seated
    BY <1>8 DEF ReleaseFails, Filling, Seated
  <2>5. (SeatAccounting /\ WithinQuota)'
    BY <1>8, <2>4, SeatsUntouched DEF ReleaseFails, Filling
  <2>6. QED
    BY <2>1, <2>2, <2>3, <2>5
<1>9. ASSUME NEW r \in Requests, TopUpRefused(r) PROVE Inv'
  <2>1. TypeOK'
    BY <1>9 DEF TopUpRefused
  <2>2. Fresh'
    BY <1>9 DEF TopUpRefused, Fresh, Seat, SeatsOf
  <2>3. (PendingRow /\ PaidIsEnforced)'
    BY <1>9 DEF TopUpRefused, PendingRow, PaidIsEnforced
  <2>4. Seated' = Seated
    BY <1>9 DEF TopUpRefused, Seated
  <2>5. (SeatAccounting /\ WithinQuota)'
    BY <1>9, <2>4, SeatsUntouched DEF TopUpRefused
  <2>6. QED
    BY <2>1, <2>2, <2>3, <2>5
<1>10. ASSUME NEW r \in Requests, Crash(r) PROVE Inv'
  <2>1. TypeOK'
    BY <1>10 DEF Crash
  <2>2. Fresh'
    BY <1>10 DEF Crash, Fresh, Seat, SeatsOf
  <2>3. (PendingRow /\ PaidIsEnforced)'
    BY <1>10 DEF Crash, PendingRow, PaidIsEnforced
  <2>4. Seated' = Seated
    BY <1>10 DEF Crash, Seated
  <2>5. (SeatAccounting /\ WithinQuota)'
    BY <1>10, <2>4, SeatsUntouched DEF Crash
  <2>6. QED
    BY <2>1, <2>2, <2>3, <2>5
<1>11. ASSUME NEW s \in Seat, SaveExam(s) PROVE Inv'
  <2>1. TypeOK'
    BY <1>11 DEF SaveExam, Advance, Filling
  <2>2. Fresh'
    BY <1>11 DEF SaveExam, Advance, Filling, Fresh, Seat, SeatsOf
  <2>3. (PendingRow /\ PaidIsEnforced)'
    BY <1>11 DEF SaveExam, Advance, Filling, PendingRow, PaidIsEnforced
  <2>4. Seated' = Seated
    BY <1>11 DEF SaveExam, Advance, Filling, Seated
  <2>5. (SeatAccounting /\ WithinQuota)'
    BY <1>11, <2>4, SeatsUntouched DEF SaveExam, Advance, Filling
  <2>6. QED
    BY <2>1, <2>2, <2>3, <2>5
<1>12. ASSUME NEW s \in Seat, SaveExamFails(s) PROVE Inv'
  <2>1. TypeOK'
    BY <1>12 DEF SaveExamFails, Advance, Filling
  <2>2. Fresh'
    BY <1>12 DEF SaveExamFails, Advance, Filling, Fresh, Seat, SeatsOf
  <2>3. (PendingRow /\ PaidIsEnforced)'
    BY <1>12 DEF SaveExamFails, Advance, Filling, PendingRow, PaidIsEnforced
  <2>4. Seated' = Seated
    BY <1>12 DEF SaveExamFails, Advance, Filling, Seated
  <2>5. (SeatAccounting /\ WithinQuota)'
    BY <1>12, <2>4, SeatsUntouched DEF SaveExamFails, Advance, Filling
  <2>6. QED
    BY <2>1, <2>2, <2>3, <2>5
<1>13. ASSUME NEW s \in Seat, RecordExam(s) PROVE Inv'
  <2>1. TypeOK'
    BY <1>13 DEF RecordExam, Advance, Filling
  <2>2. Fresh'
    BY <1>13 DEF RecordExam, Advance, Filling, Fresh, Seat, SeatsOf
  <2>3. (PendingRow /\ PaidIsEnforced)'
    BY <1>13 DEF RecordExam, Advance, Filling, PendingRow, PaidIsEnforced
  <2>4. Seated' = Seated
    BY <1>13 DEF RecordExam, Advance, Filling, Seated
  <2>5. (SeatAccounting /\ WithinQuota)'
    BY <1>13, <2>4, SeatsUntouched DEF RecordExam, Advance, Filling
  <2>6. QED
    BY <2>1, <2>2, <2>3, <2>5
<1>14. ASSUME NEW s \in Seat, RecordExamFails(s) PROVE Inv'
  <2>1. TypeOK'
    BY <1>14 DEF RecordExamFails, Advance, Filling
  <2>2. Fresh'
    BY <1>14 DEF RecordExamFails, Advance, Filling, Fresh, Seat, SeatsOf
  <2>3. (PendingRow /\ PaidIsEnforced)'
    BY <1>14 DEF RecordExamFails, Advance, Filling, PendingRow, PaidIsEnforced
  <2>4. Seated' = Seated
    BY <1>14 DEF RecordExamFails, Advance, Filling, Seated
  <2>5. (SeatAccounting /\ WithinQuota)'
    BY <1>14, <2>4, SeatsUntouched DEF RecordExamFails, Advance, Filling
  <2>6. QED
    BY <2>1, <2>2, <2>3, <2>5
<1>15. ASSUME NEW s \in Seat, NEW c \in Contacts, Invite(s, c) PROVE Inv'
  <2>1. TypeOK'
    BY <1>15 DEF Invite, ExamRows
  <2>2. Fresh'
    BY <1>15 DEF Invite, ExamRows, Fresh, Seat, SeatsOf
  <2>3. (PendingRow /\ PaidIsEnforced)'
    BY <1>15 DEF Invite, ExamRows, PendingRow, PaidIsEnforced
  <2>4. Seated' = Seated
    BY <1>15 DEF Invite, ExamRows, Seated
  <2>5. (SeatAccounting /\ WithinQuota)'
    BY <1>15, <2>4, SeatsUntouched DEF Invite, ExamRows
  <2>6. QED
    BY <2>1, <2>2, <2>3, <2>5
<1>16. ASSUME NEW s \in Seat, Lapse(s) PROVE Inv'
  <2>1. TypeOK'
    BY <1>16 DEF Lapse, ExamRows
  <2>2. Fresh'
    BY <1>16 DEF Lapse, ExamRows, Fresh, Seat, SeatsOf
  <2>3. (PendingRow /\ PaidIsEnforced)'
    BY <1>16 DEF Lapse, ExamRows, PendingRow, PaidIsEnforced
  <2>4. Seated' = Seated
    BY <1>16 DEF Lapse, ExamRows, Seated
  <2>5. (SeatAccounting /\ WithinQuota)'
    BY <1>16, <2>4, SeatsUntouched DEF Lapse, ExamRows
  <2>6. QED
    BY <2>1, <2>2, <2>3, <2>5
<1>17. ASSUME ClaimSuccess PROVE Inv'
  <2>1. TypeOK'
    BY <1>17 DEF ClaimSuccess
  <2>2. Fresh'
    BY <1>17 DEF ClaimSuccess, Fresh, Seat, SeatsOf
  <2>3. (PendingRow /\ PaidIsEnforced)'
    BY <1>17 DEF ClaimSuccess, PendingRow, PaidIsEnforced
  <2>4. Seated' = Seated
    BY <1>17 DEF ClaimSuccess, Seated
  <2>5. (SeatAccounting /\ WithinQuota)'
    BY <1>17, <2>4, SeatsUntouched DEF ClaimSuccess
  <2>6. QED
    BY <2>1, <2>2, <2>3, <2>5
<1>18. ASSUME ReadRow PROVE Inv'
  <2>1. TypeOK'
    BY <1>18 DEF ReadRow, CurrentRow
  <2>2. Fresh'
    BY <1>18 DEF ReadRow, CurrentRow, Fresh, Seat, SeatsOf
  <2>3. (PendingRow /\ PaidIsEnforced)'
    BY <1>18 DEF ReadRow, CurrentRow, PendingRow, PaidIsEnforced
  <2>4. Seated' = Seated
    BY <1>18 DEF ReadRow, CurrentRow, Seated
  <2>5. (SeatAccounting /\ WithinQuota)'
    BY <1>18, <2>4, SeatsUntouched DEF ReadRow, CurrentRow
  <2>6. QED
    BY <2>1, <2>2, <2>3, <2>5
<1>19. ASSUME SettleFails PROVE Inv'
  <2>1. TypeOK'
    BY <1>19 DEF SettleFails
  <2>2. Fresh'
    BY <1>19 DEF SettleFails, Fresh, Seat, SeatsOf
  <2>3. (PendingRow /\ PaidIsEnforced)'
    BY <1>19 DEF SettleFails, PendingRow, PaidIsEnforced
  <2>4. Seated' = Seated
    BY <1>19 DEF SettleFails, Seated
  <2>5. (SeatAccounting /\ WithinQuota)'
    BY <1>19, <2>4, SeatsUntouched DEF SettleFails
  <2>6. QED
    BY <2>1, <2>2, <2>3, <2>5
<1>20. ASSUME UNCHANGED vars PROVE Inv'
  <2>1. TypeOK'
    BY <1>20 DEF vars
  <2>2. Fresh'
    BY <1>20 DEF vars, Fresh, Seat, SeatsOf
  <2>3. (PendingRow /\ PaidIsEnforced)'
    BY <1>20 DEF vars, PendingRow, PaidIsEnforced
  <2>4. Seated' = Seated
    BY <1>20 DEF vars, Seated
  <2>5. (SeatAccounting /\ WithinQuota)'
    BY <1>20, <2>4, SeatsUntouched DEF vars
  <2>6. QED
    BY <2>1, <2>2, <2>3, <2>5
<1>21. ASSUME NEW r \in Requests, Reserve(r) PROVE Inv'
  <2>1. CASE SeatsLeft(r)
    <3>1. Take(r)
      BY <1>21, <2>1 DEF Reserve
    <3>2. TypeOK'
      BY <1>21, <3>1 DEF Reserve, Take
    <3>3. Fresh'
      BY <1>21, <3>1 DEF Reserve, Take, Fresh, Seat, SeatsOf
    <3>4. (PendingRow /\ PaidIsEnforced)'
      BY <1>21, <3>1 DEF Reserve, Take, PendingRow, PaidIsEnforced
    <3>5. Cardinality(Seated') = Cardinality(Seated) + size[r]
      BY <1>21, <3>1, TakeCount DEF Reserve
    <3>6. SeatAccounting'
      BY <1>21, <3>1, <3>5 DEF Reserve, Take, SeatAccounting
    <3>7. WithinQuota'
      BY <1>21, <2>1, <3>1 DEF Reserve, Take, SeatsLeft, WithinQuota, PaidIsEnforced
    <3>8. QED
      BY <3>2, <3>3, <3>4, <3>6, <3>7
  <2>2. CASE ~SeatsLeft(r)
    <3>1. UNCHANGED <<usedUserCount, slot>> /\ pc' = [pc EXCEPT ![r] = "refused"]
      BY <1>21, <2>2 DEF Reserve
    <3>2. TypeOK' /\ Fresh' /\ (PendingRow /\ PaidIsEnforced)'
      BY <1>21, <3>1 DEF Reserve, Fresh, Seat, SeatsOf, PendingRow, PaidIsEnforced
    <3>3. (SeatAccounting /\ WithinQuota)'
      BY <1>21, <3>1 DEF Reserve, SeatAccounting, Seated, WithinQuota
    <3>4. QED
      BY <3>2, <3>3
  <2>3. QED
    BY <2>1, <2>2
<1>22. ASSUME NEW r \in Requests, Release(r) PROVE Inv'
  <2>1. /\ Cardinality(Rejected(r)) \in Nat
        /\ Cardinality(Seated') \in Nat
        /\ Cardinality(Seated') = Cardinality(Seated) - Cardinality(Rejected(r))
    BY <1>22, ReleaseCount
  <2>2. TypeOK'
    BY <1>22, <2>1 DEF Release, GiveBack
  <2>3. Fresh'
    BY <1>22 DEF Release, Filling, Rejected, Fresh, Seat, SeatsOf
  <2>4. (PendingRow /\ PaidIsEnforced)'
    BY <1>22 DEF Release, PendingRow, PaidIsEnforced
  <2>5. SeatAccounting'
    BY <1>22, <2>1 DEF Release, GiveBack, SeatAccounting
  <2>6. WithinQuota'
    BY <1>22, <2>1 DEF Release, GiveBack, WithinQuota
  <2>7. QED
    BY <2>2, <2>3, <2>4, <2>5, <2>6
<1>23. ASSUME NEW r \in Requests, TopUp(r) PROVE Inv'
  <2>1. TypeOK' /\ Fresh'
    BY <1>23 DEF TopUp, Fresh, Seat, SeatsOf
  <2>2. (PendingRow /\ PaidIsEnforced)'
    BY <1>23 DEF TopUp, PendingRow, PaidIsEnforced, Pending, Success
  <2>3. (SeatAccounting /\ WithinQuota)'
    BY <1>23 DEF TopUp, SeatAccounting, Seated, WithinQuota
  <2>4. QED
    BY <2>1, <2>2, <2>3
<1>24. ASSUME SaveRow PROVE Inv'
  <2>1. stale' \in BOOLEAN
    BY <1>24, Zenon DEF SaveRow
  <2>2. TypeOK' /\ Fresh'
    BY <1>24, <2>1 DEF SaveRow, Fresh, Seat, SeatsOf
  <2>3. (PendingRow /\ PaidIsEnforced)'
    BY <1>24 DEF SaveRow, PendingRow, PaidIsEnforced, Pending, Success
  <2>4. (SeatAccounting /\ WithinQuota)'
    <3>1. CASE stale'
      BY <3>1 DEF SeatAccounting, WithinQuota
    <3>2. CASE ~stale'
      <4>1. ~stale /\ snap = CurrentRow
        BY <1>24, <3>2, Zenon DEF SaveRow
      <4>2. UNCHANGED <<usedUserCount, count, soldAt>> /\ Seated' = Seated
        BY <1>24, <4>1 DEF SaveRow, CurrentRow, Seated
      <4>3. QED
        BY <3>2, <4>1, <4>2 DEF SeatAccounting, WithinQuota
    <3>3. QED
      BY <3>1, <3>2
  <2>5. QED
    BY <2>2, <2>3, <2>4
<1>25. QED
  BY <1>1, <1>2, <1>3, <1>4, <1>5, <1>6, <1>7, <1>8, <1>9, <1>10, <1>11, <1>12,
    <1>13, <1>14, <1>15, <1>16, <1>17, <1>18, <1>19, <1>20, <1>21, <1>22,
    <1>23, <1>24
    DEF Next, RequestStep, SeatStep, RowStep, Quiescent

-----------------------------------------------------------------------------

LEMMA Invariance == Spec => []Inv
<1>1. QED
  BY InitInv, NextInv, PTL DEF Spec

\* Every variable of Seats keeps its type.
THEOREM TypeCorrect == Spec => []TypeOK
<1>1. Inv => TypeOK
  BY DEF Inv
<1>2. QED
  BY Invariance, <1>1, PTL

\* usedUserCount counts exactly the seats taken and not given back, unless
\* updateStatus overwrote it.
THEOREM SeatsAccountedFor == Spec => []SeatAccounting
<1>1. Inv => SeatAccounting
  BY DEF Inv
<1>2. QED
  BY Invariance, <1>1, PTL

\* A service sold for money never has more seats taken than were sold,
\* unless updateStatus overwrote its counter.
THEOREM QuotaNeverExceeded == Spec => []NoOversell
<1>1. Inv => NoOversell
  BY DEF Inv, SeatAccounting, WithinQuota, NoOversell
<1>2. QED
  BY Invariance, <1>1, PTL

\* Seats and price added by a top-up are never taken back.
THEOREM TopUpsLast == Spec => TopUpNeverUndone
<1>1. Inv /\ [Next]_vars => [count' >= count /\ price' >= price]_vars
  <2> SUFFICES ASSUME Inv, Next PROVE count' >= count /\ price' >= price
    BY DEF Inv, TypeOK, vars, rowVars
  <2> USE DEF Inv, TypeOK, rowVars
  <2>1. CASE \E r \in Requests : TopUp(r)
    BY <2>1, SeatsAssumption DEF TopUp
  <2>2. CASE SaveRow
    BY <2>2 DEF SaveRow, PendingRow
  <2>3. CASE UNCHANGED <<count, price>>
    BY <2>3
  <2>4. QED
    BY <2>1, <2>2, <2>3 DEF Next, RequestStep, SeatStep, RowStep, StartBatch,
      StartPublic, StartTopUp, Lookup, Reserve, FinishBatch, NameExam,
      NameExamFails, Release, ReleaseFails, TopUpRefused, Crash, Advance,
      SaveExam, SaveExamFails, RecordExam, RecordExamFails, Invite, Lapse,
      ClaimSuccess, ReadRow, SettleFails, Quiescent, vars
<1>2. QED
  BY Invariance, <1>1, PTL DEF Spec, TopUpNeverUndone

-----------------------------------------------------------------------------
(* A second visit.  The rows that carried the visitor's address when the   *)
(* visit began, and still do, stay exam rows; once Lookup found none to    *)
(* offer, they have all lapsed, and a lapsed row never comes back.         *)

Traced ==
  \A r \in Requests :
    /\ pc[r] \in {"lookup", "publicReserve"} =>
         \A s \in before[r] : s \in ExamRows /\ named[s] = who[r]
    /\ pc[r] = "publicReserve" => before[r] \subseteq lapsed

LEMMA InitTraced == Init => Traced
BY DEF Init, Traced

LEMMA NextTraced == Inv /\ Traced /\ [Next]_vars => Traced'
<1> SUFFICES ASSUME Inv, Traced, [Next]_vars PROVE Traced'
  OBVIOUS
<1> USE SeatsAssumption
<1> USE DEF Inv, TypeOK, Traced, ExamRows, rowVars, settleVars, reqVars,
      examVars, Goto, Active, Ended, SlotState
<1>1. ASSUME NEW r \in Requests, NEW n \in 1..MaxBatch, StartBatch(r, n) PROVE Traced'
  BY <1>1 DEF StartBatch
<1>2. ASSUME NEW r \in Requests, NEW c \in Contacts, StartPublic(r, c) PROVE Traced'
  BY <1>2 DEF StartPublic, Reusable
<1>3. ASSUME NEW r \in Requests, NEW n \in 1..MaxBatch, NEW unit \in Units, StartTopUp(r, n, unit) PROVE Traced'
  BY <1>3 DEF StartTopUp
<1>4. ASSUME NEW r \in Requests, Lookup(r) PROVE Traced'
  BY <1>4 DEF Lookup, Reusable
<1>5. ASSUME NEW r \in Requests, Reserve(r) PROVE Traced'
  BY <1>5 DEF Reserve, Take, Fresh, SeatsOf, Seat
<1>6. ASSUME NEW r \in Requests, FinishBatch(r) PROVE Traced'
  BY <1>6 DEF FinishBatch
<1>7. ASSUME NEW r \in Requests, NameExam(r) PROVE Traced'
  BY <1>7 DEF NameExam
<1>8. ASSUME NEW r \in Requests, NameExamFails(r) PROVE Traced'
  BY <1>8 DEF NameExamFails
<1>9. ASSUME NEW r \in Requests, Release(r) PROVE Traced'
  BY <1>9 DEF Release, Filling, Rejected, SeatsOf
<1>10. ASSUME NEW r \in Requests, ReleaseFails(r) PROVE Traced'
  BY <1>10 DEF ReleaseFails, Filling
<1>11. ASSUME NEW r \in Requests, TopUp(r) PROVE Traced'
  BY <1>11 DEF TopUp
<1>12. ASSUME NEW r \in Requests, TopUpRefused(r) PROVE Traced'
  BY <1>12 DEF TopUpRefused
<1>13. ASSUME NEW r \in Requests, Crash(r) PROVE Traced'
  BY <1>13 DEF Crash
<1>14. ASSUME NEW s \in Seat, SaveExam(s) PROVE Traced'
  BY <1>14 DEF SaveExam, Advance
<1>15. ASSUME NEW s \in Seat, SaveExamFails(s) PROVE Traced'
  BY <1>15 DEF SaveExamFails, Advance
<1>16. ASSUME NEW s \in Seat, RecordExam(s) PROVE Traced'
  BY <1>16 DEF RecordExam, Advance
<1>17. ASSUME NEW s \in Seat, RecordExamFails(s) PROVE Traced'
  BY <1>17 DEF RecordExamFails, Advance
<1>18. ASSUME NEW s \in Seat, NEW c \in Contacts, Invite(s, c) PROVE Traced'
  BY <1>18 DEF Invite
<1>19. ASSUME NEW s \in Seat, Lapse(s) PROVE Traced'
  BY <1>19 DEF Lapse
<1>20. ASSUME RowStep PROVE Traced'
  BY <1>20 DEF RowStep, ClaimSuccess, ReadRow, SaveRow, SettleFails
<1>21. ASSUME UNCHANGED vars PROVE Traced'
  BY <1>21 DEF vars
<1>22. QED
  BY <1>1, <1>2, <1>3, <1>4, <1>5, <1>6, <1>7, <1>8, <1>9, <1>10, <1>11, <1>12, <1>13, <1>14, <1>15, <1>16, <1>17, <1>18, <1>19, <1>20, <1>21
    DEF Next, RequestStep, SeatStep, Quiescent

LEMMA TracedInvariance == Spec => []Traced
<1>1. QED
  BY InitTraced, NextTraced, Invariance, PTL DEF Spec

\* A person whose address stands on an exam row that is still offered takes
\* no second seat by registering again.
THEOREM NoSecondSeat == Spec => SecondVisitTakesNoSeat
<1>1. Inv /\ Traced /\ [Next]_vars =>
        [\A r \in Requests :
           pc[r] = "publicReserve" /\ pc'[r] = "publicFill"
             => before[r] \cap Reusable(who[r]) = {}]_vars
  BY DEF Traced, Reusable
<1>2. QED
  BY Invariance, TracedInvariance, <1>1, PTL DEF Spec, SecondVisitTakesNoSeat

-----------------------------------------------------------------------------
(* What the studio keeps for one test                                      *)

SaveTasks == [at : {"insertRow", "updateRow", "sync"}, version : Nat \ {Nothing}, alone : BOOLEAN]
OtherTasks ==
  {Done} \cup [at : {"export"}, found : Nat, before : Nat] \cup [at : {"exported"}, before : Nat, data : Nat]
    \cup [at : {"saveVar", "removeVar", "bundle"}, id : Nat]
    \cup [at : {"import"}, has : BOOLEAN] \cup [at : {"write"}, has : BOOLEAN, id : Nat]

StudioShape ==
  /\ {row, edits, ids, variable, shows} \subseteq Nat
  /\ json \in [Pages -> Nat] /\ loaded \in [Pages -> Nat]
  /\ active \in Pages \cup {Nothing} /\ task \in [Users -> SaveTasks \cup OtherTasks]

\* A save that nothing overlapped is the only one, and its version is in the
\* row until it is everywhere.
SavesApart ==
  /\ \A u \in SavingData : task[u].alone =>
       /\ SavingData = {u}
       /\ task[u].at = "sync" => row = task[u].version
  /\ shows # Nothing => SavingData = {} /\ LastSaveShows

\* Data does not vanish while an export reads, a variable not unnoticed.
ReadsHold ==
  /\ \A u \in Users : Doing(u, "export") /\ task[u].before # Nothing => row # Nothing
  /\ NeverBlank
VariableHolds ==
  /\ \A u \in Users \ removals : task[u].at \in {"bundle", "import", "write"} => variable # Nothing
  /\ ImportsWhole

StudioInv == StudioShape /\ SavesApart /\ ReadsHold /\ VariableHolds

LEMMA SavingTasks ==
  ASSUME StudioShape
  PROVE  /\ \A u \in Users : u \in SavingData <=> task[u] \in SaveTasks
         /\ \A u \in Users \ SavingData : task[u] \in OtherTasks
         /\ SavingData \subseteq Users
<1>1. \A d \in OtherTasks : d.at \notin {"insertRow", "updateRow", "sync"}
  BY DEF OtherTasks, Done
<1>2. \A d \in SaveTasks : d.at \in {"insertRow", "updateRow", "sync"}
  BY DEF SaveTasks
<1>3. \A u \in Users : task[u] \in SaveTasks \cup OtherTasks
  BY DEF StudioShape
<1> QED BY <1>1, <1>2, <1>3 DEF SavingData

LEMMA StudioInitInv == StudioInit => StudioInv
<1> SUFFICES ASSUME StudioInit PROVE StudioInv
  OBVIOUS
<1>1. StudioShape
  BY DEF StudioInit, StudioShape, OtherTasks, Nothing
<1>2. \A u \in Users : task[u].at = "none"
  BY DEF StudioInit, Done
<1> QED BY <1>1, <1>2 DEF StudioInit, StudioInv, SavesApart, SavingData, ReadsHold, NeverBlank, VariableHolds,
                          ImportsWhole, Doing, Nothing

\* A user who saves no data goes on, to what is no save of data.
LEMMA AsideStep ==
  ASSUME StudioInv, NEW u \in Users \ SavingData, NEW d \in OtherTasks, Set(u, d),
         UNCHANGED <<Data, edits, shows>>, {variable', ids'} \subseteq Nat,
         d.at = "export" /\ d.before # Nothing => row # Nothing,
         d.at = "exported" /\ d.before # Nothing => d.data # Nothing
  PROVE  /\ StudioShape' /\ SavesApart' /\ ReadsHold'
         /\ task'[u] = d /\ \A w \in Users \ {u} : task'[w] = task[w]
<1>1. task'[u] = d /\ (\A w \in Users \ {u} : task'[w] = task[w]) /\ task' \in [Users -> SaveTasks \cup OtherTasks]
  BY DEF Set, StudioInv, StudioShape
<1>2. UNCHANGED <<active, json, row, loaded, edits, shows>>
  BY DEF Data
<1>3. StudioShape'
  BY <1>1, <1>2 DEF StudioInv, StudioShape
<1>4. SavingData' = SavingData
  <2>1. d.at \notin {"insertRow", "updateRow", "sync"}
    BY DEF OtherTasks, Done
  <2> QED BY <1>1, <2>1 DEF SavingData
<1>5. LastSaveShows' <=> LastSaveShows
  BY <1>2 DEF LastSaveShows, Exported
<1>6. SavesApart'
  BY <1>1, <1>2, <1>4, <1>5 DEF StudioInv, SavesApart, SavingData
<1>7. ReadsHold'
  BY <1>1, <1>2 DEF StudioInv, ReadsHold, NeverBlank, Doing
<1> QED BY <1>1, <1>3, <1>6, <1>7

\* Saves that something overlaps go on.
LEMMA OverlapFacts ==
  ASSUME StudioShape
  PROVE  /\ Overlap \in [Users -> SaveTasks \cup OtherTasks]
         /\ \A w \in SavingData : w \in Users /\ Overlap[w] \in SaveTasks /\ ~Overlap[w].alone
         /\ \A w \in Users \ SavingData : Overlap[w] = task[w]
<1>1. ASSUME NEW w \in SavingData PROVE w \in Users /\ Overlap[w] \in SaveTasks /\ ~Overlap[w].alone
  <2>1. w \in Users /\ task[w] \in SaveTasks
    BY <1>1, SavingTasks
  <2>2. Overlap[w] = [task[w] EXCEPT !.alone = FALSE]
    BY <1>1, <2>1 DEF Overlap
  <2> QED BY <2>1, <2>2 DEF SaveTasks
<1>2. \A w \in Users \ SavingData : Overlap[w] = task[w] /\ task[w] \in OtherTasks
  BY SavingTasks DEF Overlap
<1>3. \A w \in Users : Overlap[w] \in SaveTasks \cup OtherTasks
  BY <1>1, <1>2
<1>4. Overlap \in [Users -> SaveTasks \cup OtherTasks]
  BY <1>3 DEF Overlap
<1> QED BY <1>1, <1>2, <1>4

\* A save of data begins.
LEMMA SaveAiDataStep == ASSUME StudioInv, NEW u \in Users, SaveAiData(u) PROVE StudioInv'
<1> DEFINE d == [at |-> IF row = Nothing THEN "insertRow" ELSE "updateRow",
                 version |-> edits + 1, alone |-> SavingData = {}]
<1>1. /\ task' = [Overlap EXCEPT ![u] = d] /\ task[u].at = "none" /\ edits' = edits + 1
      /\ shows' = Nothing /\ UNCHANGED <<active, json, row, loaded, variable, ids, bare, removals>>
  BY DEF SaveAiData, Doing, Data, Variable
<1>2. StudioShape /\ edits \in Nat
  BY DEF StudioInv, StudioShape
<1>3. d \in SaveTasks /\ (d.alone <=> SavingData = {}) /\ d.at \in {"insertRow", "updateRow"}
  <2>1. edits + 1 \in Nat \ {Nothing}
    BY <1>2 DEF Nothing
  <2>2. (SavingData = {}) \in BOOLEAN
    BY Zenon
  <2> QED BY <2>1, <2>2 DEF SaveTasks
<1> HIDE DEF d
<1>4. u \notin SavingData /\ SavingData \subseteq Users
  BY <1>1 DEF SavingData
<1>5. ASSUME NEW w \in Users \ {u}, w \in SavingData
      PROVE  task'[w] \in SaveTasks /\ ~task'[w].alone
  BY <1>1, <1>2, <1>5, OverlapFacts
<1>6. \A w \in Users \ {u} : w \notin SavingData => task'[w] = task[w]
  BY <1>1, <1>2, OverlapFacts
<1>7. task'[u] = d
  BY <1>1, <1>2, OverlapFacts
<1>8. task' \in [Users -> SaveTasks \cup OtherTasks]
  BY <1>1, <1>2, <1>3, OverlapFacts
<1>9. StudioShape'
  BY <1>1, <1>2, <1>8 DEF StudioShape, Nothing
<1>10. SavingData' = SavingData \cup {u}
  <2>1. \A w \in Users \ {u} : w \in SavingData => task'[w].at \in {"insertRow", "updateRow", "sync"}
    BY <1>5 DEF SaveTasks
  <2>2. \A w \in Users \ {u} : w \notin SavingData => task'[w].at \notin {"insertRow", "updateRow", "sync"}
    BY <1>6 DEF SavingData
  <2> QED BY <1>3, <1>4, <1>7, <2>1, <2>2 DEF SavingData
<1>11. SavesApart'
  BY <1>1, <1>3, <1>4, <1>5, <1>7, <1>10 DEF SavesApart
<1>12. \A w \in Users : task'[w].at \notin {"insertRow", "updateRow", "sync"} => w # u /\ task'[w] = task[w]
  BY <1>3, <1>5, <1>6, <1>7 DEF SaveTasks
<1>13. ReadsHold' /\ VariableHolds'
  BY <1>1, <1>12 DEF StudioInv, ReadsHold, NeverBlank, VariableHolds, ImportsWhole, Doing
<1> QED BY <1>9, <1>11, <1>13 DEF StudioInv

LEMMA WriteRowStep == ASSUME StudioInv, NEW u \in Users, WriteRow(u) PROVE StudioInv'
<1>1. /\ task[u].at \in {"insertRow", "updateRow"} /\ row' = task[u].version
      /\ task' = [task EXCEPT ![u] = [task[u] EXCEPT !.at = "sync"]]
      /\ UNCHANGED <<active, json, loaded, variable, ids, bare, edits, shows, removals>>
  BY DEF WriteRow, Doing, Set, Variable
<1>2. StudioShape /\ u \in SavingData /\ shows = Nothing
  BY <1>1 DEF StudioInv, SavesApart, SavingData
<1>3. task[u] \in SaveTasks
  BY <1>2, SavingTasks
<1>4. PICK d \in SaveTasks : d = [task[u] EXCEPT !.at = "sync"]
  BY <1>3 DEF SaveTasks
<1>5. d.at = "sync" /\ d.version = task[u].version /\ d.alone = task[u].alone /\ row' \in Nat \ {Nothing}
  BY <1>1, <1>3, <1>4 DEF SaveTasks
<1>6. task'[u] = d /\ (\A w \in Users \ {u} : task'[w] = task[w]) /\ task' \in [Users -> SaveTasks \cup OtherTasks]
  BY <1>1, <1>2, <1>4 DEF StudioShape
<1>7. StudioShape'
  BY <1>1, <1>2, <1>5, <1>6 DEF StudioShape
<1>8. SavingData' = SavingData
  BY <1>2, <1>5, <1>6 DEF SavingData
<1>9. SavesApart'
  <2>1. ASSUME NEW w \in SavingData, task'[w].alone
        PROVE  SavingData = {w} /\ (task'[w].at = "sync" => row' = task'[w].version)
    <3>1. task[w].alone /\ w \in Users
      BY <1>5, <1>6, <2>1 DEF SavingData
    <3>2. SavingData = {w}
      BY <2>1, <3>1 DEF StudioInv, SavesApart
    <3> QED BY <1>1, <1>2, <1>5, <1>6, <3>2
  <2> QED BY <1>1, <1>2, <1>8, <2>1 DEF SavesApart
<1>10. ReadsHold' /\ VariableHolds'
  BY <1>1, <1>5, <1>6 DEF StudioInv, ReadsHold, NeverBlank, VariableHolds, ImportsWhole, Doing
<1> QED BY <1>7, <1>9, <1>10 DEF StudioInv

\* The save ends, with its copy in the active template or refused.
LEMMA SaveEndStep == ASSUME StudioInv, NEW u \in Users, RefuseRow(u) \/ SyncActive(u) PROVE StudioInv'
<1>1. /\ task[u].at \in {"insertRow", "sync"} /\ task' = [task EXCEPT ![u] = Done]
      /\ UNCHANGED <<active, row, loaded, variable, ids, bare, edits, removals>>
  BY DEF RefuseRow, SyncActive, Doing, Set, Data, Variable
<1>2. StudioShape /\ u \in SavingData /\ shows = Nothing /\ SavesApart
  BY <1>1 DEF StudioInv, SavesApart, SavingData
<1>3. task[u] \in SaveTasks /\ Done \in OtherTasks /\ Done.at = "none"
  BY <1>2, SavingTasks DEF OtherTasks, Done
<1>4. task'[u] = Done /\ (\A w \in Users \ {u} : task'[w] = task[w]) /\ task' \in [Users -> SaveTasks \cup OtherTasks]
  BY <1>1, <1>2, <1>3 DEF StudioShape
<1>5. task[u].version \in Nat \ {Nothing} /\ task[u].alone \in BOOLEAN
  BY <1>3 DEF SaveTasks
<1>6. json' \in [Pages -> Nat] /\ shows' \in Nat
  BY <1>2, <1>5 DEF RefuseRow, SyncActive, Copied, Data, StudioShape
<1>7. StudioShape'
  BY <1>1, <1>2, <1>4, <1>6 DEF StudioShape
<1>8. SavingData' = SavingData \ {u}
  BY <1>3, <1>4 DEF SavingData
<1>9. ASSUME NEW w \in SavingData', task'[w].alone PROVE FALSE
  <2>1. w \in SavingData /\ w \in Users \ {u} /\ task[w].alone
    BY <1>4, <1>8, <1>9 DEF SavingData
  <2>2. SavingData = {w}
    BY <1>2, <2>1 DEF SavesApart
  <2> QED BY <1>2, <2>1, <2>2
<1>10. ASSUME shows' # Nothing PROVE SavingData' = {} /\ LastSaveShows'
  <2>1. task[u].alone /\ SyncActive(u) /\ shows' = task[u].version /\ task[u].at = "sync"
    BY <1>2, <1>10 DEF RefuseRow, SyncActive, Doing
  <2>2. SavingData = {u} /\ row = task[u].version
    BY <1>2, <2>1 DEF SavesApart
  <2>3. json' = Copied(task[u].version)
    BY <2>1 DEF SyncActive
  <2>4. CASE active = Nothing
    BY <1>1, <1>8, <2>1, <2>2, <2>4 DEF LastSaveShows, Exported
  <2>5. CASE active # Nothing
    <3>1. active \in Pages /\ json'[active] = task[u].version
      BY <1>2, <2>3, <2>5 DEF Copied, StudioShape
    <3> QED BY <1>1, <1>5, <1>8, <2>1, <2>2, <2>5, <3>1 DEF LastSaveShows, Exported
  <2> QED BY <2>4, <2>5
<1>11. SavesApart'
  BY <1>8, <1>9, <1>10 DEF SavesApart
<1>12. ReadsHold' /\ VariableHolds'
  BY <1>1, <1>3, <1>4 DEF StudioInv, ReadsHold, NeverBlank, VariableHolds, ImportsWhole, Doing
<1> QED BY <1>7, <1>11, <1>12 DEF StudioInv

\* Templates are opened, saved and activated.
LEMMA TemplateStep ==
  ASSUME StudioInv, (\E p \in Pages : OpenTemplate(p) \/ SaveTemplate(p)) \/ SetActive
  PROVE  StudioInv'
<1>1. /\ UNCHANGED <<row, edits, variable, ids, bare, removals>>
      /\ active' \in Pages \cup {Nothing} /\ json' \in [Pages -> Nat] /\ loaded' \in [Pages -> Nat]
  BY DEF OpenTemplate, SaveTemplate, SetActive, Variable, StudioInv, StudioShape
<1>2. \/ UNCHANGED <<task, shows, active, json>>
      \/ task' = Overlap /\ shows' = Nothing
  BY DEF OpenTemplate, SaveTemplate, SetActive, Turn
<1>3. CASE UNCHANGED <<task, shows, active, json>>
  <2>1. StudioShape'
    BY <1>1, <1>3 DEF StudioInv, StudioShape
  <2>2. SavingData' = SavingData /\ (LastSaveShows' <=> LastSaveShows)
    BY <1>1, <1>3 DEF SavingData, LastSaveShows, Exported
  <2>3. SavesApart'
    BY <1>1, <1>3, <2>2 DEF StudioInv, SavesApart
  <2> QED BY <1>1, <1>3, <2>1, <2>3 DEF StudioInv, ReadsHold, NeverBlank, VariableHolds, ImportsWhole, Doing
<1>4. CASE task' = Overlap /\ shows' = Nothing
  <2>0. StudioShape
    BY DEF StudioInv
  <2>1. \A w \in SavingData : w \in Users /\ task'[w] \in SaveTasks /\ ~task'[w].alone
    BY <1>4, <2>0, OverlapFacts
  <2>2. \A w \in Users \ SavingData : task'[w] = task[w]
    BY <1>4, <2>0, OverlapFacts
  <2>3. task' \in [Users -> SaveTasks \cup OtherTasks]
    BY <1>4, <2>0, OverlapFacts
  <2>4. StudioShape'
    BY <1>1, <1>4, <2>3 DEF StudioInv, StudioShape, Nothing
  <2>5. \A w \in Users : task'[w].at \in {"insertRow", "updateRow", "sync"} => w \in SavingData
    BY <2>2 DEF SavingData
  <2>6. SavesApart'
    BY <1>4, <2>1, <2>5 DEF SavesApart, SavingData
  <2>7. \A w \in Users : task'[w].at \notin {"insertRow", "updateRow", "sync"} => task'[w] = task[w]
    BY <2>1, <2>2 DEF SaveTasks
  <2> QED BY <1>1, <2>4, <2>6, <2>7 DEF StudioInv, ReadsHold, NeverBlank, VariableHolds, ImportsWhole, Doing
<1> QED BY <1>2, <1>3, <1>4

LEMMA ExportStep ==
  ASSUME StudioInv, NEW u \in Users, ReadActive(u) \/ ReadStandalone(u) \/ Deliver(u)
  PROVE  StudioInv'
<1>1. /\ UNCHANGED <<Data, edits, shows, variable, ids, bare, removals>>
      /\ task[u].at \in {"none", "export", "exported"} /\ u \notin SavingData
      /\ UNCHANGED <<active, json, row, loaded>>
  BY DEF ReadActive, ReadStandalone, Deliver, Doing, Data, Variable, SavingData
<1>2. StudioShape /\ {variable', ids'} \subseteq Nat /\ row \in Nat /\ task[u] \in OtherTasks
  BY <1>1, SavingTasks DEF StudioInv, StudioShape
<1>3. PICK d \in OtherTasks :
        /\ Set(u, d) /\ d.at \in {"none", "export", "exported"}
        /\ d.at = "export" /\ d.before # Nothing => row # Nothing
        /\ d.at = "exported" /\ d.before # Nothing => d.data # Nothing
  <2>1. CASE ReadActive(u)
    <3> DEFINE d == [at |-> "export", found |-> IF active = Nothing THEN Nothing ELSE json[active], before |-> row]
    <3>1. d \in OtherTasks
      BY <1>2 DEF OtherTasks, StudioShape, Nothing
    <3> QED BY <2>1, <3>1 DEF ReadActive
  <2>2. CASE ReadStandalone(u)
    <3> DEFINE d == [at |-> "exported", before |-> task[u].before, data |-> Exported(task[u].found, row)]
    <3>1. task[u].at = "export" /\ task[u].before \in Nat /\ task[u].found \in Nat
      BY <1>2, <2>2 DEF ReadStandalone, Doing, OtherTasks, Done
    <3>2. d \in OtherTasks
      BY <1>2, <3>1 DEF OtherTasks, Exported
    <3>3. task[u].before # Nothing => row # Nothing
      BY <3>1 DEF StudioInv, ReadsHold, Doing
    <3>4. task[u].before # Nothing => d.data # Nothing
      BY <3>3 DEF Exported
    <3> QED BY <2>2, <3>2, <3>4 DEF ReadStandalone
  <2>3. CASE Deliver(u)
    BY <2>3 DEF Deliver, OtherTasks, Done
  <2> QED BY <2>1, <2>2, <2>3
<1>4. /\ StudioShape' /\ SavesApart' /\ ReadsHold'
      /\ task'[u] = d /\ \A w \in Users \ {u} : task'[w] = task[w]
  BY <1>1, <1>2, <1>3, AsideStep
<1>5. VariableHolds'
  BY <1>1, <1>3, <1>4 DEF StudioInv, VariableHolds, ImportsWhole
<1> QED BY <1>4, <1>5 DEF StudioInv

LEMMA VariableStep ==
  ASSUME StudioInv, NEW u \in Users,
         \/ StartVariable(u) \/ SaveVariable(u) \/ RemoveVariable(u) \/ ReadVariables(u)
         \/ FindVariable(u) \/ ImportVariable(u)
  PROVE  StudioInv'
<1>1. /\ UNCHANGED <<Data, edits, shows>> /\ u \notin SavingData
      /\ UNCHANGED <<active, json, row, loaded>>
      /\ task[u].at \in {"none", "saveVar", "removeVar", "bundle", "import", "write"}
  BY DEF StartVariable, SaveVariable, RemoveVariable, ReadVariables, FindVariable, ImportVariable,
         Doing, Data, SavingData
<1>2. StudioShape /\ variable \in Nat /\ ids \in Nat /\ ids + 1 \in Nat \ {Nothing} /\ task[u] \in OtherTasks
  BY <1>1, SavingTasks DEF StudioInv, StudioShape, Nothing
<1>3. {variable', ids'} \subseteq Nat
  BY <1>2 DEF StartVariable, SaveVariable, RemoveVariable, ReadVariables, FindVariable, ImportVariable,
         Variable, Nothing
<1>4. PICK d \in OtherTasks :
        /\ Set(u, d) /\ d.at \in {"none", "saveVar", "removeVar", "bundle", "import", "write"}
        /\ d.at = "bundle" => variable # Nothing
        /\ d.at \in {"import", "write"} => task[u].at \in {"bundle", "import"}
  <2>1. CASE StartVariable(u)
    <3>1. PICK kind \in {"saveVar", "removeVar", "bundle"} :
            Set(u, [at |-> kind, id |-> variable]) /\ (kind = "bundle" => variable # Nothing)
      BY <2>1 DEF StartVariable
    <3>2. [at |-> kind, id |-> variable] \in OtherTasks
      BY <1>2 DEF OtherTasks
    <3> QED BY <3>1, <3>2
  <2>2. CASE SaveVariable(u) \/ RemoveVariable(u) \/ ImportVariable(u)
    BY <2>2 DEF SaveVariable, RemoveVariable, ImportVariable, OtherTasks, Done
  <2>3. CASE ReadVariables(u)
    <3> DEFINE d == [at |-> "import", has |-> variable # Nothing]
    <3>1. (variable # Nothing) \in BOOLEAN
      BY Zenon
    <3>2. d \in OtherTasks
      BY <3>1 DEF OtherTasks
    <3> QED BY <2>3, <3>2 DEF ReadVariables, Doing
  <2>4. CASE FindVariable(u)
    <3> DEFINE d == [at |-> "write", has |-> task[u].has, id |-> variable]
    <3>1. task[u].at = "import" /\ task[u].has \in BOOLEAN
      BY <1>2, <2>4 DEF FindVariable, Doing, OtherTasks, Done
    <3>2. d \in OtherTasks
      BY <1>2, <3>1 DEF OtherTasks
    <3> QED BY <2>4, <3>1, <3>2 DEF FindVariable
  <2> QED BY <2>1, <2>2, <2>3, <2>4
<1>5. /\ StudioShape' /\ SavesApart' /\ ReadsHold'
      /\ task'[u] = d /\ \A w \in Users \ {u} : task'[w] = task[w]
  <2>1. ~(d.at \in {"export", "exported"})
    BY <1>4
  <2> QED BY <1>1, <1>2, <1>3, <1>4, <2>1, AsideStep
<1>6. /\ \/ removals' = removals
         \/ removals' = removals \ {u} /\ task[u].at = "none"
         \/ removals' = removals \cup {w \in Users : task[w].at # "none"} /\ task[u].at = "removeVar"
      /\ variable # Nothing /\ variable' = Nothing =>
           removals' = removals \cup {w \in Users : task[w].at # "none"}
  BY <1>2 DEF StartVariable, SaveVariable, RemoveVariable, ReadVariables, FindVariable, ImportVariable,
         Variable, Doing
<1>7. ASSUME NEW w \in Users \ removals', task'[w].at \in {"bundle", "import", "write"}
      PROVE  variable' # Nothing
  <2>1. CASE w = u
    <3>1. variable # Nothing /\ task[u].at \in {"none", "bundle", "import"}
      <4>1. CASE d.at = "bundle"
        BY <1>4, <1>5, <1>7, <2>1, <4>1 DEF StartVariable, SaveVariable, RemoveVariable, ReadVariables, FindVariable,
           ImportVariable, Doing, Done, Set
      <4>2. CASE d.at \in {"import", "write"}
        <5>1. task[u].at \in {"bundle", "import"}
          BY <1>4, <4>2
        <5>2. u \notin removals
          BY <1>6, <1>7, <2>1, <5>1
        <5> QED BY <5>1, <5>2 DEF StudioInv, VariableHolds
      <4> QED BY <1>5, <1>7, <2>1, <4>1, <4>2
    <3>2. variable' = variable
      BY <1>7, <2>1, <3>1, <1>5, <1>4 DEF StartVariable, SaveVariable, RemoveVariable, ReadVariables, FindVariable,
         ImportVariable, Doing, Variable
    <3> QED BY <3>1, <3>2
  <2>2. CASE w # u
    <3>1. task[w] = task'[w] /\ w \notin removals
      BY <1>5, <1>6, <1>7, <2>2
    <3>2. variable # Nothing
      BY <1>7, <3>1 DEF StudioInv, VariableHolds
    <3>3. task[w].at # "none"
      BY <1>7, <3>1
    <3> QED BY <1>6, <1>7, <3>2, <3>3
  <2> QED BY <2>1, <2>2
<1>8. bare' = 0
  <2>1. bare = 0
    BY DEF StudioInv, VariableHolds, ImportsWhole
  <2>2. ImportVariable(u) /\ u \notin removals => variable # Nothing
    BY DEF StudioInv, VariableHolds, ImportVariable, Doing
  <2> QED BY <2>1, <2>2 DEF StartVariable, SaveVariable, RemoveVariable, ReadVariables, FindVariable,
             ImportVariable, Variable
<1> QED BY <1>5, <1>7, <1>8 DEF StudioInv, VariableHolds, ImportsWhole

LEMMA StudioStep == StudioInv /\ [StudioNext]_studioVars => StudioInv'
<1> SUFFICES ASSUME StudioInv, [StudioNext]_studioVars PROVE StudioInv'
  OBVIOUS
<1>1. CASE UNCHANGED studioVars
  BY <1>1 DEF studioVars, StudioInv, StudioShape, SavesApart, SavingData, LastSaveShows, Exported,
              ReadsHold, NeverBlank, VariableHolds, ImportsWhole, Doing
<1>2. ASSUME NEW u \in Users, SaveAiData(u) \/ WriteRow(u) \/ RefuseRow(u) \/ SyncActive(u) PROVE StudioInv'
  BY <1>2, SaveAiDataStep, WriteRowStep, SaveEndStep
<1>3. ASSUME NEW u \in Users,
             \/ ReadActive(u) \/ ReadStandalone(u) \/ Deliver(u)
             \/ StartVariable(u) \/ SaveVariable(u) \/ RemoveVariable(u) \/ ReadVariables(u)
             \/ FindVariable(u) \/ ImportVariable(u)
      PROVE  StudioInv'
  BY <1>3, ExportStep, VariableStep
<1>4. CASE (\E p \in Pages : OpenTemplate(p) \/ SaveTemplate(p)) \/ SetActive
  BY <1>4, TemplateStep
<1> QED BY <1>1, <1>2, <1>3, <1>4 DEF StudioNext

\* A save of the AI data that nothing overlapped shows at once, an export never
\* loses data that was saved, and an import leaves its variable: for any users,
\* templates and versions.
THEOREM StudioIsSafe == StudioSpec => []StudioSafe
<1>1. StudioInv => StudioSafe
  <2>1. SavesApart => LastSaveShows
    BY DEF SavesApart, LastSaveShows
  <2> QED BY <2>1 DEF StudioInv, ReadsHold, VariableHolds, StudioSafe
<1> QED BY StudioInitInv, StudioStep, <1>1, PTL DEF StudioSpec

-----------------------------------------------------------------------------
(* Drafts of messages                                                      *)

Draft == {d \in [type : Types, body : SmsBodies \cup MailBodies, active : BOOLEAN] :
            d.body \in Bodies(d.type) /\ Valid(d.type, d.body)}

\* Whatever is stored, being saved or taken by a batch was found valid.
DraftsValid ==
  /\ drafts \in [DraftIds -> Draft \cup {NoBody}]
  /\ DOMAIN saving = Admins /\ DOMAIN batch = Batches
  /\ \A a \in Admins :
       /\ saving[a].at \in {"idle", "clear", "write"}
       /\ saving[a].at # "idle" => {"at", "cleared", "draft", "id"} \subseteq DOMAIN saving[a] /\ saving[a].draft \in Draft
  /\ \A b \in Batches : batch[b].at = "chosen" =>
       /\ batch[b].type \in Types /\ batch[b].body \in Bodies(batch[b].type)
       /\ Valid(batch[b].type, batch[b].body)

MessagesInv ==
  /\ DraftsValid /\ SavedSmsFits /\ PasswordReaches
  /\ \A t \in Types : \A d, e \in ActiveOf(t) : d = e

LEMMA LeastOfTwo ==
  ASSUME NEW x \in Int, NEW y \in Int
  PROVE  /\ Min({x, y}) \in {x, y} /\ Min({x, y}) <= x /\ Min({x, y}) <= y
         /\ Max({x, y}) \in {x, y} /\ Max({x, y}) >= x /\ Max({x, y}) >= y
<1>1. \E m \in {x, y} : \A z \in {x, y} : m <= z
  OBVIOUS
<1>2. \E m \in {x, y} : \A z \in {x, y} : m >= z
  OBVIOUS
<1> QED BY <1>1, <1>2 DEF Min, Max

\* A longer name of the organisation makes a longer text.
LEMMA LongerOrg ==
  ASSUME NEW k \in Nat, NEW x \in Nat, NEW y \in Nat, x <= y
  PROVE  k * x \in Nat /\ k * y \in Nat /\ k * x <= k * y
<1>1. y - x \in Nat
  OBVIOUS
<1>2. k * (y - x) \in Nat
  BY <1>1
<1>3. k * y = k * x + k * (y - x)
  OBVIOUS
<1>4. k * x \in Nat /\ k * y \in Nat
  OBVIOUS
<1> QED BY <1>2, <1>3, <1>4

\* The cut name of a test that a text names at most once leaves room for all.
LEMMA SmsFits ==
  ASSUME NEW b \in SmsBodies, Valid("inviteSms", b), b.tests <= 1,
         NEW test \in Nat, NEW org \in Nat, org <= SampleOrg
  PROVE  RenderSms(b, test, org) <= SmsMax
<1>1. b.plain \in Nat /\ b.tests \in Nat /\ b.orgs \in Nat /\ {SmsMax, SampleOrg, SampleTest} \subseteq Nat /\ SampleTest >= 2
  BY MessagesAssumption
<1>2. PICK o \in Nat : o = b.orgs * org
  BY <1>1
<1>3. PICK s \in Nat : s = b.orgs * SampleOrg
  BY <1>1
<1>4. o <= s
  BY <1>1, <1>2, <1>3, LongerOrg
<1>5. RenderSms(b, SampleTest, SampleOrg) <= SmsMax
  BY DEF Valid
<1>6. \A x \in Int : Text(b, x, org) = b.plain + b.tests * x + o /\ Text(b, x, SampleOrg) = b.plain + b.tests * x + s
  BY <1>2, <1>3 DEF Text
<1>7. CASE b.tests = 0
  <2>1. Text(b, SampleTest, SampleOrg) <= SmsMax
    BY <1>5, <1>7 DEF RenderSms
  <2>2. Text(b, test, org) <= SmsMax
    BY <1>1, <1>4, <1>6, <1>7, <2>1
  <2> QED BY <1>7, <2>2 DEF RenderSms
<1>8. CASE b.tests = 1
  <2>1. \A x \in Int : Text(b, x, org) = b.plain + x + o /\ Text(b, x, SampleOrg) = b.plain + x + s
    BY <1>1, <1>6, <1>8
  <2>2. b.plain + 2 + s <= SmsMax
    <3> DEFINE room == Room(b, SampleOrg)
               most == Max({0, room})
               cut == Min({SampleTest, most})
    <3>1. room \in Int
      BY <1>1, <2>1 DEF Room
    <3>2. most \in Int /\ most >= 0
      <4> HIDE DEF room
      <4>1. 0 \in Int /\ room \in Int
        BY <3>1
      <4>2. Max({0, room}) \in {0, room} /\ Max({0, room}) >= 0
        BY <4>1, LeastOfTwo, Zenon
      <4> QED BY <4>1, <4>2
    <3>3. cut \in Int /\ cut >= 0
      <4> HIDE DEF most
      <4> QED BY <1>1, <3>2, LeastOfTwo
    <3>4. Text(b, SampleTest, SampleOrg) <= SmsMax \/ Text(b, cut + 2, SampleOrg) <= SmsMax
      BY <1>5 DEF RenderSms
    <3> HIDE DEF cut
    <3> QED BY <1>1, <1>3, <2>1, <3>3, <3>4
  <2> DEFINE room == Room(b, org)
             most == Max({0, room})
             cut == Min({test, most})
  <2>3. room \in Int /\ room = SmsMax - (b.plain + 2 + o)
    BY <1>1, <1>2, <2>1 DEF Room
  <2>4. room >= 0
    BY <1>1, <1>2, <1>3, <1>4, <2>2, <2>3
  <2>5. most = room
    <3> HIDE DEF room
    <3>1. 0 \in Int /\ room \in Int
      BY <2>3
    <3>2. Max({0, room}) \in {0, room} /\ Max({0, room}) >= room
      BY <3>1, LeastOfTwo, Zenon
    <3> QED BY <2>3, <2>4, <3>2
  <2>6. cut \in Int /\ cut <= room
    <3> HIDE DEF most, room
    <3>1. test \in Int /\ most \in Int
      BY <2>3, <2>5
    <3>2. Min({test, most}) \in {test, most} /\ Min({test, most}) <= most
      BY <3>1, LeastOfTwo, Zenon
    <3> QED BY <2>3, <2>5, <3>1, <3>2
  <2>7. Text(b, cut + 2, org) <= SmsMax
    <3> HIDE DEF cut, room
    <3> QED BY <1>1, <1>2, <2>1, <2>3, <2>6
  <2>8. RenderSms(b, test, org) \in {Text(b, test, org), Text(b, cut + 2, org)}
        /\ (Text(b, test, org) <= SmsMax \/ RenderSms(b, test, org) = Text(b, cut + 2, org))
    BY <1>8 DEF RenderSms
  <2> HIDE DEF cut
  <2> QED BY <1>8, <2>7, <2>8 DEF RenderSms
<1> QED BY <1>1, <1>7, <1>8

\* A new user gets the password from any valid draft, or its section does not
\* speak of one.
LEMMA MailReaches ==
  ASSUME NEW b \in MailBodies, Valid("inviteEmail", b)
  PROVE  ShowsPassword(b) \/ (Paired(b) /\ ~Has(b, "password"))
<1>1. Has(b, "close") => Paired(b)
  BY DEF Valid
<1>2. CASE Paired(b)
  BY <1>2 DEF ShowsPassword
<1>3. CASE ~Paired(b)
  <2>1. ~Has(b, "close")
    BY <1>1, <1>3
  <2>2. CASE Has(b, "open")
    <3>1. PICK i \in DOMAIN b.tokens : b.tokens[i] = "open"
      BY <2>2 DEF Has
    <3> QED BY <1>3, <3>1 DEF ShowsPassword
  <2>3. CASE ~Has(b, "open")
    BY <2>1, <2>3 DEF ShowsPassword, NeedsSection
  <2> QED BY <2>2, <2>3
<1> QED BY <1>2, <1>3

LEMMA MessagesInitInv == MessagesInit => MessagesInv
<1> SUFFICES ASSUME MessagesInit PROVE MessagesInv
  OBVIOUS
<1>1. DraftsValid
  BY DEF MessagesInit, DraftsValid, Idle
<1>2. SavedSmsFits /\ PasswordReaches
  BY DEF MessagesInit, SavedSmsFits, PasswordReaches, Idle
<1>3. \A t \in Types : ActiveOf(t) = {}
  BY DEF MessagesInit, ActiveOf
<1> QED BY <1>1, <1>2, <1>3 DEF MessagesInv

LEMMA AskSaveStep ==
  ASSUME MessagesInv, NEW a \in Admins, NEW d \in DraftIds, NEW t \in Types, NEW isNew, AskSave(a, d, t, isNew)
  PROVE  MessagesInv'
<1>1. PICK body \in Bodies(t), on \in BOOLEAN :
        /\ Valid(t, body)
        /\ Steps(a, [at |-> IF on THEN "clear" ELSE "write", id |-> d, cleared |-> {},
                     draft |-> [type |-> t, body |-> body, active |-> on]])
  BY DEF AskSave
<1> DEFINE x == [type |-> t, body |-> body, active |-> on]
           s == [at |-> IF on THEN "clear" ELSE "write", id |-> d, cleared |-> {}, draft |-> x]
<1>2. x \in Draft
  BY <1>1 DEF Draft, Bodies
<1>3. s.draft \in Draft /\ s.at \in {"clear", "write"} /\ {"at", "cleared", "draft", "id"} \subseteq DOMAIN s
  BY <1>2
<1>4. saving' = [saving EXCEPT ![a] = s] /\ UNCHANGED <<drafts, batch>>
  BY <1>1 DEF Steps, AskSave
<1> HIDE DEF s
<1>5. DraftsValid'
  BY <1>3, <1>4 DEF MessagesInv, DraftsValid
<1> QED BY <1>4, <1>5 DEF MessagesInv, SavedSmsFits, PasswordReaches, ActiveOf

LEMMA ClearActiveStep == ASSUME MessagesInv, NEW a \in Admins, ClearActive(a) PROVE MessagesInv'
<1>1. /\ saving' = [saving EXCEPT ![a] = [saving[a] EXCEPT !.at = "write", !.cleared = ActiveOf(saving[a].draft.type)]]
      /\ saving[a].at = "clear" /\ UNCHANGED <<drafts, batch>>
  BY DEF ClearActive, Steps
<1>2. {"at", "cleared", "draft", "id"} \subseteq DOMAIN saving[a] /\ saving[a].draft \in Draft /\ DOMAIN saving = Admins
  BY <1>1 DEF MessagesInv, DraftsValid
<1>3. /\ saving'[a].at = "write" /\ saving'[a].draft = saving[a].draft /\ DOMAIN saving'[a] = DOMAIN saving[a]
      /\ \A w \in Admins \ {a} : saving'[w] = saving[w]
      /\ DOMAIN saving' = Admins
  BY <1>1, <1>2
<1>4. DraftsValid'
  BY <1>1, <1>2, <1>3 DEF MessagesInv, DraftsValid
<1> QED BY <1>1, <1>4 DEF MessagesInv, SavedSmsFits, PasswordReaches, ActiveOf

\* The unique index undoes a transaction that would leave two.
LEMMA WriteDraftStep == ASSUME MessagesInv, NEW a \in Admins, WriteDraft(a) PROVE MessagesInv'
<1>1. /\ saving' = [saving EXCEPT ![a] = Idle] /\ batch' = batch /\ saving[a].at = "write"
  BY DEF WriteDraft, Steps
<1>2. PICK x \in Draft : x = saving[a].draft
  BY <1>1 DEF MessagesInv, DraftsValid
<1>3. drafts \in [DraftIds -> Draft \cup {NoBody}]
  BY DEF MessagesInv, DraftsValid
<1>4. CASE Conflicts(a)
  <2>1. drafts' = drafts
    BY <1>4 DEF WriteDraft
  <2>2. DraftsValid'
    BY <1>1, <2>1 DEF MessagesInv, DraftsValid, Idle
  <2> QED BY <1>1, <2>1, <2>2 DEF MessagesInv, SavedSmsFits, PasswordReaches, ActiveOf
<1>5. CASE ~Conflicts(a)
  <2>1. drafts' = [d \in DraftIds |->
               IF d = saving[a].id THEN x
               ELSE IF drafts[d] # NoBody /\ d \in saving[a].cleared THEN [drafts[d] EXCEPT !.active = FALSE]
               ELSE drafts[d]]
    BY <1>2, <1>5 DEF WriteDraft
  <2>2. ASSUME NEW d \in DraftIds, d # saving[a].id, drafts[d] # NoBody, d \in saving[a].cleared
        PROVE  drafts'[d] \in Draft /\ ~drafts'[d].active
    <3>1. drafts[d] \in Draft /\ drafts'[d] = [drafts[d] EXCEPT !.active = FALSE]
      BY <1>3, <2>1, <2>2
    <3>2. /\ drafts'[d].type = drafts[d].type /\ drafts'[d].body = drafts[d].body /\ drafts'[d].active = FALSE
          /\ drafts'[d] \in [type : Types, body : SmsBodies \cup MailBodies, active : BOOLEAN]
      BY <3>1 DEF Draft
    <3> QED BY <3>1, <3>2 DEF Draft
  <2>3. ASSUME NEW d \in DraftIds PROVE drafts'[d] \in Draft \cup {NoBody}
    <3>1. CASE d # saving[a].id /\ drafts[d] # NoBody /\ d \in saving[a].cleared
      BY <2>2, <3>1
    <3>2. CASE ~(d # saving[a].id /\ drafts[d] # NoBody /\ d \in saving[a].cleared)
      BY <1>3, <2>1, <3>2
    <3> QED BY <3>1, <3>2
  <2>4. drafts' \in [DraftIds -> Draft \cup {NoBody}]
    BY <2>1, <2>3
  <2>5. DraftsValid'
    BY <1>1, <2>4 DEF MessagesInv, DraftsValid, Idle
  <2>6. ASSUME NEW t \in Types, NEW d \in ActiveOf(t)'
        PROVE  \/ d = saving[a].id /\ x.active /\ x.type = t
               \/ d # saving[a].id /\ d \in ActiveOf(t) \ saving[a].cleared
    <3>1. d \in DraftIds /\ drafts'[d] # NoBody /\ drafts'[d].type = t /\ drafts'[d].active
      BY DEF ActiveOf
    <3>2. CASE d = saving[a].id
      BY <2>1, <3>1, <3>2
    <3>3. CASE d # saving[a].id /\ drafts[d] # NoBody /\ d \in saving[a].cleared
      BY <2>2, <3>1, <3>3
    <3>4. CASE d # saving[a].id /\ ~(drafts[d] # NoBody /\ d \in saving[a].cleared)
      <4>1. drafts'[d] = drafts[d]
        BY <2>1, <3>1, <3>4
      <4> QED BY <3>1, <3>4, <4>1 DEF ActiveOf
    <3> QED BY <3>2, <3>3, <3>4
  <2>7. x.active => ActiveOf(x.type) \subseteq saving[a].cleared \cup {saving[a].id}
    BY <1>2, <1>5 DEF Conflicts
  <2>8. ASSUME NEW t \in Types, NEW d \in ActiveOf(t)', NEW e \in ActiveOf(t)' PROVE d = e
    BY <2>6, <2>7 DEF MessagesInv
  <2> QED BY <1>1, <2>5, <2>8 DEF MessagesInv, SavedSmsFits, PasswordReaches
<1> QED BY <1>4, <1>5

LEMMA DeleteDraftStep == ASSUME MessagesInv, NEW d \in DraftIds, DeleteDraft(d) PROVE MessagesInv'
<1>1. drafts' = [drafts EXCEPT ![d] = NoBody] /\ UNCHANGED <<saving, batch>> /\ drafts \in [DraftIds -> Draft \cup {NoBody}]
  BY DEF DeleteDraft, MessagesInv, DraftsValid
<1>2. DraftsValid'
  BY <1>1 DEF MessagesInv, DraftsValid
<1>3. \A t \in Types : ActiveOf(t)' \subseteq ActiveOf(t)
  BY <1>1 DEF ActiveOf
<1> QED BY <1>1, <1>2, <1>3 DEF MessagesInv, SavedSmsFits, PasswordReaches

LEMMA BatchStep ==
  ASSUME MessagesInv, NEW b \in Batches,
         \/ \E t \in Types, d \in DraftIds : Choose(b, t, d)
         \/ \E test, org \in 0..MaxName : Notify(b, test, org)
  PROVE  MessagesInv'
<1>1. UNCHANGED <<drafts, saving>> /\ DOMAIN batch = Batches
  BY DEF Choose, Notify, MessagesInv, DraftsValid
<1>2. CASE \E t \in Types, d \in DraftIds : Choose(b, t, d)
  <2>1. PICK t \in Types, d \in DraftIds : Choose(b, t, d)
    BY <1>2
  <2>2. drafts[d] \in Draft /\ drafts[d].type = t
    BY <2>1 DEF Choose, ActiveOf, MessagesInv, DraftsValid
  <2>3. batch' = [batch EXCEPT ![b] = [at |-> "chosen", type |-> t, body |-> drafts[d].body]]
    BY <2>1 DEF Choose
  <2>4. drafts[d].body \in Bodies(t) /\ Valid(t, drafts[d].body)
    BY <2>2 DEF Draft
  <2>5. DraftsValid'
    BY <1>1, <2>3, <2>4 DEF MessagesInv, DraftsValid
  <2>6. SavedSmsFits' /\ PasswordReaches'
    BY <1>1, <2>3 DEF MessagesInv, SavedSmsFits, PasswordReaches
  <2> QED BY <1>1, <2>5, <2>6 DEF MessagesInv, ActiveOf
<1>3. CASE \E test, org \in 0..MaxName : Notify(b, test, org)
  <2>1. PICK test \in 0..MaxName, org \in 0..MaxName : Notify(b, test, org)
    BY <1>3
  <2>2. PICK t \in Types, body \in SmsBodies \cup MailBodies :
          /\ t = batch[b].type /\ body = batch[b].body /\ Valid(t, body) /\ body \in Bodies(t)
    BY <2>1 DEF Notify, MessagesInv, DraftsValid, Bodies
  <2>3. CASE t = "inviteSms"
    <3>1. batch' = [batch EXCEPT ![b] = [at |-> "sms", body |-> body, org |-> org,
                                         refused |-> RenderSms(body, test, org) > SmsMax]]
      BY <2>1, <2>2, <2>3 DEF Notify
    <3>2. body \in SmsBodies /\ Valid("inviteSms", body)
      BY <2>2, <2>3 DEF Bodies
    <3>3. body.tests <= 1 /\ org <= SampleOrg => RenderSms(body, test, org) <= SmsMax
      BY <3>2, SmsFits, MessagesAssumption
    <3>4. SmsMax \in Int /\ RenderSms(body, test, org) \in Int
      <4>1. body.plain \in Nat /\ body.tests \in Nat /\ body.orgs \in Nat /\ {SmsMax, MaxName} \subseteq Nat
        BY <3>2, MessagesAssumption
      <4>2. test \in Nat /\ org \in Nat
        BY <4>1
      <4>3. \A y \in Int : body.tests * y \in Int /\ body.orgs * y \in Int
        BY <4>1
      <4>4. \A y \in Int : Text(body, y, org) \in Int
        BY <4>1, <4>2, <4>3 DEF Text
      <4>5. Room(body, org) \in Int /\ 0 \in Int /\ test \in Int
        BY <4>1, <4>2, <4>4 DEF Room
      <4>6. Max({0, Room(body, org)}) \in {0, Room(body, org)}
        BY <4>5, LeastOfTwo, Zenon
      <4>7. Max({0, Room(body, org)}) \in Int
        BY <4>5, <4>6
      <4>8. Min({test, Max({0, Room(body, org)})}) \in {test, Max({0, Room(body, org)})}
        BY <4>5, <4>7, LeastOfTwo, Zenon
      <4>9. Min({test, Max({0, Room(body, org)})}) \in Int
        BY <4>5, <4>7, <4>8
      <4>10. Text(body, Min({test, Max({0, Room(body, org)})}) + 2, org) \in Int
        BY <4>4, <4>9
      <4> QED BY <4>1, <4>4, <4>5, <4>10 DEF RenderSms
    <3>5. DraftsValid'
      BY <1>1, <3>1 DEF MessagesInv, DraftsValid
    <3>6. SavedSmsFits'
      <4>1. body.tests <= 1 /\ org <= SampleOrg => ~(RenderSms(body, test, org) > SmsMax)
        BY <3>3, <3>4
      <4>2. /\ batch'[b].body = body /\ batch'[b].org = org
            /\ batch'[b].refused <=> RenderSms(body, test, org) > SmsMax
        BY <1>1, <3>1
      <4>3. \A c \in Batches \ {b} : batch'[c] = batch[c]
        BY <3>1
      <4> QED BY <4>1, <4>2, <4>3 DEF MessagesInv, SavedSmsFits
    <3>7. PasswordReaches'
      BY <1>1, <3>1 DEF MessagesInv, PasswordReaches
    <3> QED BY <1>1, <3>5, <3>6, <3>7 DEF MessagesInv, ActiveOf
  <2>4. CASE t # "inviteSms"
    <3>1. batch' = [batch EXCEPT ![b] = [at |-> "mail", body |-> body, password |-> ShowsPassword(body)]]
      BY <2>1, <2>2, <2>4 DEF Notify
    <3>2. body \in MailBodies /\ Valid("inviteEmail", body)
      BY <2>2, <2>4 DEF Bodies, Types
    <3>3. ShowsPassword(body) \/ (Paired(body) /\ ~Has(body, "password"))
      BY <3>2, MailReaches
    <3>4. DraftsValid'
      BY <1>1, <3>1 DEF MessagesInv, DraftsValid
    <3>5. SavedSmsFits'
      BY <1>1, <3>1 DEF MessagesInv, SavedSmsFits
    <3>6. PasswordReaches'
      BY <1>1, <3>1, <3>3 DEF MessagesInv, PasswordReaches
    <3> QED BY <1>1, <3>4, <3>5, <3>6 DEF MessagesInv, ActiveOf
  <2> QED BY <2>3, <2>4
<1> QED BY <1>2, <1>3

LEMMA MessagesStep == MessagesInv /\ [MessagesNext]_messageVars => MessagesInv'
<1> SUFFICES ASSUME MessagesInv, [MessagesNext]_messageVars PROVE MessagesInv'
  OBVIOUS
<1>1. CASE UNCHANGED messageVars
  BY <1>1 DEF messageVars, MessagesInv, DraftsValid, SavedSmsFits, PasswordReaches, ActiveOf
<1>2. ASSUME NEW a \in Admins,
             \/ \E d \in DraftIds, t \in Types, isNew \in BOOLEAN : AskSave(a, d, t, isNew)
             \/ ClearActive(a) \/ WriteDraft(a)
      PROVE  MessagesInv'
  BY <1>2, AskSaveStep, ClearActiveStep, WriteDraftStep
<1>3. CASE \E d \in DraftIds : DeleteDraft(d)
  BY <1>3, DeleteDraftStep
<1>4. ASSUME NEW b \in Batches,
             \/ \E t \in Types, d \in DraftIds : Choose(b, t, d)
             \/ \E test, org \in 0..MaxName : Notify(b, test, org)
      PROVE  MessagesInv'
  BY <1>4, BatchStep
<1> QED BY <1>1, <1>2, <1>3, <1>4 DEF MessagesNext

\* However administrators' saves overlap a type has one active draft at most;
\* no SMS of a saved draft that names the test once is refused; and a new user
\* is not left without a password: for any drafts and names.
THEOREM MessagesAreSafe == MessagesSpec => []MessagesSafe
<1>1. MessagesInv => MessagesSafe
  <2> SUFFICES ASSUME MessagesInv, NEW t \in Types PROVE Cardinality(ActiveOf(t)) <= 1
    BY DEF MessagesInv, MessagesSafe, OneActiveDraft
  <2>1. CASE ActiveOf(t) = {}
    BY <2>1, FS_EmptySet
  <2>2. CASE ActiveOf(t) # {}
    <3>1. PICK d : d \in ActiveOf(t)
      BY <2>2
    <3>2. ActiveOf(t) = {d}
      BY <3>1 DEF MessagesInv
    <3>3. Cardinality({d}) = 1
      BY FS_Singleton
    <3> QED BY <3>2, <3>3
  <2> QED BY <2>1, <2>2
<1> QED BY MessagesInitInv, MessagesStep, <1>1, PTL DEF MessagesSpec

-----------------------------------------------------------------------------
(* Choices                                                                 *)

PageLine == [line : Lines, val : Lines, answer : Nat, cell : Nat]
Busy == {"answer", "update", "cell", "updateCell"}

ChoicesTyped ==
  /\ answers \subseteq [id : Nat, line : Lines, val : Lines]
  /\ cells \subseteq [id : Nat, line : Lines, answer : Nat, val : Lines]
  /\ IsFiniteSet(answers) /\ IsFiniteSet(cells)
  /\ fresh \in Nat \ {None} /\ deletes \in Nat
  /\ cuts \in [Authors -> 0..MaxCuts]
  /\ alone \subseteq Authors
  /\ form \in [Authors -> SUBSET PageLine]
  /\ save \in [Authors -> {NotSaving, [at |-> "saved"]}
       \cup [at : Busy, line : PageLine, left : SUBSET PageLine, to : Nat]]

\* An id is given out once.
IdsApart ==
  /\ \A a, b \in answers : a.id = b.id => a = b
  /\ \A c, d \in cells : c.id = d.id => c = d
  /\ \A a \in answers : a.id # None /\ a.id < fresh
  /\ \A c \in cells : c.id # None /\ c.id < fresh /\ c.answer < fresh

\* What a page was opened with: its lines are different rows with different
\* cells, and what is left of these has not changed its line.
PageOK(e) ==
  /\ \A x, y \in form[e] : x.answer = y.answer => x = y
  /\ \A x, y \in form[e] : x.cell # None /\ x.cell = y.cell => x = y
  /\ \A x \in form[e] :
       /\ x.answer < fresh /\ x.cell < fresh
       /\ x.answer = None => x.cell = None
       /\ \A a \in answers : a.id = x.answer => a.line = x.line
       /\ \A c \in cells : c.id = x.cell => c.line = x.line /\ c.answer = x.answer
       /\ deletes = 0 /\ x.answer # None => AnswerAt(x.answer) # {}

\* The save of a line: the row it goes on with is that of the line.
StepOK(e) ==
  save[e].at \in Busy =>
    /\ Line(e) \in form[e] /\ save[e].left \subseteq form[e] /\ Line(e) \notin save[e].left
    /\ SaveAt(e, "update") => save[e].to = Line(e).answer /\ save[e].to # None
    /\ SaveAt(e, "updateCell") => Line(e).cell # None
    /\ save[e].at \in {"cell", "updateCell"} =>
         /\ save[e].to < fresh
         /\ save[e].to = None => deletes > 0 /\ Line(e).answer # None /\ AnswerAt(Line(e).answer) = {}
         /\ save[e].to # None =>
              /\ Line(e).answer # None => save[e].to = Line(e).answer
              /\ Line(e).answer = None => \A x \in form[e] : x.answer # save[e].to
              /\ \A a \in answers : a.id = save[e].to => a.line = Line(e).line

\* Lines the save is through with.
Through(e) ==
  {x \in form[e] : SaveAt(e, "saved") \/ (save[e].at \in Busy /\ x \notin save[e].left /\ x # Line(e))}

\* The row and the cell of a line, which no other line of the page knows.
KeptLine(e, x) ==
  \E a \in answers, c \in cells :
    /\ a.line = x.line /\ a.val = x.val
    /\ c.line = x.line /\ c.val = x.val /\ c.answer = a.id
    /\ IF x.answer # None THEN a.id = x.answer ELSE \A y \in form[e] : y.answer # a.id
    /\ IF x.cell # None THEN c.id = x.cell ELSE \A y \in form[e] : y.cell # c.id

AloneOK(e) ==
  e \in alone =>
    /\ \A x \in Through(e) : x.answer = None \/ AnswerAt(x.answer) # {} => KeptLine(e, x)
    /\ SaveAt(e, "update") => AnswerAt(save[e].to) # {}
    /\ save[e].at \in {"cell", "updateCell"} /\ save[e].to # None =>
         \E a \in answers : a.id = save[e].to /\ a.val = Line(e).val
    /\ SaveAt(e, "updateCell") => CellAt(Line(e).cell) # {}

\* Sendings whose line got as far as the insert.
ThroughAnswer(e) ==
  Through(e) \cup {x \in form[e] : save[e].at \in Busy \ {"answer"} /\ x = Line(e)}
UsedAnswer(l) ==
  {s \in Sendings(l, "answer") : s[3] < cuts[s[1]] \/ \E x \in ThroughAnswer(s[1]) : x.answer = s[2]}
UsedCell(l) ==
  {s \in Sendings(l, "cell") : s[3] < cuts[s[1]] \/ \E x \in Through(s[1]) : x.answer = s[2]}

AnswersCounted == \A l \in Lines : Cardinality(AnswersOf(l)) <= FirstOf(l) + Cardinality(UsedAnswer(l))
CellsCounted == \A l \in Lines : Cardinality(CellsOf(l)) <= FirstOf(l) + Cardinality(UsedCell(l))

ChoicesInv ==
  /\ ChoicesTyped /\ IdsApart /\ CellsInPlace /\ AnswersCounted /\ CellsCounted
  /\ \A e \in Authors : PageOK(e) /\ StepOK(e) /\ AloneOK(e)

BusySave == [at : Busy, line : PageLine, left : SUBSET PageLine, to : Nat]

LEMMA BusyIs ==
  ASSUME ChoicesTyped, NEW e \in Authors
  PROVE  /\ save[e].at \in Busy =>
              /\ save[e] \in BusySave
              /\ save[e].line \in PageLine /\ save[e].left \subseteq PageLine /\ save[e].to \in Nat
              /\ save[e].line.line \in Lines /\ save[e].line.val \in Lines
         /\ save[e].at \in Busy \cup {"page", "saved"}
<1>1. save[e].at \in Busy \cup {"page", "saved"}
  BY DEF ChoicesTyped, Busy, NotSaving
<1>2. save[e].at \in Busy => save[e] \in BusySave
  BY DEF ChoicesTyped, BusySave, Busy, NotSaving
<1>3. save[e] \in BusySave =>
        save[e].line \in PageLine /\ save[e].left \subseteq PageLine /\ save[e].to \in Nat
  BY DEF BusySave
<1>4. QED
  BY <1>1, <1>2, <1>3 DEF PageLine

LEMMA MakeBusy ==
  ASSUME NEW at \in Busy, NEW line \in PageLine, NEW left \in SUBSET PageLine, NEW to \in Nat
  PROVE  [at |-> at, line |-> line, left |-> left, to |-> to] \in BusySave
BY DEF BusySave

\* After a line the save takes another one of those left, or is through.
LEMMA NextLineIs ==
  ASSUME ChoicesTyped, NEW e \in Authors, NextLine(e), save[e].at \in Busy
  PROVE  /\ save' = [save EXCEPT ![e] = save'[e]]
         /\ \/ save[e].left = {} /\ save'[e] = [at |-> "saved"]
            \/ \E line \in save[e].left :
                 save'[e] = [at |-> "answer", line |-> line, left |-> save[e].left \ {line}, to |-> None]
BY DEF ChoicesTyped, NextLine, Takes

LEMMA StartIs ==
  ASSUME ChoicesTyped, NEW e \in Authors, StartSave(e)
  PROVE  /\ save' = [save EXCEPT ![e] = save'[e]]
         /\ \E line \in form[e] :
              save'[e] = [at |-> "answer", line |-> line, left |-> form[e] \ {line}, to |-> None]
BY DEF ChoicesTyped, StartSave, Takes

\* A step within a line.
LEMMA StepIs ==
  ASSUME ChoicesTyped, NEW e \in Authors, save[e].at \in Busy,
         NEW at \in Busy, NEW to \in Nat, Step(e, at, to)
  PROVE  /\ save' = [save EXCEPT ![e] = save'[e]]
         /\ save'[e] = [at |-> at, line |-> save[e].line, left |-> save[e].left, to |-> to]
BY DEF ChoicesTyped, Step, Line

LEMMA AtIn ==
  ASSUME NEW e \in Authors, NEW at \in Busy, SaveAt(e, at)
  PROVE  save[e].at \in Busy
BY DEF SaveAt

LEMMA ChoicesTypedStep ==
  ASSUME ChoicesTyped, ChoicesNext
  PROVE  ChoicesTyped'
<1> USE DEF None
<1> DEFINE Saves == {NotSaving, [at |-> "saved"]} \cup BusySave
<1>0. save \in [Authors -> Saves]
  BY DEF ChoicesTyped, BusySave
<1>1. ASSUME NEW e \in Authors, OpenPage(e)
      PROVE  ChoicesTyped'
  <2>1. \A a \in answers, val \in Lines : Shown(a, val) \in PageLine
    BY <1>1 DEF Shown, CellOf, LastCells, PageLine, ChoicesTyped
  <2>2. NewLine(e) \in PageLine /\ e \in Lines
    BY DEF NewLine, PageLine, Lines
  <2>3. \A changed \in BOOLEAN :
          {Shown(a, IF changed THEN e ELSE a.val) : a \in answers} \cup {NewLine(e)} \in SUBSET PageLine
    BY <2>1, <2>2 DEF ChoicesTyped
  <2>4. form' \in [Authors -> SUBSET PageLine]
    BY <1>1, <2>3 DEF OpenPage, ChoicesTyped
  <2>5. QED
    BY <1>1, <2>4 DEF OpenPage, ChoicesTyped
<1>2. ASSUME NEW e \in Authors, StartSave(e)
      PROVE  ChoicesTyped'
  <2>1. PICK line \in form[e] :
          save'[e] = [at |-> "answer", line |-> line, left |-> form[e] \ {line}, to |-> None]
    BY <1>2, StartIs
  <2>2. save'[e] \in BusySave
    BY <2>1 DEF BusySave, Busy, ChoicesTyped
  <2>3. save' \in [Authors -> Saves]
    BY <1>0, <1>2, <2>2, StartIs
  <2>4. QED
    BY <1>2, <2>3 DEF StartSave, ChoicesTyped, BusySave
<1>3. ASSUME NEW e \in Authors, NextLine(e), save[e].at \in Busy
      PROVE  save' \in [Authors -> Saves]
  <2>1. save[e].left \subseteq PageLine
    BY <1>3, BusyIs
  <2>2. CASE save[e].left = {} /\ save'[e] = [at |-> "saved"]
    BY <1>0, <1>3, <2>2, NextLineIs
  <2>3. ASSUME NEW line \in save[e].left,
               save'[e] = [at |-> "answer", line |-> line, left |-> save[e].left \ {line}, to |-> None]
        PROVE  save' \in [Authors -> Saves]
    <3>1. "answer" \in Busy /\ line \in PageLine /\ save[e].left \ {line} \in SUBSET PageLine /\ None \in Nat
      BY <2>1 DEF Busy
    <3>2. save'[e] \in BusySave
      BY <2>3, <3>1, MakeBusy
    <3>3. QED
      BY <1>0, <1>3, <3>2, NextLineIs
  <2>4. QED
    BY <1>3, <2>2, <2>3, NextLineIs
<1>4. ASSUME NEW e \in Authors, save[e].at \in Busy, NEW at \in Busy, NEW to \in Nat, Step(e, at, to)
      PROVE  save' \in [Authors -> Saves]
  <2>1. save[e].left \subseteq PageLine /\ save[e].line \in PageLine
    BY <1>4, BusyIs
  <2>2. save'[e] \in BusySave
    <3>1. save[e].left \in SUBSET PageLine
      BY <2>1
    <3>2. [at |-> at, line |-> save[e].line, left |-> save[e].left, to |-> to] \in BusySave
      BY <2>1, <3>1, MakeBusy
    <3>3. QED
      BY <1>4, <3>2, StepIs
  <2>3. QED
    BY <1>0, <1>4, <2>2, StepIs
<1>5. ASSUME NEW e \in Authors, CreateAnswer(e)
      PROVE  ChoicesTyped'
  <2>1. save[e].at \in Busy /\ save[e] \in BusySave
    BY <1>5, BusyIs DEF CreateAnswer, SaveAt, Busy
  <2>2. save' \in [Authors -> Saves]
    BY <1>4, <1>5, <2>1 DEF CreateAnswer, Busy, ChoicesTyped
  <2>3. [id |-> fresh, line |-> Line(e).line, val |-> Line(e).val] \in [id : Nat, line : Lines, val : Lines]
    <3>1. Line(e).line \in Lines /\ Line(e).val \in Lines /\ fresh \in Nat
      BY <2>1, BusyIs DEF Line, ChoicesTyped
    <3>2. QED
      BY <3>1
  <2>4. IsFiniteSet(answers')
    <3>1. \A r : IsFiniteSet(answers \cup {r})
      BY FS_AddElement DEF ChoicesTyped
    <3>2. QED
      BY <1>5, <3>1 DEF CreateAnswer
  <2>5. QED
    BY <1>5, <2>2, <2>3, <2>4 DEF CreateAnswer, ChoicesTyped, Disturb, BusySave
<1>6. ASSUME NEW e \in Authors, FindAnswer(e)
      PROVE  ChoicesTyped'
  <2>1. save[e].at \in Busy
    BY <1>6 DEF FindAnswer, SaveAt, Busy
  <2>2. \E at \in Busy, to \in Nat : Step(e, at, to)
    BY <1>6 DEF FindAnswer, Busy, ChoicesTyped, AnswerAt
  <2>3. save' \in [Authors -> Saves]
    BY <1>4, <2>1, <2>2
  <2>4. QED
    BY <1>6, <2>3 DEF FindAnswer, ChoicesTyped, BusySave
<1>7. ASSUME NEW e \in Authors, UpdateAnswer(e)
      PROVE  ChoicesTyped'
  <2>1. save[e].at \in Busy /\ save[e] \in BusySave
    BY <1>7, BusyIs DEF UpdateAnswer, SaveAt, Busy
  <2>2. save' \in [Authors -> Saves]
    BY <1>4, <1>7, <2>1 DEF UpdateAnswer, Busy, BusySave
  <2>3. Line(e).val \in Lines
    BY <2>1 DEF Line, BusySave, PageLine
  <2>4. \A a \in answers : [a EXCEPT !.val = Line(e).val] \in [id : Nat, line : Lines, val : Lines]
    BY <2>3 DEF ChoicesTyped
  <2>5. answers' \subseteq [id : Nat, line : Lines, val : Lines]
    BY <1>7, <2>4 DEF UpdateAnswer, ChoicesTyped
  <2>6. IsFiniteSet(answers')
    <3> DEFINE f == [a \in answers |-> IF a.id = save[e].to THEN [a EXCEPT !.val = Line(e).val] ELSE a]
    <3>1. f \in Surjection(answers, answers')
      BY <1>7 DEF UpdateAnswer, Surjection
    <3>2. QED
      BY <3>1, FS_Surjection DEF ChoicesTyped
  <2>7. QED
    BY <1>7, <2>2, <2>5, <2>6 DEF UpdateAnswer, ChoicesTyped, Disturb, BusySave
<1>8. ASSUME NEW e \in Authors, CreateCell(e)
      PROVE  ChoicesTyped'
  <2>1. save[e].at \in Busy /\ save[e] \in BusySave
    BY <1>8, BusyIs DEF CreateCell, SaveAt, Busy
  <2>2. save' \in [Authors -> Saves]
    BY <1>3, <1>8, <2>1 DEF CreateCell
  <2>3. [id |-> fresh, line |-> Line(e).line, answer |-> save[e].to, val |-> Line(e).val]
          \in [id : Nat, line : Lines, answer : Nat, val : Lines]
    BY <2>1 DEF Line, BusySave, PageLine, ChoicesTyped
  <2>4. IsFiniteSet(cells')
    <3>1. \A r : IsFiniteSet(cells \cup {r})
      BY FS_AddElement DEF ChoicesTyped
    <3>2. QED
      BY <1>8, <3>1 DEF CreateCell
  <2>5. QED
    BY <1>8, <2>2, <2>3, <2>4 DEF CreateCell, ChoicesTyped, Disturb, BusySave
<1>9. ASSUME NEW e \in Authors, FindCell(e)
      PROVE  ChoicesTyped'
  <2>1. save[e].at \in Busy /\ save[e] \in BusySave
    BY <1>9, BusyIs DEF FindCell, SaveAt, Busy
  <2>2. NextLine(e) \/ Step(e, "updateCell", save[e].to)
    BY <1>9 DEF FindCell
  <2>3. save' \in [Authors -> Saves]
    BY <1>3, <1>4, <2>1, <2>2 DEF Busy, BusySave
  <2>4. QED
    BY <1>9, <2>3 DEF FindCell, ChoicesTyped, BusySave
<1>10. ASSUME NEW e \in Authors, UpdateCell(e)
       PROVE  ChoicesTyped'
  <2>1. save[e].at \in Busy /\ save[e] \in BusySave
    BY <1>10, BusyIs DEF UpdateCell, SaveAt, Busy
  <2>2. save' \in [Authors -> Saves]
    BY <1>3, <1>10, <2>1 DEF UpdateCell
  <2>3. Line(e).val \in Lines /\ save[e].to \in Nat
    BY <2>1 DEF Line, BusySave, PageLine
  <2>4. \A c \in cells : [c EXCEPT !.val = Line(e).val, !.answer = save[e].to]
                           \in [id : Nat, line : Lines, answer : Nat, val : Lines]
    BY <2>3 DEF ChoicesTyped
  <2>5. cells' \subseteq [id : Nat, line : Lines, answer : Nat, val : Lines]
    BY <1>10, <2>4 DEF UpdateCell, ChoicesTyped
  <2>6. IsFiniteSet(cells')
    <3> DEFINE f == [c \in cells |-> IF c.id = Line(e).cell
                                     THEN [c EXCEPT !.val = Line(e).val, !.answer = save[e].to] ELSE c]
    <3>1. f \in Surjection(cells, cells')
      BY <1>10 DEF UpdateCell, Surjection
    <3>2. QED
      BY <3>1, FS_Surjection DEF ChoicesTyped
  <2>7. QED
    BY <1>10, <2>2, <2>5, <2>6 DEF UpdateCell, ChoicesTyped, Disturb, BusySave
<1>11. ASSUME NEW e \in Authors, CutOff(e)
       PROVE  ChoicesTyped'
  <2>1. save' \in [Authors -> Saves] /\ cuts' \in [Authors -> 0..MaxCuts]
    BY <1>0, <1>11, ChoicesAssumption DEF CutOff, ChoicesTyped
  <2>2. QED
    BY <1>11, <2>1 DEF CutOff, ChoicesTyped, BusySave
<1>12. CASE DeleteAnswer
  <2>1. IsFiniteSet(answers') /\ IsFiniteSet(cells')
    BY <1>12, FS_Subset DEF DeleteAnswer, ChoicesTyped
  <2>2. QED
    BY <1>12, <2>1 DEF DeleteAnswer, ChoicesTyped, Disturb
<1>13. CASE DeleteCell
  <2>1. IsFiniteSet(cells')
    BY <1>13, FS_Subset DEF DeleteCell, ChoicesTyped
  <2>2. QED
    BY <1>13, <2>1 DEF DeleteCell, ChoicesTyped, Disturb
<1>14. QED
  BY <1>1, <1>2, <1>5, <1>6, <1>7, <1>8, <1>9, <1>10, <1>11, <1>12, <1>13 DEF ChoicesNext

LEMMA CellOfIs ==
  ASSUME ChoicesTyped, NEW a \in answers
  PROVE  CellOf(a) = None \/ \E c \in cells : c.id = CellOf(a) /\ c.answer = a.id
BY DEF CellOf, LastCells

\* An update keeps the ids and lines of all rows and touches one of them.
LEMMA AnswersUpdated ==
  ASSUME ChoicesTyped, NEW e \in Authors, UpdateAnswer(e)
  PROVE  /\ \A a \in answers' : \E b \in answers :
              b.id = a.id /\ b.line = a.line /\ (a = b \/ b.id = save[e].to)
         /\ \A b \in answers : \E a \in answers' :
              /\ a.id = b.id /\ a.line = b.line
              /\ IF b.id = save[e].to THEN a.val = Line(e).val ELSE a = b
         /\ IdsApart => \A a, b \in answers' : a.id = b.id => a = b
<1> DEFINE new(b) == [b EXCEPT !.val = Line(e).val]
<1>1. \A b \in answers : new(b).id = b.id /\ new(b).line = b.line /\ new(b).val = Line(e).val
  BY DEF ChoicesTyped
<1>2. answers' = {IF b.id = save[e].to THEN new(b) ELSE b : b \in answers}
  BY DEF UpdateAnswer
<1> HIDE DEF new
<1>3. QED
  BY <1>1, <1>2 DEF IdsApart

LEMMA CellsUpdated ==
  ASSUME ChoicesTyped, NEW e \in Authors, UpdateCell(e)
  PROVE  /\ \A c \in cells' : c \in cells \/ \E d \in cells :
              d.id = Line(e).cell /\ c.id = d.id /\ c.line = d.line /\ c.answer = save[e].to
         /\ \A d \in cells : \E c \in cells' :
              /\ c.id = d.id /\ c.line = d.line
              /\ IF d.id = Line(e).cell THEN c.val = Line(e).val /\ c.answer = save[e].to ELSE c = d
         /\ IdsApart => \A c, d \in cells' : c.id = d.id => c = d
<1> DEFINE new(c) == [c EXCEPT !.val = Line(e).val, !.answer = save[e].to]
<1>1. \A c \in cells : /\ new(c).id = c.id /\ new(c).line = c.line
                       /\ new(c).val = Line(e).val /\ new(c).answer = save[e].to
  BY DEF ChoicesTyped
<1>2. cells' = {IF c.id = Line(e).cell THEN new(c) ELSE c : c \in cells}
  BY DEF UpdateCell
<1> HIDE DEF new
<1>3. QED
  BY <1>1, <1>2 DEF IdsApart

LEMMA IdsApartStep ==
  ASSUME ChoicesTyped, IdsApart, CellsInPlace, \A e \in Authors : StepOK(e), ChoicesNext
  PROVE  IdsApart'
<1> USE DEF None
<1>1. ASSUME NEW e \in Authors, CreateAnswer(e)
      PROVE  IdsApart'
  BY <1>1 DEF CreateAnswer, IdsApart, ChoicesTyped
<1>2. ASSUME NEW e \in Authors, UpdateAnswer(e)
      PROVE  IdsApart'
  <2>1. \A a, b \in answers' : a.id = b.id => a = b
    BY <1>2, AnswersUpdated
  <2>2. \A a \in answers' : \E b \in answers : b.id = a.id
    BY <1>2, AnswersUpdated
  <2>3. UNCHANGED <<cells, fresh>>
    BY <1>2 DEF UpdateAnswer
  <2>4. QED
    BY <2>1, <2>2, <2>3 DEF IdsApart
<1>3. ASSUME NEW e \in Authors, CreateCell(e)
      PROVE  IdsApart'
  <2>1. save[e].at \in Busy /\ SaveAt(e, "cell")
    BY <1>3 DEF CreateCell, SaveAt, Busy
  <2>2. save[e].to < fresh /\ save[e].to \in Nat
    BY <2>1, BusyIs DEF StepOK, SaveAt
  <2>3. QED
    BY <1>3, <2>2 DEF CreateCell, IdsApart, ChoicesTyped
<1>4. ASSUME NEW e \in Authors, UpdateCell(e)
      PROVE  IdsApart'
  <2>1. save[e].at \in Busy /\ SaveAt(e, "updateCell")
    BY <1>4 DEF UpdateCell, SaveAt, Busy
  <2>2. save[e].to < fresh /\ save[e].to \in Nat
    BY <2>1, BusyIs DEF StepOK, SaveAt
  <2>3. \A c, d \in cells' : c.id = d.id => c = d
    BY <1>4, CellsUpdated
  <2>4. \A c \in cells' : \E d \in cells : d.id = c.id /\ c.answer \in {d.answer, save[e].to}
    BY <1>4, CellsUpdated
  <2>5. UNCHANGED <<answers, fresh>>
    BY <1>4 DEF UpdateCell
  <2>6. QED
    BY <2>2, <2>3, <2>4, <2>5 DEF IdsApart
<1>5. CASE DeleteAnswer \/ DeleteCell
  BY <1>5 DEF DeleteAnswer, DeleteCell, IdsApart
<1>6. ASSUME NEW e \in Authors,
             OpenPage(e) \/ StartSave(e) \/ FindAnswer(e) \/ FindCell(e) \/ CutOff(e)
      PROVE  IdsApart'
  BY <1>6 DEF OpenPage, StartSave, FindAnswer, FindCell, CutOff, IdsApart
<1>7. QED
  BY <1>1, <1>2, <1>3, <1>4, <1>5, <1>6 DEF ChoicesNext

LEMMA CellsInPlaceStep ==
  ASSUME ChoicesTyped, IdsApart, CellsInPlace, ChoicesNext,
         \A e \in Authors : PageOK(e) /\ StepOK(e)
  PROVE  CellsInPlace'
<1> USE DEF None
<1>1. ASSUME NEW e \in Authors, CreateAnswer(e)
      PROVE  CellsInPlace'
  BY <1>1 DEF CreateAnswer, CellsInPlace
<1>2. ASSUME NEW e \in Authors, UpdateAnswer(e)
      PROVE  CellsInPlace'
  <2>1. \A a \in answers : \E b \in answers' : b.id = a.id /\ b.line = a.line
    BY <1>2, AnswersUpdated
  <2>2. UNCHANGED <<cells, deletes>>
    BY <1>2 DEF UpdateAnswer
  <2>3. QED
    BY <2>1, <2>2 DEF CellsInPlace
<1>3. ASSUME NEW e \in Authors, CreateCell(e)
      PROVE  CellsInPlace'
  <2>1. save[e].at \in Busy /\ SaveAt(e, "cell")
    BY <1>3 DEF CreateCell, SaveAt, Busy
  <2>2. \/ save[e].to = None /\ deletes > 0
        \/ \E a \in answers : a.id = save[e].to /\ a.line = Line(e).line
    BY <1>3, <2>1 DEF CreateCell, StepOK, SaveAt, AnswerAt
  <2>3. QED
    BY <1>3, <2>2 DEF CreateCell, CellsInPlace
<1>4. ASSUME NEW e \in Authors, UpdateCell(e)
      PROVE  CellsInPlace'
  <2>1. save[e].at \in Busy /\ SaveAt(e, "updateCell")
    BY <1>4 DEF UpdateCell, SaveAt, Busy
  <2>2. Line(e) \in form[e] /\ \A d \in cells : d.id = Line(e).cell => d.line = Line(e).line
    BY <2>1 DEF StepOK, PageOK
  <2>3. ASSUME NEW d \in cells, d.id = Line(e).cell
        PROVE  \E a \in answers : a.id = save[e].to /\ a.line = Line(e).line
    <3>1. PICK a \in answers : a.id = save[e].to
      BY <1>4, <2>3 DEF UpdateCell, AnswerAt, CellAt
    <3>2. save[e].to # None
      BY <3>1 DEF IdsApart
    <3>3. a.line = Line(e).line
      BY <2>1, <3>1, <3>2 DEF StepOK, SaveAt
    <3>4. QED
      BY <3>1, <3>3
  <2>4. \A c \in cells' : c \in cells \/ \E d \in cells :
          d.id = Line(e).cell /\ c.id = d.id /\ c.line = d.line /\ c.answer = save[e].to
    BY <1>4, CellsUpdated
  <2>5. UNCHANGED <<answers, deletes>>
    BY <1>4 DEF UpdateCell
  <2>6. ASSUME NEW c \in cells'
        PROVE  (\E a \in answers : a.id = c.answer /\ a.line = c.line) \/ (c.answer = None /\ deletes > 0)
    <3>1. CASE c \in cells
      BY <3>1 DEF CellsInPlace
    <3>2. CASE \E d \in cells : d.id = Line(e).cell /\ c.line = d.line /\ c.answer = save[e].to
      BY <2>2, <2>3, <3>2
    <3>3. QED
      BY <2>4, <3>1, <3>2
  <2>7. QED
    BY <2>5, <2>6 DEF CellsInPlace
<1>5. CASE DeleteAnswer
  <2>1. PICK a \in answers : answers' = answers \ {a} /\ cells' = {c \in cells : c.answer # a.id}
    BY <1>5 DEF DeleteAnswer
  <2>2. deletes' > 0 /\ deletes' = deletes + 1
    BY <1>5 DEF DeleteAnswer, ChoicesTyped
  <2>3. ASSUME NEW c \in cells'
        PROVE  (\E b \in answers' : b.id = c.answer /\ b.line = c.line) \/ c.answer = None
    BY <2>1 DEF CellsInPlace
  <2>4. QED
    BY <2>2, <2>3 DEF CellsInPlace
<1>6. CASE DeleteCell
  BY <1>6 DEF DeleteCell, CellsInPlace, ChoicesTyped
<1>7. ASSUME NEW e \in Authors,
             OpenPage(e) \/ StartSave(e) \/ FindAnswer(e) \/ FindCell(e) \/ CutOff(e)
      PROVE  CellsInPlace'
  BY <1>7 DEF OpenPage, StartSave, FindAnswer, FindCell, CutOff, CellsInPlace
<1>8. QED
  BY <1>1, <1>2, <1>3, <1>4, <1>5, <1>6, <1>7 DEF ChoicesNext

\* The cell an update finds is under the row of its line already.
LEMMA UpdateCellKeeps ==
  ASSUME ChoicesTyped, IdsApart, CellsInPlace, NEW e \in Authors, PageOK(e), StepOK(e), UpdateCell(e),
         NEW c \in cells, c.id = Line(e).cell
  PROVE  c.answer = save[e].to
<1> USE DEF None
<1>1. save[e].at \in Busy /\ SaveAt(e, "updateCell")
  BY DEF UpdateCell, SaveAt, Busy
<1>2. Line(e) \in form[e]
  BY <1>1 DEF StepOK
<1>3. c.answer = Line(e).answer /\ Line(e).answer # None
  BY <1>2 DEF PageOK, IdsApart
<1>4. AnswerAt(Line(e).answer) # {}
  BY <1>3 DEF CellsInPlace, AnswerAt
<1>5. save[e].to # None
  BY <1>1, <1>4 DEF StepOK, SaveAt
<1>6. QED
  BY <1>1, <1>3, <1>5 DEF StepOK, SaveAt

\* What a step does to rows and cells: those there keep their ids, lines and
\* places, and new ones have a new id.
LEMMA RowsStep ==
  ASSUME ChoicesTyped, IdsApart, CellsInPlace, ChoicesNext,
         \A e \in Authors : PageOK(e) /\ StepOK(e)
  PROVE  /\ fresh' \in Nat /\ fresh' >= fresh /\ deletes' \in Nat /\ deletes' >= deletes
         /\ \A a \in answers' : a.id = fresh \/ \E b \in answers : b.id = a.id /\ b.line = a.line
         /\ \A c \in cells' : c.id = fresh \/
              \E d \in cells : d.id = c.id /\ d.line = c.line /\ d.answer = c.answer
         /\ deletes' = 0 => \A b \in answers : \E a \in answers' : a.id = b.id
<1>1. ASSUME NEW e \in Authors, CreateAnswer(e)
      PROVE  /\ fresh' = fresh + 1 /\ UNCHANGED <<cells, deletes>>
             /\ \A a \in answers' : a.id = fresh \/ a \in answers
             /\ answers \subseteq answers'
  BY <1>1 DEF CreateAnswer
<1>2. ASSUME NEW e \in Authors, UpdateAnswer(e)
      PROVE  /\ UNCHANGED <<cells, deletes, fresh>>
             /\ \A a \in answers' : \E b \in answers : b.id = a.id /\ b.line = a.line
             /\ \A b \in answers : \E a \in answers' : a.id = b.id
  <2>1. UNCHANGED <<cells, deletes, fresh>>
    BY <1>2 DEF UpdateAnswer
  <2>2. QED
    BY <1>2, <2>1, AnswersUpdated
<1>3. ASSUME NEW e \in Authors, CreateCell(e)
      PROVE  /\ fresh' = fresh + 1 /\ UNCHANGED <<answers, deletes>>
             /\ \A c \in cells' : c.id = fresh \/ c \in cells
  BY <1>3 DEF CreateCell
<1>4. ASSUME NEW e \in Authors, UpdateCell(e)
      PROVE  /\ UNCHANGED <<answers, deletes, fresh>>
             /\ \A c \in cells' : \E d \in cells : d.id = c.id /\ d.line = c.line /\ d.answer = c.answer
  <2>1. \A c \in cells' : c \in cells \/ \E d \in cells :
          d.id = Line(e).cell /\ c.id = d.id /\ c.line = d.line /\ c.answer = save[e].to
    BY <1>4, CellsUpdated
  <2>2. \A d \in cells : d.id = Line(e).cell => d.answer = save[e].to
    BY <1>4, UpdateCellKeeps
  <2>3. UNCHANGED <<answers, deletes, fresh>>
    BY <1>4 DEF UpdateCell
  <2>4. \A c \in cells' : \E d \in cells : d.id = c.id /\ d.line = c.line /\ d.answer = c.answer
    BY <2>1, <2>2
  <2>5. QED
    BY <2>3, <2>4
<1>5. CASE DeleteAnswer \/ DeleteCell
  BY <1>5 DEF DeleteAnswer, DeleteCell, ChoicesTyped
<1>6. ASSUME NEW e \in Authors,
             OpenPage(e) \/ StartSave(e) \/ FindAnswer(e) \/ FindCell(e) \/ CutOff(e)
      PROVE  UNCHANGED <<answers, cells, deletes, fresh>>
  BY <1>6 DEF OpenPage, StartSave, FindAnswer, FindCell, CutOff
<1>7. fresh \in Nat /\ deletes \in Nat
  BY DEF ChoicesTyped
<1> DEFINE P == /\ fresh' \in Nat /\ fresh' >= fresh /\ deletes' \in Nat /\ deletes' >= deletes
                /\ \A a \in answers' : a.id = fresh \/ \E b \in answers : b.id = a.id /\ b.line = a.line
                /\ \A c \in cells' : c.id = fresh \/
                     \E d \in cells : d.id = c.id /\ d.line = c.line /\ d.answer = c.answer
                /\ deletes' = 0 => \A b \in answers : \E a \in answers' : a.id = b.id
<1>8. \A e \in Authors : CreateAnswer(e) \/ CreateCell(e) => P
  BY <1>1, <1>3, <1>7
<1>9. \A e \in Authors : UpdateAnswer(e) \/ UpdateCell(e) => P
  BY <1>2, <1>4, <1>7
<1>10. DeleteAnswer \/ DeleteCell => P
  <2>1. DeleteAnswer \/ DeleteCell =>
          /\ fresh' = fresh /\ deletes' = deletes + 1 /\ answers' \subseteq answers /\ cells' \subseteq cells
    BY DEF DeleteAnswer, DeleteCell
  <2>2. QED
    BY <1>7, <2>1
<1>11. \A e \in Authors : OpenPage(e) \/ StartSave(e) \/ FindAnswer(e) \/ FindCell(e) \/ CutOff(e) => P
  BY <1>6, <1>7
<1>12. QED
  BY <1>8, <1>9, <1>10, <1>11 DEF ChoicesNext

\* Only opening the page changes what it sends.
LEMMA FormStep ==
  ASSUME ChoicesTyped, ChoicesNext, NEW e \in Authors
  PROVE  form'[e] = form[e] \/ (OpenPage(e) /\ form[e] = {})
<1>1. (\E d \in Authors : OpenPage(d)) \/ UNCHANGED form
  BY DEF ChoicesNext, StartSave, CreateAnswer, FindAnswer, UpdateAnswer,
         CreateCell, FindCell, UpdateCell, CutOff, DeleteAnswer, DeleteCell
<1>2. \A d \in Authors : OpenPage(d) => form[d] = {} /\ (d # e => form'[e] = form[e])
  BY DEF OpenPage, ChoicesTyped
<1>3. QED
  BY <1>1, <1>2

LEMMA Opened ==
  ASSUME ChoicesTyped, IdsApart, CellsInPlace, NEW e \in Authors, OpenPage(e)
  PROVE  PageOK(e)'
<1> USE DEF None
<1>1. PICK changed \in BOOLEAN :
        form' = [form EXCEPT ![e] =
          {Shown(a, IF changed THEN e ELSE a.val) : a \in answers} \cup {NewLine(e)}]
  BY DEF OpenPage
<1> DEFINE shown(a) == Shown(a, IF changed THEN e ELSE a.val)
           Own(x) == \E a \in answers :
             x.answer = a.id /\ x.line = a.line /\ x.cell = CellOf(a) /\ x = shown(a)
<1>2. form'[e] = {Shown(a, IF changed THEN e ELSE a.val) : a \in answers} \cup {NewLine(e)}
  BY <1>1 DEF ChoicesTyped
<1>3. \A x \in form'[e] : Own(x) \/ x = NewLine(e)
  BY <1>2 DEF Shown
<1> HIDE DEF shown
<1>4. NewLine(e).answer = None /\ NewLine(e).cell = None
  BY DEF NewLine
<1>5. UNCHANGED <<answers, cells, fresh, deletes>>
  BY DEF OpenPage
<1>6. \A a \in answers : a.id # None /\ a.id < fresh
  BY DEF IdsApart
<1>7. \A a \in answers : CellOf(a) = None \/ \E c \in cells : c.id = CellOf(a) /\ c.answer = a.id
  BY CellOfIs
<1>8. \A x, y \in form'[e] : x.answer = y.answer => x = y
  BY <1>3, <1>4, <1>6 DEF IdsApart
<1>9. \A x, y \in form'[e] : x.cell # None /\ x.cell = y.cell => x = y
  <2>1. SUFFICES ASSUME NEW x \in form'[e], NEW y \in form'[e], x.cell # None, x.cell = y.cell
                 PROVE  x.answer = y.answer
    BY <1>8
  <2>2. PICK a \in answers : x.answer = a.id /\ x.cell = CellOf(a)
    BY <1>3, <1>4, <2>1
  <2>3. PICK b \in answers : y.answer = b.id /\ y.cell = CellOf(b)
    BY <1>3, <1>4, <2>1
  <2>4. PICK c \in cells : c.id = CellOf(a) /\ c.answer = a.id
    BY <1>7, <2>1, <2>2
  <2>5. PICK d \in cells : d.id = CellOf(b) /\ d.answer = b.id
    BY <1>7, <2>1, <2>2, <2>3
  <2>6. c = d
    BY <2>1, <2>2, <2>3, <2>4, <2>5 DEF IdsApart
  <2>7. QED
    BY <2>2, <2>3, <2>4, <2>5, <2>6
<1>10. ASSUME NEW x \in form'[e]
       PROVE  /\ x.answer < fresh /\ x.cell < fresh
              /\ x.answer = None => x.cell = None
              /\ \A a \in answers : a.id = x.answer => a.line = x.line
              /\ \A c \in cells : c.id = x.cell => c.line = x.line /\ c.answer = x.answer
              /\ x.answer # None => AnswerAt(x.answer) # {}
  <2>1. CASE x = NewLine(e)
    BY <1>4, <2>1 DEF IdsApart, ChoicesTyped
  <2>2. CASE Own(x)
    <3>1. PICK a \in answers : x.answer = a.id /\ x.line = a.line /\ x.cell = CellOf(a)
      BY <2>2
    <3>2. x.cell < fresh
      BY <1>7, <3>1 DEF IdsApart, ChoicesTyped
    <3>3. \A c \in cells : c.id = x.cell => c.answer = a.id
      BY <1>7, <3>1 DEF IdsApart
    <3>4. \A c \in cells : c.answer = a.id => c.line = a.line
      BY <1>6 DEF IdsApart, CellsInPlace
    <3>5. AnswerAt(x.answer) # {}
      BY <3>1 DEF AnswerAt
    <3>6. QED
      BY <1>6, <3>1, <3>2, <3>3, <3>4, <3>5 DEF IdsApart
  <2>3. QED
    BY <1>3, <2>1, <2>2
<1>11. \A i : AnswerAt(i)' = AnswerAt(i)
  BY <1>5 DEF AnswerAt
<1>12. QED
  BY <1>5, <1>8, <1>9, <1>10, <1>11 DEF PageOK

LEMMA PageOKStep ==
  ASSUME ChoicesTyped, IdsApart, CellsInPlace, ChoicesNext,
         \A d \in Authors : PageOK(d) /\ StepOK(d), NEW e \in Authors
  PROVE  PageOK(e)'
<1> USE DEF None
<1>1. CASE form'[e] = form[e]
  <2>1. \A x, y \in form[e] : /\ x.answer = y.answer => x = y
                              /\ x.cell # None /\ x.cell = y.cell => x = y
    BY DEF PageOK
  <2>2. ASSUME NEW x \in form[e]
        PROVE  /\ x.answer < fresh' /\ x.cell < fresh'
               /\ x.answer = None => x.cell = None
               /\ \A a \in answers' : a.id = x.answer => a.line = x.line
               /\ \A c \in cells' : c.id = x.cell => c.line = x.line /\ c.answer = x.answer
               /\ deletes' = 0 /\ x.answer # None => AnswerAt(x.answer)' # {}
    <3>1. /\ x.answer < fresh /\ x.cell < fresh
          /\ x.answer = None => x.cell = None
          /\ \A a \in answers : a.id = x.answer => a.line = x.line
          /\ \A c \in cells : c.id = x.cell => c.line = x.line /\ c.answer = x.answer
          /\ deletes = 0 /\ x.answer # None => AnswerAt(x.answer) # {}
      BY DEF PageOK
    <3>2. x.answer \in Nat /\ x.cell \in Nat /\ fresh \in Nat /\ deletes \in Nat
      BY DEF ChoicesTyped, PageLine
    <3>3. x.answer # fresh /\ x.cell # fresh /\ x.answer < fresh' /\ x.cell < fresh'
      BY <3>1, <3>2, RowsStep
    <3>4. \A a \in answers' : a.id = x.answer => a.line = x.line
      BY <3>1, <3>3, RowsStep
    <3>5. \A c \in cells' : c.id = x.cell => c.line = x.line /\ c.answer = x.answer
      BY <3>1, <3>3, RowsStep
    <3>6. deletes' = 0 /\ x.answer # None => AnswerAt(x.answer)' # {}
      <4>1. deletes' = 0 => deletes = 0
        BY <3>2, RowsStep
      <4>2. QED
        BY <3>1, <4>1, RowsStep DEF AnswerAt
    <3>7. QED
      BY <3>1, <3>3, <3>4, <3>5, <3>6
  <2>3. QED
    BY <1>1, <2>1, <2>2 DEF PageOK
<1>2. QED
  BY <1>1, FormStep, Opened

Acts(e) ==
  \/ StartSave(e) \/ CreateAnswer(e) \/ FindAnswer(e) \/ UpdateAnswer(e)
  \/ CreateCell(e) \/ FindCell(e) \/ UpdateCell(e) \/ CutOff(e)

LEMMA ActsBusy ==
  ASSUME NEW e \in Authors
  PROVE  CreateAnswer(e) \/ FindAnswer(e) \/ UpdateAnswer(e) \/ CreateCell(e) \/ FindCell(e) \/ UpdateCell(e)
           => save[e].at \in Busy
BY DEF CreateAnswer, FindAnswer, UpdateAnswer, CreateCell, FindCell, UpdateCell, SaveAt, Busy

\* A save moves by its own steps.
LEMMA SaveStep ==
  ASSUME ChoicesTyped, ChoicesNext, NEW e \in Authors
  PROVE  save'[e] = save[e] \/ Acts(e)
<1>1. ASSUME NEW d \in Authors, Acts(d)
      PROVE  save' = [save EXCEPT ![d] = save'[d]]
  <2>1. StartSave(d) => save' = [save EXCEPT ![d] = save'[d]]
    BY StartIs
  <2>2. CreateAnswer(d) \/ FindAnswer(d) \/ UpdateAnswer(d) => save' = [save EXCEPT ![d] = save'[d]]
    BY DEF CreateAnswer, FindAnswer, UpdateAnswer, Step, ChoicesTyped
  <2>3. CreateCell(d) \/ UpdateCell(d) => save' = [save EXCEPT ![d] = save'[d]]
    BY ActsBusy, NextLineIs DEF CreateCell, UpdateCell
  <2>4. FindCell(d) => NextLine(d) \/ Step(d, "updateCell", save[d].to)
    BY DEF FindCell
  <2>5. FindCell(d) => save' = [save EXCEPT ![d] = save'[d]]
    BY <2>4, ActsBusy, NextLineIs DEF Step, ChoicesTyped
  <2>6. CutOff(d) => save' = [save EXCEPT ![d] = save'[d]]
    BY DEF CutOff, ChoicesTyped
  <2>7. QED
    BY <1>1, <2>1, <2>2, <2>3, <2>5, <2>6 DEF Acts
<1>2. (\E d \in Authors : Acts(d)) \/ UNCHANGED save
  BY DEF ChoicesNext, Acts, OpenPage, DeleteAnswer, DeleteCell
<1>3. QED
  BY <1>1, <1>2 DEF ChoicesTyped

\* What a save relies on stays right while others write.
LEMMA StepOKKept ==
  ASSUME ChoicesTyped, IdsApart, CellsInPlace, ChoicesNext,
         \A d \in Authors : PageOK(d) /\ StepOK(d), NEW e \in Authors,
         save'[e] = save[e], form'[e] = form[e]
  PROVE  StepOK(e)'
<1> USE DEF None
<1>1. SUFFICES ASSUME save[e].at \in Busy
               PROVE  StepOK(e)'
  BY DEF StepOK
<1>2. /\ Line(e) \in form[e] /\ save[e].left \subseteq form[e] /\ Line(e) \notin save[e].left
      /\ SaveAt(e, "update") => save[e].to = Line(e).answer /\ save[e].to # None
      /\ SaveAt(e, "updateCell") => Line(e).cell # None
  BY <1>1 DEF StepOK
<1>3. ASSUME save[e].at \in {"cell", "updateCell"}
      PROVE  /\ save[e].to < fresh'
             /\ save[e].to = None => deletes' > 0 /\ Line(e).answer # None /\ AnswerAt(Line(e).answer)' = {}
             /\ save[e].to # None =>
                  /\ Line(e).answer # None => save[e].to = Line(e).answer
                  /\ Line(e).answer = None => \A x \in form[e] : x.answer # save[e].to
                  /\ \A a \in answers' : a.id = save[e].to => a.line = Line(e).line
  <2>1. /\ save[e].to < fresh
        /\ save[e].to = None => deletes > 0 /\ Line(e).answer # None /\ AnswerAt(Line(e).answer) = {}
        /\ save[e].to # None =>
             /\ Line(e).answer # None => save[e].to = Line(e).answer
             /\ Line(e).answer = None => \A x \in form[e] : x.answer # save[e].to
             /\ \A a \in answers : a.id = save[e].to => a.line = Line(e).line
    BY <1>1, <1>3 DEF StepOK
  <2>2. save[e].to \in Nat /\ fresh \in Nat /\ deletes \in Nat
    BY <1>1, BusyIs DEF ChoicesTyped
  <2>3. Line(e).answer < fresh /\ Line(e).answer \in Nat
    BY <1>2 DEF PageOK, ChoicesTyped, PageLine
  <2>4. \A a \in answers' : a.id = fresh \/ \E b \in answers : b.id = a.id /\ b.line = a.line
    BY RowsStep
  <2>5. fresh' \in Nat /\ fresh' >= fresh /\ deletes' \in Nat /\ deletes' >= deletes
    BY RowsStep
  <2>6. AnswerAt(Line(e).answer) = {} => AnswerAt(Line(e).answer)' = {}
    <3>1. AnswerAt(Line(e).answer)' = {a \in answers' : a.id = Line(e).answer}
      BY DEF AnswerAt, Line
    <3>2. QED
      BY <2>3, <2>4, <3>1 DEF AnswerAt
  <2>7. save[e].to # None => \A a \in answers' : a.id = save[e].to => a.line = Line(e).line
    BY <2>1, <2>2, <2>4
  <2>8. save[e].to < fresh' /\ (deletes > 0 => deletes' > 0)
    BY <2>1, <2>2, <2>5
  <2>9. QED
    BY <2>1, <2>6, <2>7, <2>8
<1>4. Line(e)' = Line(e)
  BY DEF Line
<1>5. QED
  BY <1>2, <1>3, <1>4 DEF StepOK, SaveAt

LEMMA StepOKStep ==
  ASSUME ChoicesTyped, IdsApart, CellsInPlace, ChoicesNext,
         \A d \in Authors : PageOK(d) /\ StepOK(d), NEW e \in Authors
  PROVE  StepOK(e)'
<1> USE DEF None
<1>1. CASE save'[e] = save[e]
  <2>1. CASE form'[e] = form[e]
    BY <1>1, <2>1, StepOKKept
  <2>2. CASE OpenPage(e)
    BY <1>1, <2>2 DEF OpenPage, SaveAt, StepOK, Busy
  <2>3. QED
    BY <2>1, <2>2, FormStep
<1>2. CASE StartSave(e)
  <2>1. PICK line \in form[e] :
          save'[e] = [at |-> "answer", line |-> line, left |-> form[e] \ {line}, to |-> None]
    BY <1>2, StartIs
  <2>2. form' = form
    BY <1>2 DEF StartSave
  <2>3. QED
    BY <2>1, <2>2 DEF StepOK, SaveAt, Line
<1>3. ASSUME NextLine(e), save[e].at \in Busy, form' = form
      PROVE  StepOK(e)'
  <2>1. save[e].left \subseteq form[e]
    BY <1>3 DEF StepOK
  <2>2. CASE save[e].left = {} /\ save'[e] = [at |-> "saved"]
    BY <2>2 DEF StepOK, Busy
  <2>3. CASE \E line \in save[e].left :
          save'[e] = [at |-> "answer", line |-> line, left |-> save[e].left \ {line}, to |-> None]
    BY <1>3, <2>1, <2>3 DEF StepOK, SaveAt, Line
  <2>4. QED
    BY <1>3, <2>2, <2>3, NextLineIs
<1> DEFINE Moved(at, to) == [at |-> at, line |-> save[e].line, left |-> save[e].left, to |-> to]
<1>4. ASSUME save[e].at \in Busy, form' = form, NEW at \in {"cell", "updateCell"}, NEW to \in Nat,
             save'[e] = Moved(at, to), at = "updateCell" => Line(e).cell # None, to < fresh',
             to = None => deletes' > 0 /\ Line(e).answer # None /\ AnswerAt(Line(e).answer)' = {},
             to # None =>
               /\ Line(e).answer # None => to = Line(e).answer
               /\ Line(e).answer = None => \A x \in form[e] : x.answer # to
               /\ \A a \in answers' : a.id = to => a.line = Line(e).line
      PROVE  StepOK(e)'
  <2>1. Line(e) \in form[e] /\ save[e].left \subseteq form[e] /\ Line(e) \notin save[e].left
    BY <1>4 DEF StepOK
  <2>2. save'[e].at = at /\ save'[e].to = to /\ save'[e].left = save[e].left /\ Line(e)' = Line(e)
    BY <1>4 DEF Line
  <2>3. QED
    BY <1>4, <2>1, <2>2 DEF StepOK, SaveAt
<1>5. CASE CreateAnswer(e)
  <2>1. /\ Step(e, "cell", fresh) /\ form' = form /\ fresh' = fresh + 1 /\ Line(e).answer = None
        /\ answers' = answers \cup {[id |-> fresh, line |-> Line(e).line, val |-> Line(e).val]}
    BY <1>5 DEF CreateAnswer
  <2>2. fresh \in Nat /\ fresh # None
    BY DEF ChoicesTyped
  <2>3. save[e].at \in Busy
    BY <1>5, ActsBusy
  <2>4. save'[e] = Moved("cell", fresh)
    BY <2>1, <2>2, <2>3, StepIs DEF Busy
  <2>5. \A x \in form[e] : x.answer # fresh
    BY <2>2 DEF PageOK
  <2>6. \A a \in answers' : a.id = fresh => a.line = Line(e).line
    BY <2>1, <2>2 DEF IdsApart
  <2>7. QED
    BY <1>4, <2>1, <2>2, <2>3, <2>4, <2>5, <2>6
<1>6. CASE FindAnswer(e)
  <2>1. save[e].at \in Busy /\ SaveAt(e, "answer")
    BY <1>6, ActsBusy DEF FindAnswer
  <2>2. Line(e) \in form[e] /\ save[e].left \subseteq form[e] /\ Line(e) \notin save[e].left
    BY <2>1 DEF StepOK
  <2>3. Line(e).answer # None /\ UNCHANGED <<answers, cells, fresh, form, deletes>>
    BY <1>6 DEF FindAnswer
  <2>4. fresh \in Nat /\ deletes \in Nat
    BY DEF ChoicesTyped
  <2>5. CASE AnswerAt(Line(e).answer) = {} /\ Step(e, "cell", None)
    <3>1. save'[e] = Moved("cell", None)
      BY <2>1, <2>5, StepIs DEF Busy
    <3>2. deletes > 0
      BY <2>2, <2>3, <2>4, <2>5 DEF PageOK
    <3>3. Line(e).answer \in Nat /\ None < fresh
      BY <2>2, <2>4 DEF ChoicesTyped, PageLine
    <3>4. AnswerAt(Line(e).answer)' = {}
      BY <2>3, <2>5, <3>1 DEF AnswerAt, Line
    <3>5. QED
      BY <1>4, <2>1, <2>3, <3>1, <3>2, <3>3, <3>4
  <2>6. CASE \E a \in AnswerAt(Line(e).answer) :
               Step(e, IF Unchanged(a, Line(e)) THEN "cell" ELSE "update", a.id)
    <3>1. PICK a \in AnswerAt(Line(e).answer) :
            Step(e, IF Unchanged(a, Line(e)) THEN "cell" ELSE "update", a.id)
      BY <2>6
    <3>2. a \in answers /\ a.id = Line(e).answer /\ a.id \in Nat
      BY <3>1 DEF AnswerAt, ChoicesTyped
    <3>3. a.id < fresh /\ \A b \in answers : b.id = a.id => b.line = Line(e).line
      BY <2>2, <3>2 DEF PageOK, IdsApart
    <3>4. PICK at \in {"cell", "update"} : Step(e, at, a.id)
      BY <3>1
    <3>5. save'[e] = Moved(at, a.id)
      BY <2>1, <3>2, <3>4, StepIs DEF Busy
    <3>6. CASE at = "cell"
      BY <1>4, <2>1, <2>3, <3>2, <3>3, <3>5, <3>6
    <3>7. CASE at = "update"
      <4>1. save'[e].at = at /\ save'[e].to = a.id /\ save'[e].left = save[e].left /\ Line(e)' = Line(e)
        BY <3>5 DEF Line
      <4>2. QED
        BY <2>2, <2>3, <3>2, <3>7, <4>1 DEF StepOK, SaveAt
    <3>8. QED
      BY <3>4, <3>6, <3>7
  <2>7. QED
    BY <1>6, <2>5, <2>6 DEF FindAnswer
<1>7. CASE UpdateAnswer(e)
  <2>1. save[e].at \in Busy /\ SaveAt(e, "update")
    BY <1>7, ActsBusy DEF UpdateAnswer
  <2>2. Line(e) \in form[e] /\ save[e].to = Line(e).answer /\ save[e].to # None
    BY <2>1 DEF StepOK
  <2>3. Step(e, "cell", save[e].to) /\ UNCHANGED <<cells, fresh, form, deletes>>
    BY <1>7 DEF UpdateAnswer
  <2>4. save[e].to \in Nat /\ save[e].to < fresh
    BY <2>1, <2>2, BusyIs DEF PageOK
  <2>5. save'[e] = Moved("cell", save[e].to)
    BY <2>1, <2>3, <2>4, StepIs DEF Busy
  <2>6. \A a \in answers' : \E b \in answers : b.id = a.id /\ b.line = a.line
    BY <1>7, AnswersUpdated
  <2>7. \A a \in answers' : a.id = save[e].to => a.line = Line(e).line
    BY <2>2, <2>6 DEF PageOK
  <2>8. QED
    BY <1>4, <2>1, <2>2, <2>3, <2>4, <2>5, <2>7
<1>8. CASE FindCell(e)
  <2>1. save[e].at \in Busy /\ SaveAt(e, "cell") /\ Line(e).cell # None
    BY <1>8, ActsBusy DEF FindCell
  <2>2. UNCHANGED <<answers, cells, fresh, form, deletes>>
    BY <1>8 DEF FindCell
  <2>3. CASE NextLine(e)
    BY <1>3, <2>1, <2>2, <2>3
  <2>4. CASE Step(e, "updateCell", save[e].to)
    <3>1. save[e].to \in Nat
      BY <2>1, BusyIs
    <3>2. save'[e] = Moved("updateCell", save[e].to)
      BY <2>1, <2>4, <3>1, StepIs DEF Busy
    <3>3. /\ save[e].to < fresh
          /\ save[e].to = None => deletes > 0 /\ Line(e).answer # None /\ AnswerAt(Line(e).answer) = {}
          /\ save[e].to # None =>
               /\ Line(e).answer # None => save[e].to = Line(e).answer
               /\ Line(e).answer = None => \A x \in form[e] : x.answer # save[e].to
               /\ \A a \in answers : a.id = save[e].to => a.line = Line(e).line
      BY <2>1 DEF StepOK, SaveAt
    <3>4. AnswerAt(Line(e).answer)' = AnswerAt(Line(e).answer)
      BY <2>2, <3>2 DEF AnswerAt, Line
    <3>5. QED
      BY <1>4, <2>1, <2>2, <3>1, <3>2, <3>3, <3>4
  <2>5. QED
    BY <1>8, <2>3, <2>4 DEF FindCell
<1>9. CASE CreateCell(e) \/ UpdateCell(e)
  BY <1>3, <1>9, ActsBusy DEF CreateCell, UpdateCell
<1>10. CASE CutOff(e)
  BY <1>10 DEF CutOff, StepOK, NotSaving, Busy, ChoicesTyped
<1>11. QED
  BY <1>1, <1>2, <1>5, <1>6, <1>7, <1>8, <1>9, <1>10, SaveStep DEF Acts

LEMMA ThroughStart ==
  ASSUME ChoicesTyped, NEW e \in Authors, StartSave(e)
  PROVE  Through(e) = {} /\ Through(e)' = {} /\ save'[e].at = "answer" /\ form' = form
<1>1. PICK line \in form[e] :
        save'[e] = [at |-> "answer", line |-> line, left |-> form[e] \ {line}, to |-> None]
  BY StartIs
<1>2. form' = form /\ save[e].at = "page"
  BY DEF StartSave, SaveAt
<1>3. QED
  BY <1>1, <1>2 DEF Through, SaveAt, Line, Busy

LEMMA ThroughNext ==
  ASSUME ChoicesTyped, NEW e \in Authors, StepOK(e), NextLine(e), save[e].at \in Busy, form' = form
  PROVE  Through(e)' = Through(e) \cup {Line(e)} /\ save'[e].at \in {"answer", "saved"}
<1>1. Line(e) \in form[e] /\ save[e].left \subseteq form[e] /\ Line(e) \notin save[e].left
  BY DEF StepOK
<1>2. Through(e) \cup {Line(e)} = form[e] \ save[e].left
  BY <1>1 DEF Through, SaveAt, Busy
<1>3. CASE save[e].left = {} /\ save'[e] = [at |-> "saved"]
  BY <1>2, <1>3 DEF Through, SaveAt
<1>4. CASE \E line \in save[e].left :
        save'[e] = [at |-> "answer", line |-> line, left |-> save[e].left \ {line}, to |-> None]
  BY <1>1, <1>2, <1>4 DEF Through, SaveAt, Line, Busy
<1>5. QED
  BY <1>3, <1>4, NextLineIs

LEMMA ThroughMoved ==
  ASSUME ChoicesTyped, NEW e \in Authors, save[e].at \in Busy, form' = form,
         NEW at \in Busy, NEW to \in Nat, Step(e, at, to)
  PROVE  Through(e)' = Through(e) /\ Line(e)' = Line(e) /\ save'[e].at = at /\ save'[e].to = to
<1>1. save'[e] = [at |-> at, line |-> save[e].line, left |-> save[e].left, to |-> to]
  BY StepIs
<1>2. QED
  BY <1>1 DEF Through, SaveAt, Line, Busy

\* A line stays stored as it was sent while its row and its cell do.
LEMMA KeptStays ==
  ASSUME NEW e \in Authors, NEW x, KeptLine(e, x), form' = form,
         \A a \in answers :
           (IF x.answer # None THEN a.id = x.answer ELSE \A y \in form[e] : y.answer # a.id) => a \in answers',
         \A c \in cells :
           (IF x.cell # None THEN c.id = x.cell ELSE \A y \in form[e] : y.cell # c.id) => c \in cells'
  PROVE  KeptLine(e, x)'
<1>1. PICK a \in answers, c \in cells :
        /\ a.line = x.line /\ a.val = x.val
        /\ c.line = x.line /\ c.val = x.val /\ c.answer = a.id
        /\ IF x.answer # None THEN a.id = x.answer ELSE \A y \in form[e] : y.answer # a.id
        /\ IF x.cell # None THEN c.id = x.cell ELSE \A y \in form[e] : y.cell # c.id
  BY DEF KeptLine
<1>2. a \in answers' /\ c \in cells'
  BY <1>1
<1>3. QED
  BY <1>1, <1>2 DEF KeptLine

\* While a save is quiet nobody else writes.
LEMMA QuietStep ==
  ASSUME ChoicesNext, NEW e \in Authors, ~Acts(e), e \in alone'
  PROVE  e \in alone /\ (SaveAt(e, "page") \/ UNCHANGED <<answers, cells>>)
<1>1. ASSUME NEW d \in Authors, d # e, Acts(d)
      PROVE  e \in alone /\ (SaveAt(e, "page") \/ UNCHANGED <<answers, cells>>)
  BY <1>1 DEF Acts, StartSave, CreateAnswer, FindAnswer, UpdateAnswer, CreateCell, FindCell, UpdateCell,
              CutOff, Disturb
<1>2. CASE DeleteAnswer \/ DeleteCell
  BY <1>2 DEF DeleteAnswer, DeleteCell, Disturb
<1>3. CASE \E d \in Authors : OpenPage(d)
  BY <1>3 DEF OpenPage
<1>4. QED
  BY <1>1, <1>2, <1>3 DEF ChoicesNext, Acts

LEMMA AloneOKQuiet ==
  ASSUME ChoicesTyped, ChoicesNext, NEW e \in Authors, AloneOK(e), ~Acts(e)
  PROVE  AloneOK(e)'
<1>1. SUFFICES ASSUME e \in alone'
               PROVE  AloneOK(e)'
  BY DEF AloneOK
<1>2. save'[e] = save[e]
  BY SaveStep
<1>3. CASE SaveAt(e, "page")
  <2>1. Through(e)' = {}
    BY <1>2, <1>3 DEF Through, SaveAt, Busy
  <2>2. save'[e].at = "page"
    BY <1>2, <1>3 DEF SaveAt
  <2>3. QED
    BY <2>1, <2>2 DEF AloneOK, SaveAt
<1>4. CASE ~SaveAt(e, "page")
  <2>1. e \in alone /\ UNCHANGED <<answers, cells>>
    BY <1>1, <1>4, QuietStep
  <2>2. form'[e] = form[e]
    BY <1>4, FormStep DEF OpenPage
  <2>3. Through(e)' = Through(e) /\ Line(e)' = Line(e)
    BY <1>2, <2>2 DEF Through, SaveAt, Line
  <2>4. \A x : KeptLine(e, x) => KeptLine(e, x)'
    BY <2>1, <2>2 DEF KeptLine
  <2>5. /\ \A x \in Through(e) : x.answer = None \/ AnswerAt(x.answer) # {} => KeptLine(e, x)
        /\ SaveAt(e, "update") => AnswerAt(save[e].to) # {}
        /\ save[e].at \in {"cell", "updateCell"} /\ save[e].to # None =>
             \E a \in answers : a.id = save[e].to /\ a.val = Line(e).val
        /\ SaveAt(e, "updateCell") => CellAt(Line(e).cell) # {}
    BY <2>1 DEF AloneOK
  <2>6. \A x \in Through(e)' : x.answer = None \/ AnswerAt(x.answer)' # {} => KeptLine(e, x)'
    BY <2>1, <2>3, <2>4, <2>5 DEF AnswerAt
  <2>7. /\ SaveAt(e, "update")' => AnswerAt(save[e].to)' # {}
        /\ SaveAt(e, "updateCell")' => CellAt(Line(e).cell)' # {}
    BY <1>2, <2>1, <2>3, <2>5 DEF SaveAt, AnswerAt, CellAt
  <2>8. save'[e].at \in {"cell", "updateCell"} /\ save'[e].to # None =>
          \E a \in answers' : a.id = save'[e].to /\ a.val = Line(e)'.val
    BY <1>2, <2>1, <2>3, <2>5
  <2>9. QED
    BY <2>6, <2>7, <2>8 DEF AloneOK
<1>5. QED
  BY <1>3, <1>4

LEMMA AloneOKStep ==
  ASSUME ChoicesTyped, IdsApart, CellsInPlace, ChoicesNext,
         \A d \in Authors : PageOK(d) /\ StepOK(d), NEW e \in Authors, AloneOK(e)
  PROVE  AloneOK(e)'
<1> USE DEF None
<1>1. CASE ~Acts(e)
  BY <1>1, AloneOKQuiet
<1>2. CASE StartSave(e)
  BY <1>2, ThroughStart DEF AloneOK, SaveAt
<1>3. CASE CutOff(e)
  BY <1>3 DEF CutOff, AloneOK
<1>4. ASSUME CreateAnswer(e) \/ FindAnswer(e) \/ UpdateAnswer(e) \/ CreateCell(e) \/ FindCell(e) \/ UpdateCell(e)
      PROVE  AloneOK(e)'
  <2>1. SUFFICES ASSUME e \in alone'
                 PROVE  AloneOK(e)'
    BY DEF AloneOK
  <2>2. e \in alone /\ form' = form /\ save[e].at \in Busy
    BY <1>4, <2>1, ActsBusy DEF CreateAnswer, FindAnswer, UpdateAnswer, CreateCell, FindCell, UpdateCell, Disturb
  <2>3. /\ \A x \in Through(e) : x.answer = None \/ AnswerAt(x.answer) # {} => KeptLine(e, x)
        /\ SaveAt(e, "update") => AnswerAt(save[e].to) # {}
        /\ save[e].at \in {"cell", "updateCell"} /\ save[e].to # None =>
             \E a \in answers : a.id = save[e].to /\ a.val = Line(e).val
        /\ SaveAt(e, "updateCell") => CellAt(Line(e).cell) # {}
    BY <2>2 DEF AloneOK
  <2>4. Line(e) \in form[e] /\ save[e].to \in Nat /\ Line(e).answer < fresh /\ Line(e).answer \in Nat /\ fresh \in Nat
    BY <2>2, BusyIs DEF StepOK, PageOK, ChoicesTyped, PageLine
  <2>5. \A x \in Through(e) : /\ x \in form[e] /\ x # Line(e) /\ x.answer # Line(e).answer
                              /\ x.cell # None => x.cell # Line(e).cell
                              /\ x.answer < fresh /\ x.answer \in Nat
    BY <2>2, <2>4 DEF Through, PageOK, SaveAt, Busy, ChoicesTyped, PageLine
  <2>5a. PICK line : line = Line(e)
    OBVIOUS
  <2>6. CASE CreateAnswer(e)
    <3>1. /\ Step(e, "cell", fresh) /\ cells' = cells /\ fresh # None
          /\ answers' = answers \cup {[id |-> fresh, line |-> Line(e).line, val |-> Line(e).val]}
      BY <2>6 DEF CreateAnswer, ChoicesTyped
    <3>2. Through(e)' = Through(e) /\ Line(e)' = Line(e) /\ save'[e].at = "cell" /\ save'[e].to = fresh
      BY <2>2, <2>4, <3>1, ThroughMoved DEF Busy
    <3>3. \A x \in Through(e) : KeptLine(e, x) => KeptLine(e, x)'
      BY <2>2, <3>1, KeptStays
    <3>4. \A x \in Through(e) : AnswerAt(x.answer)' # {} => AnswerAt(x.answer) # {}
      BY <2>5, <3>1 DEF AnswerAt
    <3>5. QED
      BY <2>3, <3>1, <3>2, <3>3, <3>4 DEF AloneOK, SaveAt
  <2>7. CASE FindAnswer(e)
    <3>1. UNCHANGED <<answers, cells>>
      BY <2>7 DEF FindAnswer
    <3>2. \A x : KeptLine(e, x) => KeptLine(e, x)'
      BY <2>2, <3>1 DEF KeptLine
    <3>3. PICK at \in {"cell", "update"}, to \in Nat :
            /\ Step(e, at, to)
            /\ to # None => \E a \in answers : a.id = to /\ (at = "cell" => a.val = Line(e).val)
            /\ at = "update" => to # None
      <4>1. CASE AnswerAt(Line(e).answer) = {} /\ Step(e, "cell", None)
        BY <4>1
      <4>2. CASE \E a \in AnswerAt(Line(e).answer) :
                   Step(e, IF Unchanged(a, Line(e)) THEN "cell" ELSE "update", a.id)
        BY <4>2 DEF AnswerAt, Unchanged, IdsApart, ChoicesTyped
      <4>3. QED
        BY <2>7, <4>1, <4>2 DEF FindAnswer
    <3>4. Through(e)' = Through(e) /\ Line(e)' = Line(e) /\ save'[e].at = at /\ save'[e].to = to
      BY <2>2, <3>3, ThroughMoved DEF Busy
    <3>5. \A x \in Through(e)' : x.answer = None \/ AnswerAt(x.answer)' # {} => KeptLine(e, x)'
      BY <2>3, <3>1, <3>2, <3>4 DEF AnswerAt
    <3>6. SaveAt(e, "update")' => AnswerAt(save[e].to)' # {}
      BY <3>1, <3>3, <3>4 DEF SaveAt, AnswerAt
    <3>7. save'[e].at \in {"cell", "updateCell"} /\ save'[e].to # None =>
            \E a \in answers' : a.id = save'[e].to /\ a.val = Line(e)'.val
      BY <3>1, <3>3, <3>4
    <3>8. ~SaveAt(e, "updateCell")'
      BY <3>3, <3>4 DEF SaveAt
    <3>9. QED
      BY <3>5, <3>6, <3>7, <3>8 DEF AloneOK
  <2>8. CASE UpdateAnswer(e)
    <3>1. Step(e, "cell", save[e].to) /\ cells' = cells /\ SaveAt(e, "update")
      BY <2>8 DEF UpdateAnswer
    <3>2. Through(e)' = Through(e) /\ Line(e)' = Line(e) /\ save'[e].at = "cell" /\ save'[e].to = save[e].to
      BY <2>2, <2>4, <3>1, ThroughMoved DEF Busy
    <3>3. save[e].to = Line(e).answer
      BY <2>2, <3>1 DEF StepOK
    <3>4. \A b \in answers : \E a \in answers' :
            a.id = b.id /\ IF b.id = save[e].to THEN a.val = Line(e).val ELSE a = b
      BY <2>8, AnswersUpdated
    <3>5. ASSUME NEW x \in Through(e), KeptLine(e, x)
          PROVE  KeptLine(e, x)'
      <4>1. \A a \in answers :
              (IF x.answer # None THEN a.id = x.answer ELSE \A y \in form[e] : y.answer # a.id)
                => a.id # save[e].to
        BY <2>4, <2>5, <3>3
      <4>2. \A a \in answers : a.id # save[e].to => a \in answers'
        BY <3>4
      <4>3. QED
        BY <2>2, <3>1, <3>5, <4>1, <4>2, KeptStays
    <3>6. \A a \in answers' : \E b \in answers : b.id = a.id
      BY <2>8, AnswersUpdated
    <3>7. \A x \in Through(e) : AnswerAt(x.answer)' # {} => AnswerAt(x.answer) # {}
      BY <3>6 DEF AnswerAt
    <3>8. \E a \in answers' : a.id = save[e].to /\ a.val = Line(e).val
      BY <2>3, <3>1, <3>4 DEF AnswerAt
    <3>9. QED
      BY <2>3, <3>2, <3>5, <3>7, <3>8 DEF AloneOK, SaveAt
  <2>9. ASSUME NextLine(e), answers' = answers,
               \A x \in Through(e) : KeptLine(e, x) => KeptLine(e, x)',
               line.answer = None \/ AnswerAt(line.answer) # {} => KeptLine(e, line)'
        PROVE  AloneOK(e)'
    <3>1. Through(e)' = Through(e) \cup {Line(e)} /\ save'[e].at \in {"answer", "saved"}
      BY <2>2, <2>9, ThroughNext
    <3>2. \A x \in Through(e) \cup {Line(e)} : x.answer = None \/ AnswerAt(x.answer) # {} => KeptLine(e, x)'
      BY <2>3, <2>5a, <2>9
    <3>3. \A i : AnswerAt(i)' = AnswerAt(i)
      BY <2>9 DEF AnswerAt
    <3>4. QED
      BY <3>1, <3>2, <3>3 DEF AloneOK, SaveAt
  \* The row a save that found its line goes on with is the row of the line.
  <2>10. ASSUME save[e].at \in {"cell", "updateCell"}, Line(e).answer = None \/ AnswerAt(Line(e).answer) # {}
         PROVE  \E a \in answers :
                  /\ a.id = save[e].to /\ a.val = Line(e).val /\ a.line = Line(e).line
                  /\ IF Line(e).answer # None THEN a.id = Line(e).answer ELSE \A y \in form[e] : y.answer # a.id
    <3>1. save[e].to # None
      BY <2>2, <2>10 DEF StepOK
    <3>2. PICK a \in answers : a.id = save[e].to /\ a.val = Line(e).val
      BY <2>3, <2>10, <3>1
    <3>3. QED
      BY <2>2, <2>10, <3>1, <3>2 DEF StepOK
  <2>11. CASE CreateCell(e)
    <3> DEFINE c == [id |-> fresh, line |-> Line(e).line, answer |-> save[e].to, val |-> Line(e).val]
    <3>1. /\ NextLine(e) /\ answers' = answers /\ SaveAt(e, "cell") /\ Line(e).cell = None
          /\ cells' = cells \cup {c}
      BY <2>11 DEF CreateCell
    <3>2. \A x \in Through(e) : KeptLine(e, x) => KeptLine(e, x)'
      BY <2>2, <3>1, KeptStays
    <3>3. \A y \in form[e] : y.cell # fresh
      BY <2>4 DEF PageOK
    <3>4. c \in cells' /\ c.id = fresh /\ c.line = Line(e).line /\ c.answer = save[e].to /\ c.val = Line(e).val
      BY <3>1
    <3> HIDE DEF c
    <3>5. line.answer = None \/ AnswerAt(line.answer) # {} => KeptLine(e, line)'
      <4>1. SUFFICES ASSUME line.answer = None \/ AnswerAt(line.answer) # {}
                     PROVE  \E a \in answers', d \in cells' :
                              /\ a.line = line.line /\ a.val = line.val
                              /\ d.line = line.line /\ d.val = line.val /\ d.answer = a.id
                              /\ IF line.answer # None THEN a.id = line.answer
                                                          ELSE \A y \in form'[e] : y.answer # a.id
                              /\ IF line.cell # None THEN d.id = line.cell
                                                        ELSE \A y \in form'[e] : y.cell # d.id
        BY DEF KeptLine
      <4>2. PICK a \in answers :
              /\ a.id = save[e].to /\ a.val = Line(e).val /\ a.line = Line(e).line
              /\ IF Line(e).answer # None THEN a.id = Line(e).answer ELSE \A y \in form[e] : y.answer # a.id
        BY <2>5a, <2>10, <3>1, <4>1 DEF SaveAt
      <4>3. QED
        BY <2>2, <2>5a, <3>1, <3>3, <3>4, <4>2
    <3>6. QED
      BY <2>9, <3>1, <3>2, <3>5
  <2>12. CASE FindCell(e)
    <3>1. UNCHANGED <<answers, cells>> /\ SaveAt(e, "cell") /\ Line(e).cell # None
      BY <2>12 DEF FindCell
    <3>2. PICK c \in cells : /\ c.id = Line(e).cell
                             /\ IF Unchanged(c, Line(e)) THEN NextLine(e) ELSE Step(e, "updateCell", save[e].to)
      BY <2>12 DEF FindCell, CellAt
    <3>3. \A x : KeptLine(e, x) => KeptLine(e, x)'
      BY <2>2, <3>1 DEF KeptLine
    <3>4. CASE NextLine(e) /\ c.val = Line(e).val
      <4>1. c.line = Line(e).line /\ c.answer = Line(e).answer /\ Line(e).answer # None
        BY <2>4, <3>1, <3>2 DEF PageOK
      <4>2. line.answer = None \/ AnswerAt(line.answer) # {} => KeptLine(e, line)
        BY <2>5a, <2>10, <3>1, <3>2, <3>4, <4>1 DEF KeptLine, SaveAt
      <4>3. QED
        BY <2>9, <3>1, <3>3, <3>4, <4>2
    <3>5. CASE Step(e, "updateCell", save[e].to)
      <4>1. Through(e)' = Through(e) /\ Line(e)' = Line(e) /\ save'[e].at = "updateCell" /\ save'[e].to = save[e].to
        BY <2>2, <2>4, <3>5, ThroughMoved DEF Busy
      <4>2. CellAt(Line(e).cell)' # {}
        BY <3>1, <3>2, <4>1 DEF CellAt
      <4>3. \A x \in Through(e)' : x.answer = None \/ AnswerAt(x.answer)' # {} => KeptLine(e, x)'
        BY <2>3, <3>1, <3>3, <4>1 DEF AnswerAt
      <4>4. save'[e].to # None => \E a \in answers' : a.id = save'[e].to /\ a.val = Line(e)'.val
        BY <2>3, <3>1, <4>1 DEF SaveAt
      <4>5. QED
        BY <4>1, <4>2, <4>3, <4>4 DEF AloneOK, SaveAt
    <3>6. QED
      BY <3>2, <3>4, <3>5 DEF Unchanged
  <2>13. CASE UpdateCell(e)
    <3>1. NextLine(e) /\ answers' = answers /\ SaveAt(e, "updateCell")
      BY <2>13 DEF UpdateCell
    <3>2. Line(e).cell # None
      BY <2>2, <3>1 DEF StepOK
    <3>3. \A d \in cells : \E c \in cells' :
            /\ c.id = d.id /\ c.line = d.line
            /\ IF d.id = Line(e).cell THEN c.val = Line(e).val /\ c.answer = save[e].to ELSE c = d
      BY <2>13, CellsUpdated
    <3>4. ASSUME NEW x \in Through(e), KeptLine(e, x)
          PROVE  KeptLine(e, x)'
      <4>1. \A c \in cells :
              (IF x.cell # None THEN c.id = x.cell ELSE \A y \in form[e] : y.cell # c.id)
                => c.id # Line(e).cell
        BY <2>4, <2>5
      <4>2. \A c \in cells : c.id # Line(e).cell => c \in cells'
        BY <3>3
      <4>3. QED
        BY <2>2, <3>1, <3>4, <4>1, <4>2, KeptStays
    <3>5. PICK d \in cells : d.id = Line(e).cell
      BY <2>3, <3>1 DEF CellAt
    <3>6. d.line = Line(e).line
      BY <2>4, <3>5 DEF PageOK
    <3>7. PICK c \in cells' :
            c.id = Line(e).cell /\ c.line = Line(e).line /\ c.val = Line(e).val /\ c.answer = save[e].to
      BY <3>3, <3>5, <3>6
    <3>8. line.answer = None \/ AnswerAt(line.answer) # {} => KeptLine(e, line)'
      <4>1. SUFFICES ASSUME line.answer = None \/ AnswerAt(line.answer) # {}
                     PROVE  \E a \in answers', b \in cells' :
                              /\ a.line = line.line /\ a.val = line.val
                              /\ b.line = line.line /\ b.val = line.val /\ b.answer = a.id
                              /\ IF line.answer # None THEN a.id = line.answer
                                                          ELSE \A y \in form'[e] : y.answer # a.id
                              /\ IF line.cell # None THEN b.id = line.cell
                                                        ELSE \A y \in form'[e] : y.cell # b.id
        BY DEF KeptLine
      <4>2. PICK a \in answers :
              /\ a.id = save[e].to /\ a.val = Line(e).val /\ a.line = Line(e).line
              /\ IF Line(e).answer # None THEN a.id = Line(e).answer ELSE \A y \in form[e] : y.answer # a.id
        BY <2>5a, <2>10, <3>1, <4>1 DEF SaveAt
      <4>3. QED
        BY <2>2, <2>5a, <3>1, <3>2, <3>7, <4>2
    <3>9. QED
      BY <2>9, <3>1, <3>4, <3>8
  <2>14. QED
    BY <1>4, <2>6, <2>7, <2>8, <2>11, <2>12, <2>13
<1>5. QED
  BY <1>1, <1>2, <1>3, <1>4 DEF Acts

(* What is stored is counted against what was sent.                        *)

LEMMA SendingsFinite == IsFiniteSet(Authors \X (0..MaxIds) \X (0..MaxCuts))
<1> DEFINE Pairs == Authors \X (0..MaxIds)
           Triples == Authors \X (0..MaxIds) \X (0..MaxCuts)
           f == [q \in Pairs \X (0..MaxCuts) |-> <<q[1][1], q[1][2], q[2]>>]
<1>1. IsFiniteSet(0..MaxIds) /\ IsFiniteSet(0..MaxCuts)
  BY ChoicesAssumption, FS_Interval
<1>2. IsFiniteSet(Pairs)
  BY <1>1, ChoicesAssumption, FS_Product
<1>3. IsFiniteSet(Pairs \X (0..MaxCuts))
  BY <1>1, <1>2, FS_Product
<1>4. f \in [Pairs \X (0..MaxCuts) -> Triples]
  OBVIOUS
<1>5. ASSUME NEW t \in Triples
      PROVE  \E q \in Pairs \X (0..MaxCuts) : f[q] = t
  <2>1. PICK a \in Authors, i \in 0..MaxIds, c \in 0..MaxCuts : t = <<a, i, c>>
    OBVIOUS
  <2>2. <<<<a, i>>, c>> \in Pairs \X (0..MaxCuts) /\ f[<<<<a, i>>, c>>] = t
    BY <2>1
  <2>3. QED
    BY <2>2
<1>6. f \in Surjection(Pairs \X (0..MaxCuts), Triples)
  BY <1>4, <1>5 DEF Surjection
<1>7. QED
  BY <1>3, <1>6, FS_Surjection

LEMMA UsedFinite ==
  ASSUME NEW l
  PROVE  /\ IsFiniteSet(UsedAnswer(l)) /\ IsFiniteSet(UsedCell(l))
         /\ IsFiniteSet(UsedAnswer(l)') /\ IsFiniteSet(UsedCell(l)')
         /\ IsFiniteSet(Sendings(l, "answer")) /\ IsFiniteSet(Sendings(l, "cell"))
<1> DEFINE T == Authors \X (0..MaxIds) \X (0..MaxCuts)
<1>1. \A S \in SUBSET T : IsFiniteSet(S)
  BY SendingsFinite, FS_Subset
<1>2. /\ UsedAnswer(l) \subseteq T /\ UsedCell(l) \subseteq T
      /\ UsedAnswer(l)' \subseteq T /\ UsedCell(l)' \subseteq T
      /\ Sendings(l, "answer") \subseteq T /\ Sendings(l, "cell") \subseteq T
  BY DEF UsedAnswer, UsedCell, Sendings
<1> HIDE DEF T
<1>3. QED
  BY <1>1, <1>2

\* A save goes on through its lines until it is cut off, which is counted.
LEMMA ThroughGrows ==
  ASSUME ChoicesTyped, ChoicesNext, NEW e \in Authors, StepOK(e)
  PROVE  /\ cuts[e] \in Nat /\ cuts'[e] \in Nat /\ cuts'[e] >= cuts[e]
         /\ form[e] \subseteq form'[e]
         /\ cuts'[e] = cuts[e] =>
              Through(e) \subseteq Through(e)' /\ ThroughAnswer(e) \subseteq ThroughAnswer(e)'
<1>1. cuts[e] \in Nat
  BY ChoicesAssumption DEF ChoicesTyped
<1>2. /\ CutOff(e) => cuts'[e] = cuts[e] + 1
      /\ ~CutOff(e) => cuts'[e] = cuts[e]
  <2>1. (\E d \in Authors : CutOff(d)) \/ UNCHANGED cuts
    BY DEF ChoicesNext, OpenPage, StartSave, CreateAnswer, FindAnswer, UpdateAnswer,
           CreateCell, FindCell, UpdateCell, DeleteAnswer, DeleteCell
  <2>2. \A d \in Authors : CutOff(d) => cuts'[e] = IF d = e THEN cuts[e] + 1 ELSE cuts[e]
    BY DEF CutOff, ChoicesTyped
  <2>3. CutOff(e) => cuts'[e] = cuts[e] + 1
    BY <2>2
  <2>4. QED
    BY <2>1, <2>2, <2>3
<1>3. form[e] \subseteq form'[e]
  BY FormStep
<1>4. ~CutOff(e) => Through(e) \subseteq Through(e)' /\ ThroughAnswer(e) \subseteq ThroughAnswer(e)'
  <2>1. CASE ~Acts(e)
    <3>1. save'[e] = save[e]
      BY <2>1, SaveStep
    <3>2. QED
      BY <1>3, <3>1 DEF Through, ThroughAnswer, SaveAt, Line
  <2>2. CASE StartSave(e)
    <3>1. save[e].at = "page"
      BY <2>2 DEF StartSave, SaveAt
    <3>2. QED
      BY <2>2, <3>1, ThroughStart DEF ThroughAnswer, Busy
  <2>3. ASSUME NextLine(e), save[e].at \in Busy, form' = form
        PROVE  Through(e) \subseteq Through(e)' /\ ThroughAnswer(e) \subseteq ThroughAnswer(e)'
    BY <2>3, ThroughNext DEF ThroughAnswer
  <2>4. ASSUME save[e].at \in Busy, form' = form, NEW at \in Busy \ {"answer"}, NEW to \in Nat, Step(e, at, to)
        PROVE  Through(e) \subseteq Through(e)' /\ ThroughAnswer(e) \subseteq ThroughAnswer(e)'
    BY <2>4, ThroughMoved DEF ThroughAnswer
  <2>5. CASE CreateAnswer(e) \/ FindAnswer(e) \/ UpdateAnswer(e)
    <3>1. save[e].at \in Busy /\ form' = form /\ save[e].to \in Nat
      BY <2>5, ActsBusy, BusyIs DEF CreateAnswer, FindAnswer, UpdateAnswer
    <3>2. \E at \in {"cell", "update"}, to \in Nat : Step(e, at, to)
      BY <2>5, <3>1 DEF CreateAnswer, FindAnswer, UpdateAnswer, AnswerAt, ChoicesTyped, None
    <3>3. QED
      BY <2>4, <3>1, <3>2 DEF Busy
  <2>6. CASE CreateCell(e) \/ UpdateCell(e)
    BY <2>3, <2>6, ActsBusy DEF CreateCell, UpdateCell
  <2>7. CASE FindCell(e)
    <3>1. save[e].at \in Busy /\ form' = form /\ save[e].to \in Nat
      BY <2>7, ActsBusy, BusyIs DEF FindCell
    <3>2. NextLine(e) \/ Step(e, "updateCell", save[e].to)
      BY <2>7 DEF FindCell
    <3>3. QED
      BY <2>3, <2>4, <3>1, <3>2 DEF Busy
  <2>8. QED
    BY <2>1, <2>2, <2>5, <2>6, <2>7 DEF Acts
<1>5. QED
  BY <1>1, <1>2, <1>3, <1>4

LEMMA SendingsGrow ==
  ASSUME ChoicesTyped, ChoicesNext, \A e \in Authors : StepOK(e), NEW l, NEW id \in {"answer", "cell"}
  PROVE  Sendings(l, id) \subseteq Sendings(l, id)'
<1>1. \A e \in Authors : cuts[e] \in Nat /\ cuts'[e] \in Nat /\ cuts'[e] >= cuts[e] /\ form[e] \subseteq form'[e]
  BY ThroughGrows
<1>2. SUFFICES ASSUME NEW s \in Sendings(l, id)
               PROVE  s \in Sendings(l, id)'
  OBVIOUS
<1>3. /\ s \in Authors \X (0..MaxIds) \X (0..MaxCuts) /\ s[1] \in Authors /\ s[3] \in Nat /\ s[3] <= cuts[s[1]]
      /\ \E x \in form[s[1]] : x.line = l /\ x.answer = s[2] /\ x[id] = None
  BY ChoicesAssumption DEF Sendings
<1>4. s[3] <= cuts'[s[1]] /\ \E x \in form'[s[1]] : x.line = l /\ x.answer = s[2] /\ x[id] = None
  BY <1>1, <1>3
<1>5. QED
  BY <1>3, <1>4 DEF Sendings

LEMMA UsedGrows ==
  ASSUME ChoicesTyped, ChoicesNext, \A e \in Authors : StepOK(e), NEW l
  PROVE  UsedAnswer(l) \subseteq UsedAnswer(l)' /\ UsedCell(l) \subseteq UsedCell(l)'
<1>1. \A e \in Authors :
        /\ cuts[e] \in Nat /\ cuts'[e] \in Nat /\ cuts'[e] >= cuts[e]
        /\ cuts'[e] = cuts[e] => Through(e) \subseteq Through(e)' /\ ThroughAnswer(e) \subseteq ThroughAnswer(e)'
  BY ThroughGrows
<1>2. \A id \in {"answer", "cell"} : \A s \in Sendings(l, id) :
        s[1] \in Authors /\ s[3] \in Nat /\ s[3] <= cuts[s[1]]
  BY ChoicesAssumption DEF Sendings
<1>3. Sendings(l, "answer") \subseteq Sendings(l, "answer")' /\ Sendings(l, "cell") \subseteq Sendings(l, "cell")'
  BY SendingsGrow
<1>4. ASSUME NEW s \in UsedAnswer(l)
      PROVE  s \in UsedAnswer(l)'
  <2>1. s[3] < cuts[s[1]] \/ \E x \in ThroughAnswer(s[1]) : x.answer = s[2]
    BY <1>4 DEF UsedAnswer
  <2>2. s \in Sendings(l, "answer")
    BY <1>4 DEF UsedAnswer
  <2>3. s[3] < cuts'[s[1]] \/ \E x \in ThroughAnswer(s[1])' : x.answer = s[2]
    BY <1>1, <1>2, <2>1, <2>2
  <2>4. QED
    BY <1>3, <2>2, <2>3 DEF UsedAnswer
<1>5. ASSUME NEW s \in UsedCell(l)
      PROVE  s \in UsedCell(l)'
  <2>1. s[3] < cuts[s[1]] \/ \E x \in Through(s[1]) : x.answer = s[2]
    BY <1>5 DEF UsedCell
  <2>2. s \in Sendings(l, "cell")
    BY <1>5 DEF UsedCell
  <2>3. s[3] < cuts'[s[1]] \/ \E x \in Through(s[1])' : x.answer = s[2]
    BY <1>1, <1>2, <2>1, <2>2
  <2>4. QED
    BY <1>3, <2>2, <2>3 DEF UsedCell
<1>6. QED
  BY <1>4, <1>5

LEMMA OfFinite ==
  ASSUME ChoicesTyped, NEW l
  PROVE  IsFiniteSet(AnswersOf(l)) /\ IsFiniteSet(CellsOf(l))
BY FS_Subset DEF ChoicesTyped, AnswersOf, CellsOf

\* A count stays within its bound when the bound grows and the count does not,
\* or both grow by one.
LEMMA CountStays ==
  ASSUME NEW A, NEW B, NEW U, NEW V, NEW k \in Nat, IsFiniteSet(A), IsFiniteSet(B), IsFiniteSet(U), IsFiniteSet(V),
         U \subseteq V, Cardinality(A) <= k + Cardinality(U),
         Cardinality(B) <= Cardinality(A) \/ \E r, s : B = A \cup {r} /\ s \in V /\ s \notin U
  PROVE  Cardinality(B) <= k + Cardinality(V)
<1>1. {Cardinality(A), Cardinality(B), Cardinality(U), Cardinality(V)} \subseteq Nat
  BY FS_CardinalityType
<1>2. Cardinality(U) <= Cardinality(V)
  BY FS_Subset
<1>3. CASE Cardinality(B) <= Cardinality(A)
  BY <1>1, <1>2, <1>3
<1>4. CASE \E r, s : B = A \cup {r} /\ s \in V /\ s \notin U
  <2>1. PICK r, s : B = A \cup {r} /\ s \in V /\ s \notin U
    BY <1>4
  <2>2. Cardinality(B) <= Cardinality(A) + 1
    BY <1>1, <2>1, FS_AddElement
  <2>3. IsFiniteSet(U \cup {s}) /\ Cardinality(U \cup {s}) = Cardinality(U) + 1
    BY <2>1, FS_AddElement
  <2>4. U \cup {s} \in SUBSET V
    BY <2>1
  <2>5. Cardinality(U \cup {s}) <= Cardinality(V)
    BY <2>4, FS_Subset
  <2>6. QED
    BY <1>1, <2>2, <2>3, <2>5
<1>5. QED
  BY <1>3, <1>4

LEMMA AnswersCountedStep ==
  ASSUME ChoicesTyped, ChoicesTyped', AnswersCounted, ChoicesNext, \A e \in Authors : PageOK(e) /\ StepOK(e)
  PROVE  AnswersCounted'
<1> USE DEF None
<1>1. SUFFICES ASSUME NEW l \in Lines
               PROVE  Cardinality(AnswersOf(l)') <= FirstOf(l) + Cardinality(UsedAnswer(l)')
  BY DEF AnswersCounted, FirstOf
<1> DEFINE more == \E r, s : AnswersOf(l)' = AnswersOf(l) \cup {r} /\ s \in UsedAnswer(l)' /\ s \notin UsedAnswer(l)
<1>2. IsFiniteSet(AnswersOf(l)) /\ IsFiniteSet(AnswersOf(l)')
  <2>1. IsFiniteSet(AnswersOf(l))
    BY OfFinite
  <2>2. answers' \subseteq answers' /\ IsFiniteSet(answers')
    BY DEF ChoicesTyped
  <2>3. IsFiniteSet({a \in answers' : a.line = l})
    BY <2>2, FS_Subset
  <2>4. QED
    BY <2>1, <2>3 DEF AnswersOf
<1>3. AnswersOf(l)' \subseteq AnswersOf(l) => Cardinality(AnswersOf(l)') <= Cardinality(AnswersOf(l))
  BY <1>2, FS_Subset
<1>4. ASSUME NEW e \in Authors, CreateAnswer(e)
      PROVE  AnswersOf(l)' \subseteq AnswersOf(l) \/ more
  <2> DEFINE new == [id |-> fresh, line |-> Line(e).line, val |-> Line(e).val]
             s == <<e, Line(e).answer, cuts[e]>>
  <2>1. /\ answers' = answers \cup {new} /\ Step(e, "cell", fresh) /\ UNCHANGED <<form, cuts>>
        /\ Line(e).answer = None /\ SaveAt(e, "answer") /\ new.line = Line(e).line
    BY <1>4 DEF CreateAnswer
  <2>2. save[e].at \in Busy /\ Line(e) \in form[e]
    BY <1>4, ActsBusy DEF StepOK
  <2> HIDE DEF new
  <2>3. CASE Line(e).line # l
    BY <2>1, <2>3 DEF AnswersOf
  <2>4. CASE Line(e).line = l
    <3>1. AnswersOf(l)' = AnswersOf(l) \cup {new}
      BY <2>1, <2>4 DEF AnswersOf
    <3>2. s \in Authors \X (0..MaxIds) \X (0..MaxCuts) /\ cuts[e] \in Nat
      BY <2>1, ChoicesAssumption DEF ChoicesTyped
    <3>3. s[1] = e /\ s[2] = Line(e).answer /\ s[3] = cuts[e]
      OBVIOUS
    <3> HIDE DEF s
    <3>4. s \in Sendings(l, "answer")'
      BY <2>1, <2>2, <2>4, <3>2, <3>3 DEF Sendings
    <3>5. Through(e)' = Through(e) /\ Line(e)' = Line(e) /\ save'[e].at = "cell"
      BY <2>1, <2>2, ThroughMoved DEF Busy, ChoicesTyped
    <3>6. Line(e) \in ThroughAnswer(e)'
      BY <2>1, <2>2, <3>5 DEF ThroughAnswer, Busy
    <3>7. s \in UsedAnswer(l)'
      BY <3>3, <3>4, <3>6 DEF UsedAnswer
    <3>8. \A x \in ThroughAnswer(e) : x \in form[e] /\ x # Line(e)
      BY <2>1, <2>2 DEF ThroughAnswer, Through, SaveAt, Busy
    <3>9. s \notin UsedAnswer(l)
      BY <2>2, <3>2, <3>3, <3>8 DEF UsedAnswer, PageOK
    <3>10. QED
      BY <3>1, <3>7, <3>9
  <2>5. QED
    BY <2>3, <2>4
<1>5. ASSUME NEW e \in Authors, UpdateAnswer(e)
      PROVE  Cardinality(AnswersOf(l)') <= Cardinality(AnswersOf(l))
  <2> DEFINE new(a) == IF a.id = save[e].to THEN [a EXCEPT !.val = Line(e).val] ELSE a
             f == [a \in AnswersOf(l) |-> new(a)]
  <2>1. answers' = {new(a) : a \in answers}
    BY <1>5 DEF UpdateAnswer
  <2>2. \A a \in answers : new(a).line = a.line
    BY DEF ChoicesTyped
  <2> HIDE DEF new
  <2>3. AnswersOf(l)' = {new(a) : a \in AnswersOf(l)}
    BY <2>1, <2>2 DEF AnswersOf
  <2>4. f \in Surjection(AnswersOf(l), AnswersOf(l)')
    BY <2>3 DEF Surjection
  <2>5. QED
    BY <1>2, <2>4, FS_Surjection
<1>7. ASSUME NEW e \in Authors,
             OpenPage(e) \/ StartSave(e) \/ FindAnswer(e) \/ CreateCell(e) \/ FindCell(e) \/ UpdateCell(e) \/ CutOff(e)
      PROVE  AnswersOf(l)' \subseteq AnswersOf(l)
  BY <1>7 DEF OpenPage, StartSave, FindAnswer, CreateCell, FindCell, UpdateCell, CutOff, AnswersOf
<1>8. DeleteAnswer \/ DeleteCell => AnswersOf(l)' \subseteq AnswersOf(l)
  BY DEF DeleteAnswer, DeleteCell, AnswersOf
<1>9. AnswersOf(l)' \subseteq AnswersOf(l) \/ Cardinality(AnswersOf(l)') <= Cardinality(AnswersOf(l)) \/ more
  BY <1>4, <1>5, <1>7, <1>8 DEF ChoicesNext
<1>10. UsedAnswer(l) \subseteq UsedAnswer(l)' /\ IsFiniteSet(UsedAnswer(l)) /\ IsFiniteSet(UsedAnswer(l)')
  BY UsedGrows, UsedFinite
<1>11. Cardinality(AnswersOf(l)) <= FirstOf(l) + Cardinality(UsedAnswer(l)) /\ FirstOf(l) \in Nat
  BY DEF AnswersCounted, FirstOf
<1>12. QED
  BY <1>2, <1>3, <1>9, <1>10, <1>11, CountStays

LEMMA CellsCountedStep ==
  ASSUME ChoicesTyped, ChoicesTyped', CellsCounted, ChoicesNext, \A e \in Authors : PageOK(e) /\ StepOK(e)
  PROVE  CellsCounted'
<1> USE DEF None
<1>1. SUFFICES ASSUME NEW l \in Lines
               PROVE  Cardinality(CellsOf(l)') <= FirstOf(l) + Cardinality(UsedCell(l)')
  BY DEF CellsCounted, FirstOf
<1> DEFINE more == \E r, s : CellsOf(l)' = CellsOf(l) \cup {r} /\ s \in UsedCell(l)' /\ s \notin UsedCell(l)
<1>2. IsFiniteSet(CellsOf(l)) /\ IsFiniteSet(CellsOf(l)')
  <2>1. IsFiniteSet(CellsOf(l))
    BY OfFinite
  <2>2. IsFiniteSet(cells')
    BY DEF ChoicesTyped
  <2>3. IsFiniteSet({c \in cells' : c.line = l})
    BY <2>2, FS_Subset
  <2>4. QED
    BY <2>1, <2>3 DEF CellsOf
<1>3. CellsOf(l)' \subseteq CellsOf(l) => Cardinality(CellsOf(l)') <= Cardinality(CellsOf(l))
  BY <1>2, FS_Subset
<1>4. ASSUME NEW e \in Authors, CreateCell(e)
      PROVE  CellsOf(l)' \subseteq CellsOf(l) \/ more
  <2> DEFINE new == [id |-> fresh, line |-> Line(e).line, answer |-> save[e].to, val |-> Line(e).val]
             s == <<e, Line(e).answer, cuts[e]>>
  <2>1. /\ cells' = cells \cup {new} /\ NextLine(e) /\ UNCHANGED <<form, cuts>>
        /\ Line(e).cell = None /\ SaveAt(e, "cell") /\ new.line = Line(e).line /\ fresh < MaxIds
    BY <1>4 DEF CreateCell
  <2>2. save[e].at \in Busy /\ Line(e) \in form[e]
    BY <1>4, ActsBusy DEF StepOK
  <2> HIDE DEF new
  <2>3. CASE Line(e).line # l
    BY <2>1, <2>3 DEF CellsOf
  <2>4. CASE Line(e).line = l
    <3>1. CellsOf(l)' = CellsOf(l) \cup {new}
      BY <2>1, <2>4 DEF CellsOf
    <3>2. Line(e).answer \in 0..MaxIds
      <4>1. Line(e).answer \in Nat /\ Line(e).answer < fresh /\ fresh \in Nat
        BY <2>2 DEF PageOK, ChoicesTyped, PageLine
      <4>2. QED
        BY <2>1, <4>1, ChoicesAssumption
    <3>3. s \in Authors \X (0..MaxIds) \X (0..MaxCuts) /\ cuts[e] \in Nat
      BY <2>1, <3>2, ChoicesAssumption DEF ChoicesTyped
    <3>4. s[1] = e /\ s[2] = Line(e).answer /\ s[3] = cuts[e]
      OBVIOUS
    <3> HIDE DEF s
    <3>5. s \in Sendings(l, "cell")'
      BY <2>1, <2>2, <2>4, <3>3, <3>4 DEF Sendings
    <3>6. Through(e)' = Through(e) \cup {Line(e)}
      BY <2>1, <2>2, ThroughNext
    <3>7. s \in UsedCell(l)'
      BY <3>4, <3>5, <3>6 DEF UsedCell
    <3>8. \A x \in Through(e) : x \in form[e] /\ x # Line(e)
      BY <2>1, <2>2 DEF Through, SaveAt, Busy
    <3>9. s \notin UsedCell(l)
      BY <2>2, <3>3, <3>4, <3>8 DEF UsedCell, PageOK
    <3>10. QED
      BY <3>1, <3>7, <3>9
  <2>5. QED
    BY <2>3, <2>4
<1>5. ASSUME NEW e \in Authors, UpdateCell(e)
      PROVE  Cardinality(CellsOf(l)') <= Cardinality(CellsOf(l))
  <2> DEFINE new(c) == IF c.id = Line(e).cell THEN [c EXCEPT !.val = Line(e).val, !.answer = save[e].to] ELSE c
             f == [c \in CellsOf(l) |-> new(c)]
  <2>1. cells' = {new(c) : c \in cells}
    BY <1>5 DEF UpdateCell
  <2>2. \A c \in cells : new(c).line = c.line
    BY DEF ChoicesTyped
  <2> HIDE DEF new
  <2>3. CellsOf(l)' = {new(c) : c \in CellsOf(l)}
    BY <2>1, <2>2 DEF CellsOf
  <2>4. f \in Surjection(CellsOf(l), CellsOf(l)')
    BY <2>3 DEF Surjection
  <2>5. QED
    BY <1>2, <2>4, FS_Surjection
<1>6. ASSUME NEW e \in Authors,
             OpenPage(e) \/ StartSave(e) \/ CreateAnswer(e) \/ FindAnswer(e) \/ UpdateAnswer(e) \/ FindCell(e) \/ CutOff(e)
      PROVE  CellsOf(l)' \subseteq CellsOf(l)
  BY <1>6 DEF OpenPage, StartSave, CreateAnswer, FindAnswer, UpdateAnswer, FindCell, CutOff, CellsOf
<1>7. DeleteAnswer \/ DeleteCell => CellsOf(l)' \subseteq CellsOf(l)
  BY DEF DeleteAnswer, DeleteCell, CellsOf
<1>8. CellsOf(l)' \subseteq CellsOf(l) \/ Cardinality(CellsOf(l)') <= Cardinality(CellsOf(l)) \/ more
  BY <1>4, <1>5, <1>6, <1>7 DEF ChoicesNext
<1>9. UsedCell(l) \subseteq UsedCell(l)' /\ IsFiniteSet(UsedCell(l)) /\ IsFiniteSet(UsedCell(l)')
  BY UsedGrows, UsedFinite
<1>10. Cardinality(CellsOf(l)) <= FirstOf(l) + Cardinality(UsedCell(l)) /\ FirstOf(l) \in Nat
  BY DEF CellsCounted, FirstOf
<1>11. QED
  BY <1>2, <1>3, <1>8, <1>9, <1>10, CountStays

LEMMA ChoicesInit_Inv ==
  ASSUME ChoicesInit
  PROVE  ChoicesInv
<1> USE DEF None
<1>1. ChoicesTyped
  <2>1. \A r : IsFiniteSet({r})
    BY FS_Singleton
  <2>2. IsFiniteSet(answers) /\ IsFiniteSet(cells)
    BY <2>1 DEF ChoicesInit
  <2>3. QED
    BY <2>2, ChoicesAssumption DEF ChoicesTyped, ChoicesInit, Lines
<1>2. IdsApart /\ CellsInPlace
  BY DEF ChoicesInit, IdsApart, CellsInPlace
<1>3. \A e \in Authors : PageOK(e) /\ StepOK(e) /\ AloneOK(e)
  BY DEF ChoicesInit, PageOK, StepOK, AloneOK, NotSaving, Busy
<1>4. ASSUME NEW l \in Lines
      PROVE  /\ Cardinality(AnswersOf(l)) <= FirstOf(l) + Cardinality(UsedAnswer(l))
             /\ Cardinality(CellsOf(l)) <= FirstOf(l) + Cardinality(UsedCell(l))
  <2>1. Cardinality(UsedAnswer(l)) \in Nat /\ Cardinality(UsedCell(l)) \in Nat
    BY UsedFinite, FS_CardinalityType
  <2>2. Cardinality(AnswersOf(l)) <= FirstOf(l) /\ Cardinality(CellsOf(l)) <= FirstOf(l)
    <3>1. \A r : Cardinality({r}) = 1
      BY FS_Singleton
    <3>2. CASE l = Kept
      <4>1. AnswersOf(l) = answers /\ CellsOf(l) = cells
        BY <3>2 DEF ChoicesInit, AnswersOf, CellsOf
      <4>2. Cardinality(answers) = 1 /\ Cardinality(cells) = 1
        BY <3>1 DEF ChoicesInit
      <4>3. QED
        BY <3>2, <4>1, <4>2 DEF FirstOf
    <3>3. CASE l # Kept
      <4>1. AnswersOf(l) = {} /\ CellsOf(l) = {}
        BY <3>3 DEF ChoicesInit, AnswersOf, CellsOf
      <4>2. QED
        BY <3>3, <4>1, FS_EmptySet DEF FirstOf
    <3>4. QED
      BY <3>2, <3>3
  <2>3. FirstOf(l) \in Nat /\ Cardinality(AnswersOf(l)) \in Nat /\ Cardinality(CellsOf(l)) \in Nat
    BY <1>1, OfFinite, FS_CardinalityType DEF FirstOf
  <2>4. QED
    BY <2>1, <2>2, <2>3
<1>5. QED
  BY <1>1, <1>2, <1>3, <1>4 DEF ChoicesInv, AnswersCounted, CellsCounted

LEMMA ChoicesStep ==
  ASSUME ChoicesInv, [ChoicesNext]_choiceVars
  PROVE  ChoicesInv'
<1>1. CASE UNCHANGED choiceVars
  BY <1>1 DEF choiceVars, ChoicesInv, ChoicesTyped, IdsApart, CellsInPlace, AnswersCounted, CellsCounted,
              PageOK, StepOK, AloneOK, Through, ThroughAnswer, KeptLine, UsedAnswer, UsedCell, Sendings,
              AnswersOf, CellsOf, AnswerAt, CellAt, SaveAt, Line
<1>2. CASE ChoicesNext
  <2>1. /\ ChoicesTyped /\ IdsApart /\ CellsInPlace /\ AnswersCounted /\ CellsCounted
        /\ \A e \in Authors : PageOK(e) /\ StepOK(e) /\ AloneOK(e)
    BY DEF ChoicesInv
  <2>2. ChoicesTyped'
    BY <1>2, <2>1, ChoicesTypedStep
  <2>3. IdsApart' /\ CellsInPlace'
    BY <1>2, <2>1, IdsApartStep, CellsInPlaceStep
  <2>4. AnswersCounted' /\ CellsCounted'
    BY <1>2, <2>1, <2>2, AnswersCountedStep, CellsCountedStep
  <2>5. \A e \in Authors : PageOK(e)' /\ StepOK(e)' /\ AloneOK(e)'
    BY <1>2, <2>1, PageOKStep, StepOKStep, AloneOKStep
  <2>6. QED
    BY <2>2, <2>3, <2>4, <2>5 DEF ChoicesInv
<1>3. QED
  BY <1>1, <1>2

LEMMA ChoicesInvSafe ==
  ASSUME ChoicesInv
  PROVE  ChoicesSafe
<1>1. \A l \in Lines : /\ Cardinality(AnswersOf(l)) <= FirstOf(l) + Cardinality(Sendings(l, "answer"))
                       /\ Cardinality(CellsOf(l)) <= FirstOf(l) + Cardinality(Sendings(l, "cell"))
  <2>1. SUFFICES ASSUME NEW l \in Lines
                 PROVE  /\ Cardinality(AnswersOf(l)) <= FirstOf(l) + Cardinality(Sendings(l, "answer"))
                        /\ Cardinality(CellsOf(l)) <= FirstOf(l) + Cardinality(Sendings(l, "cell"))
    OBVIOUS
  <2>2. UsedAnswer(l) \in SUBSET Sendings(l, "answer") /\ UsedCell(l) \in SUBSET Sendings(l, "cell")
    BY DEF UsedAnswer, UsedCell
  <2>3. /\ Cardinality(UsedAnswer(l)) <= Cardinality(Sendings(l, "answer"))
        /\ Cardinality(UsedCell(l)) <= Cardinality(Sendings(l, "cell"))
    BY <2>2, UsedFinite, FS_Subset
  <2>4. {Cardinality(UsedAnswer(l)), Cardinality(UsedCell(l)), Cardinality(Sendings(l, "answer")),
         Cardinality(Sendings(l, "cell")), Cardinality(AnswersOf(l)), Cardinality(CellsOf(l)), FirstOf(l)} \subseteq Nat
    BY UsedFinite, OfFinite, FS_CardinalityType DEF FirstOf, ChoicesInv
  <2>5. /\ Cardinality(AnswersOf(l)) <= FirstOf(l) + Cardinality(UsedAnswer(l))
        /\ Cardinality(CellsOf(l)) <= FirstOf(l) + Cardinality(UsedCell(l))
    BY DEF ChoicesInv, AnswersCounted, CellsCounted
  <2>6. QED
    BY <2>3, <2>4, <2>5
<1>2. SavedAsSent
  <2>1. SUFFICES ASSUME NEW e \in alone, SaveAt(e, "saved"), NEW sent \in form[e],
                        sent.answer = None \/ AnswerAt(sent.answer) # {}
                 PROVE  \E a \in answers, c \in cells :
                          /\ a.line = sent.line /\ a.val = sent.val
                          /\ c.line = sent.line /\ c.val = sent.val /\ c.answer = a.id
    BY DEF SavedAsSent
  <2>2. e \in Authors /\ sent \in Through(e)
    BY <2>1 DEF ChoicesInv, ChoicesTyped, Through
  <2>3. KeptLine(e, sent)
    BY <2>1, <2>2 DEF ChoicesInv, AloneOK
  <2>4. QED
    BY <2>3 DEF KeptLine
<1>3. QED
  BY <1>1, <1>2 DEF ChoicesSafe, StoredOnce, ChoicesInv

\* A line of a matrix question is stored once for each time a page that knows no id
\* for it was sent; a quiet save stores every line as it was sent, its cell under its
\* own row; and every cell is under a row of its line, whoever saves, is cut off
\* or deletes meanwhile.
THEOREM ChoicesAreSafe == ChoicesSpec => []ChoicesSafe
<1>1. ChoicesInit => ChoicesInv
  BY ChoicesInit_Inv
<1>2. ChoicesInv /\ [ChoicesNext]_choiceVars => ChoicesInv'
  BY ChoicesStep
<1>3. ChoicesInv => ChoicesSafe
  BY ChoicesInvSafe
<1>4. QED
  BY <1>1, <1>2, <1>3, PTL DEF ChoicesSpec
=============================================================================

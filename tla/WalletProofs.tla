---------------------------- MODULE WalletProofs ----------------------------
(***************************************************************************)
(* The safety of Wallet, Ops, Serving and Matching for any number of       *)
(* requests, any opening balance, prices and limits, any questions, rules  *)
(* and tests.                                                              *)
(*                                                                         *)
(* Wallet: until an admin corrects a balance downwards, every        *)
(* balance that a handler read, and will write back, was not negative      *)
(* (SeenCovered); and a purchase that still may become SUCCESS holds its   *)
(* debit (HoldsDebit).  Ops: an audited action was counted or was in       *)
(* flight when throttle counted, so that what is audited and in flight     *)
(* exceeds the limit by less than the number of actions.  Serving: what a  *)
(* request that nothing overtook has read is what there is.  Matching: an  *)
(* edit leaves every question of the test over there an id of its own, so  *)
(* that a pass takes no question twice (SigsApart, PairsApart); while the  *)
(* test is a copy, no pass matches anything but copies, and the position   *)
(* catches what the texts left.                                            *)
(***************************************************************************)
EXTENDS Wallet, Ops, Serving, Matching, FiniteSetTheorems, SequenceTheorems, TLAPS

Paying == {"debit", "createRow", "refundRead", "refundSave", "bill", "settle", "topup"}

\* Purchases and top-ups move a positive amount.
PositiveAmounts == \A r \in Requests : pc[r] \in Paying => amount[r] > 0

SeenCovered ==
  \/ corrected
  \/ \A r \in Requests :
       pc[r] \in {"refundSave", "chargeSave", "editSave"} => seen[r] >= 0

HoldsDebit ==
  /\ \A r \in Requests : pc[r] \in {"idle", "debit", "topup"} => r \notin debited
  /\ \A r \in Requests : pc[r] \in {"refundRead", "refundSave"} => r \in debited
  /\ \A r \in Requests :
       pc[r] \in {"createRow", "bill", "settle"} => r \in debited \ refunded
  /\ \A r \in Requests : service[r] = "SUCCESS" => pc[r] = "done"

Inv ==
  /\ TypeOK
  /\ PositiveAmounts
  /\ SeenCovered
  /\ HoldsDebit
  /\ NeverOverdrawn
  /\ Conservation
  /\ SuccessIsPaid

-----------------------------------------------------------------------------

LEMMA InitInv == Init => Inv
<1> SUFFICES ASSUME Init PROVE Inv
  OBVIOUS
<1>1. TypeOK
  <2>1. raced \in BOOLEAN /\ corrected \in BOOLEAN
    BY Zenon DEF Init
  <2>2. QED
    BY <2>1, WalletAssumption DEF Init, TypeOK
<1>2. PositiveAmounts /\ SeenCovered /\ HoldsDebit
  BY DEF Init, PositiveAmounts, SeenCovered, HoldsDebit, Paying
<1>3. NeverOverdrawn /\ Conservation /\ SuccessIsPaid
  BY WalletAssumption DEF Init, NeverOverdrawn, Conservation, SuccessIsPaid
<1>4. QED
  BY <1>1, <1>2, <1>3 DEF Inv

\* A full-row save of a balance that was covered keeps the books.
LEMMA SaveBalance ==
  ASSUME NEW r \in Requests, NEW by \in Int, TypeOK, SeenCovered, Conservation,
         pc[r] \in {"refundSave", "chargeSave", "editSave"},
         SaveUser(r, by), spent' = spent
  PROVE  NeverOverdrawn' /\ Conservation'
<1>1. wallet' = seen[r] + by /\ credited' = credited + by
  BY DEF SaveUser
<1>2. NeverOverdrawn'
  <2>1. CASE corrected'
    BY <2>1 DEF NeverOverdrawn
  <2>2. CASE ~corrected'
    <3>1. ~corrected /\ ~(by < 0)
      BY <2>2, Zenon DEF SaveUser
    <3>2. seen[r] >= 0
      BY <3>1 DEF SeenCovered
    <3>3. wallet' >= 0
      BY <1>1, <3>1, <3>2 DEF TypeOK
    <3>4. QED
      BY <3>3 DEF NeverOverdrawn
  <2>3. QED
    BY <2>1, <2>2
<1>3. Conservation'
  <2>1. CASE raced'
    BY <2>1 DEF Conservation
  <2>2. CASE ~raced'
    <3>1. ~raced /\ wallet = seen[r]
      BY <2>2, Zenon DEF SaveUser
    <3>2. wallet = Opening + credited - spent
      BY <3>1 DEF Conservation
    <3>3. wallet' = Opening + credited' - spent'
      BY <1>1, <3>1, <3>2, WalletAssumption DEF TypeOK
    <3>4. QED
      BY <3>3 DEF Conservation
  <2>3. QED
    BY <2>1, <2>2
<1>4. QED
  BY <1>2, <1>3

LEMMA NextInv == Inv /\ [Next]_vars => Inv'
<1> SUFFICES ASSUME Inv, [Next]_vars PROVE Inv'
  OBVIOUS
<1> USE WalletAssumption
<1> USE DEF Inv, TypeOK, PositiveAmounts, SeenCovered, HoldsDebit,
      NeverOverdrawn, Conservation, SuccessIsPaid, Paying, Ended, Active,
      Buying, Refunding, Goto, history
<1>1. ASSUME NEW r \in Requests, NEW a \in Prices, StartPurchase(r, a) PROVE Inv'
  BY <1>1 DEF StartPurchase, Begin
<1>2. ASSUME NEW r \in Requests, Debit(r) PROVE Inv'
  BY <1>2 DEF Debit, Deduct
<1>3. ASSUME NEW r \in Requests, DebitRefused(r) PROVE Inv'
  BY <1>3 DEF DebitRefused, Abort
<1>4. ASSUME NEW r \in Requests, CreateRow(r) PROVE Inv'
  BY <1>4 DEF CreateRow
<1>5. ASSUME NEW r \in Requests, CreateRowFails(r) PROVE Inv'
  BY <1>5 DEF CreateRowFails
<1>6. ASSUME NEW r \in Requests, RefundRead(r) PROVE Inv'
  BY <1>6 DEF RefundRead, ReadUser
<1>7. ASSUME NEW r \in Requests, RefundSave(r) PROVE Inv'
  <2>1. TypeOK'
    <3>1. raced' \in BOOLEAN /\ corrected' \in BOOLEAN
      BY <1>7, Zenon DEF RefundSave, SaveUser
    <3>2. QED
      BY <1>7, <3>1 DEF RefundSave, SaveUser
  <2>2. (PositiveAmounts /\ SeenCovered)'
    BY <1>7 DEF RefundSave, SaveUser
  <2>3. HoldsDebit'
    BY <1>7 DEF RefundSave, SaveUser
  <2>4. (NeverOverdrawn /\ Conservation)'
    <3>1. SaveUser(r, amount[r]) /\ amount[r] \in Int
      BY <1>7 DEF RefundSave
    <3>2. QED
      BY <1>7, <3>1, SaveBalance DEF RefundSave
  <2>5. SuccessIsPaid'
    BY <1>7 DEF RefundSave, SaveUser
  <2>6. QED
    BY <2>1, <2>2, <2>3, <2>4, <2>5
<1>8. ASSUME NEW r \in Requests, Bill(r) PROVE Inv'
  BY <1>8 DEF Bill, Abort
<1>9. ASSUME NEW r \in Requests, SettleService(r) PROVE Inv'
  BY <1>9 DEF SettleService
<1>10. ASSUME NEW r \in Requests, PurchaseFails(r) PROVE Inv'
  BY <1>10 DEF PurchaseFails, Abort
<1>11. ASSUME NEW r \in Requests, NEW a \in Charges, StartCharge(r, a) PROVE Inv'
  BY <1>11 DEF StartCharge, Begin
<1>12. ASSUME NEW r \in Requests, ChargeRead(r) PROVE Inv'
  BY <1>12 DEF ChargeRead, ReadUser
<1>13. ASSUME NEW r \in Requests, ChargeSave(r) PROVE Inv'
  <2>1. TypeOK'
    <3>1. raced' \in BOOLEAN /\ corrected' \in BOOLEAN
      BY <1>13, Zenon DEF ChargeSave, SaveUser
    <3>2. QED
      BY <1>13, <3>1 DEF ChargeSave, SaveUser
  <2>2. (PositiveAmounts /\ SeenCovered)'
    BY <1>13 DEF ChargeSave, SaveUser
  <2>3. HoldsDebit'
    BY <1>13 DEF ChargeSave, SaveUser
  <2>4. (NeverOverdrawn /\ Conservation)'
    <3>1. SaveUser(r, amount[r]) /\ amount[r] \in Int
      BY <1>13 DEF ChargeSave
    <3>2. QED
      BY <1>13, <3>1, SaveBalance DEF ChargeSave
  <2>5. SuccessIsPaid'
    BY <1>13 DEF ChargeSave, SaveUser
  <2>6. QED
    BY <2>1, <2>2, <2>3, <2>4, <2>5
<1>14. ASSUME NEW r \in Requests, EditRead(r) PROVE Inv'
  BY <1>14 DEF EditRead, ReadUser
<1>15. ASSUME NEW r \in Requests, EditSave(r) PROVE Inv'
  <2>1. TypeOK'
    <3>1. raced' \in BOOLEAN /\ corrected' \in BOOLEAN
      BY <1>15, Zenon DEF EditSave, SaveUser
    <3>2. QED
      BY <1>15, <3>1 DEF EditSave, SaveUser
  <2>2. (PositiveAmounts /\ SeenCovered)'
    BY <1>15 DEF EditSave, SaveUser
  <2>3. HoldsDebit'
    BY <1>15 DEF EditSave, SaveUser
  <2>4. (NeverOverdrawn /\ Conservation)'
    <3>1. SaveUser(r, 0) /\ 0 \in Int
      BY <1>15 DEF EditSave
    <3>2. QED
      BY <1>15, <3>1, SaveBalance DEF EditSave
  <2>5. SuccessIsPaid'
    BY <1>15 DEF EditSave, SaveUser
  <2>6. QED
    BY <2>1, <2>2, <2>3, <2>4, <2>5
<1>16. ASSUME NEW r \in Requests, NEW a \in Prices, StartTopUp(r, a) PROVE Inv'
  BY <1>16 DEF StartTopUp, Begin
<1>17. ASSUME NEW r \in Requests, TopUp(r) PROVE Inv'
  BY <1>17 DEF TopUp, Deduct
<1>18. ASSUME NEW r \in Requests, TopUpRefused(r) PROVE Inv'
  BY <1>18 DEF TopUpRefused, Abort
<1>19. ASSUME NEW r \in Requests, Crash(r) PROVE Inv'
  BY <1>19 DEF Crash, Abort
<1>20. ASSUME UNCHANGED vars PROVE Inv'
  BY <1>20 DEF vars, reqVars
<1>21. QED
  BY <1>1, <1>2, <1>3, <1>4, <1>5, <1>6, <1>7, <1>8, <1>9, <1>10, <1>11, <1>12,
    <1>13, <1>14, <1>15, <1>16, <1>17, <1>18, <1>19, <1>20
    DEF Next, RequestStep, Quiescent

-----------------------------------------------------------------------------

LEMMA Invariance == Spec => []Inv
<1>1. QED
  BY InitInv, NextInv, PTL DEF Spec

\* Every variable of Wallet keeps its type.
THEOREM TypeCorrect == Spec => []TypeOK
<1>1. Inv => TypeOK
  BY DEF Inv
<1>2. QED
  BY Invariance, <1>1, PTL

\* The conditional UPDATE of debitWallet and topUpAtomic never overdraws the
\* wallet, whichever stale balances other handlers write back.
THEOREM WalletNotOverdrawn == Spec => []NeverOverdrawn
<1>1. Inv => NeverOverdrawn
  BY DEF Inv
<1>2. QED
  BY Invariance, <1>1, PTL

\* Without overlapping read-modify-writes the balance is exact.
THEOREM MoneyConserved == Spec => []Conservation
<1>1. Inv => Conservation
  BY DEF Inv
<1>2. QED
  BY Invariance, <1>1, PTL

\* Both together: what the run checks.
THEOREM WalletIsSafe == Spec => []WalletSafe
<1>1. NeverOverdrawn /\ Conservation => WalletSafe
  BY DEF WalletSafe
<1>2. QED
  BY WalletNotOverdrawn, MoneyConserved, <1>1, PTL

\* Nothing is spent that was not there, under the same condition.
THEOREM SpendingCovered == Spec => []SpendCovered
<1>1. Inv => SpendCovered
  BY WalletAssumption DEF Inv, TypeOK, NeverOverdrawn, Conservation, SpendCovered
<1>2. QED
  BY Invariance, <1>1, PTL

\* A SUCCESS row of an organisation is paid for, and its refund never runs.
THEOREM SuccessPaid == Spec => []SuccessIsPaid
<1>1. Inv => SuccessIsPaid
  BY DEF Inv
<1>2. QED
  BY Invariance, <1>1, PTL

-----------------------------------------------------------------------------
(* What an operator does to a report                                       *)

Statuses == {"none", "FAILED", "SENT", "PENDING", "working", "COMPLETED"}
Stages ==
  {Resting} \cup [at : {"put", "look", "enqueue"}] \cup [at : {"read"}, mode : Modes]
    \cup [at : {"write"}, seen : Statuses] \cup [at : {"audit"}, took : BOOLEAN]

OpsShape ==
  /\ log \in Statuses /\ queued \in BOOLEAN /\ action \in [Actions -> Stages]
  /\ audited \in Nat /\ acted \in Nat /\ lost \in Nat
  /\ done \in Nat /\ mails \in Nat /\ crossed \in Nat

\* Requests in flight, and those of them that took effect.
Busy == {o \in Actions : action[o].at # "idle"}
Acts(stage) == stage.at \in {"look", "write"} \/ (stage.at = "audit" /\ stage.took)
Acting == {o \in Actions : Acts(action[o])}

OpsInv ==
  /\ OpsShape
  /\ mails + (IF log = "COMPLETED" THEN 1 ELSE 0) <= done + crossed
  /\ acted <= audited + lost + Cardinality(Acting)
  /\ audited + Cardinality(Busy) <= OpsLimit + Cardinality(Actions) - 1

One(b) == IF b THEN 1 ELSE 0

\* A set that differs from another by one element at most.
LEMMA CountOne ==
  ASSUME NEW S, NEW T, NEW o, IsFiniteSet(S), IsFiniteSet(T), S \ {o} = T \ {o}
  PROVE  Cardinality(T) = Cardinality(S) + One(o \in T) - One(o \in S)
<1> DEFINE R == S \ {o}
<1>1. IsFiniteSet(R) /\ Cardinality(S) \in Nat /\ Cardinality(T) \in Nat /\ Cardinality(R) \in Nat
  BY FS_Subset, FS_CardinalityType
<1>2. Cardinality(S) = Cardinality(R) + One(o \in S)
  BY <1>1, FS_RemoveElement DEF One
<1>3. R = T \ {o}
  OBVIOUS
<1>4. Cardinality(T) = Cardinality(R) + One(o \in T)
  <2> HIDE DEF R
  <2> QED BY <1>1, <1>3, FS_RemoveElement DEF One
<1>5. One(o \in S) \in Nat /\ One(o \in T) \in Nat
  BY DEF One
<1> HIDE DEF R
<1> QED BY <1>1, <1>2, <1>4, <1>5

\* One request goes on to another stage.
LEMMA MoveCounts ==
  ASSUME OpsShape, NEW o \in Actions, NEW stage \in Stages, Moves(o, stage)
  PROVE  /\ action' \in [Actions -> Stages]
         /\ {Cardinality(Acting), Cardinality(Busy), Cardinality(Actions)} \subseteq Nat
         /\ {Cardinality(Acting'), Cardinality(Busy')} \subseteq Nat
         /\ Cardinality(Acting') = Cardinality(Acting) + One(Acts(stage)) - One(Acts(action[o]))
         /\ Cardinality(Busy') = Cardinality(Busy) + One(stage.at # "idle") - One(action[o].at # "idle")
         /\ Cardinality(Busy') <= Cardinality(Actions)
<1>1. action' = [action EXCEPT ![o] = stage] /\ action \in [Actions -> Stages]
  BY DEF Moves, OpsShape
<1>2. action' \in [Actions -> Stages]
  BY <1>1
<1>3. /\ Acting \subseteq Actions /\ Busy \subseteq Actions
      /\ Acting' \subseteq Actions /\ Busy' \subseteq Actions
  BY DEF Acting, Busy
<1>4. /\ IsFiniteSet(Acting) /\ IsFiniteSet(Busy) /\ IsFiniteSet(Acting') /\ IsFiniteSet(Busy')
      /\ IsFiniteSet(Actions)
  BY <1>3, OpsAssumption, FS_Subset
<1>5. action'[o] = stage /\ \A p \in Actions \ {o} : action'[p] = action[p]
  BY <1>1
<1>6. Acting \ {o} = Acting' \ {o} /\ (o \in Acting <=> Acts(action[o])) /\ (o \in Acting' <=> Acts(stage))
  BY <1>5 DEF Acting
<1>7. /\ Busy \ {o} = Busy' \ {o}
      /\ (o \in Busy <=> action[o].at # "idle") /\ (o \in Busy' <=> stage.at # "idle")
  BY <1>5 DEF Busy
<1>8. Cardinality(Acting') = Cardinality(Acting) + One(o \in Acting') - One(o \in Acting)
  BY <1>4, <1>6, CountOne
<1>9. Cardinality(Busy') = Cardinality(Busy) + One(o \in Busy') - One(o \in Busy)
  BY <1>4, <1>7, CountOne
<1>10. One(o \in Acting') = One(Acts(stage)) /\ One(o \in Acting) = One(Acts(action[o]))
  BY <1>6 DEF One
<1>11. One(o \in Busy') = One(stage.at # "idle") /\ One(o \in Busy) = One(action[o].at # "idle")
  BY <1>7 DEF One
<1>12. Cardinality(Busy') <= Cardinality(Actions)
  BY <1>3, <1>4, FS_Subset
<1> QED BY <1>2, <1>4, <1>8, <1>9, <1>10, <1>11, <1>12, FS_CardinalityType

LEMMA OpsInitInv == OpsInit => OpsInv
<1> SUFFICES ASSUME OpsInit PROVE OpsInv
  OBVIOUS
<1>1. OpsShape
  BY DEF OpsInit, OpsShape, Statuses, Stages
<1>2. Acting = {} /\ Busy = {}
  BY DEF OpsInit, Acting, Busy, Acts, Resting
<1>3. Cardinality({}) = 0 /\ Cardinality(Actions) \in Nat
  BY FS_EmptySet, FS_CardinalityType, OpsAssumption
<1> QED BY <1>1, <1>2, <1>3, OpsAssumption DEF OpsInit, OpsInv

\* A step of one request of the operator.
LEMMA ActionStep ==
  ASSUME OpsInv, NEW o \in Actions,
         \/ \E m \in Modes \cup {"upload"} : Request(o, m)
         \/ ReadStatus(o) \/ Enqueue(o)
         \/ PutPdf(o) \/ LookAtLog(o) \/ WriteLog(o)
         \/ BreakOff(o) \/ Audit(o)
  PROVE  OpsInv'
<1> DEFINE A == Cardinality(Acting)
           B == Cardinality(Busy)
           N == Cardinality(Actions)
<1>1. OpsShape /\ action[o] \in Stages /\ OpsLimit \in Nat \ {0}
  BY OpsAssumption DEF OpsInv, OpsShape
<1>2. /\ mails + (IF log = "COMPLETED" THEN 1 ELSE 0) <= done + crossed
      /\ acted <= audited + lost + A
      /\ audited + B <= OpsLimit + N - 1
  BY DEF OpsInv
<1>3. CASE \E m \in Modes \cup {"upload"} : Request(o, m)
  <2>1. PICK stage \in Stages :
          Moves(o, stage) /\ stage.at \in {"put", "read"} /\ Is(o, "idle") /\ audited < OpsLimit
    BY <1>3 DEF Request, Stages, Free
  <2>2. UNCHANGED <<log, stale, queued, audited, opsHistory>>
    BY <1>3 DEF Request
  <2>3. ~Acts(stage) /\ ~Acts(action[o])
    BY <2>1 DEF Acts, Is
  <2>4. Cardinality(Acting') = A /\ Cardinality(Busy') <= N /\ {A, B, N, Cardinality(Busy')} \subseteq Nat
    BY <1>1, <2>1, <2>3, MoveCounts DEF One
  <2>5. OpsShape'
    BY <1>1, <2>1, <2>2, MoveCounts DEF OpsShape, opsHistory
  <2> HIDE DEF A, B, N
  <2> QED BY <1>1, <1>2, <2>1, <2>2, <2>4, <2>5 DEF OpsInv, OpsShape, opsHistory, A, B, N
<1>4. ASSUME NEW stage \in Stages, Moves(o, stage), action[o].at # "idle",
             log' \in Statuses, queued' \in BOOLEAN,
             {audited', acted', lost', done', mails', crossed'} \subseteq Nat,
             mails' + (IF log' = "COMPLETED" THEN 1 ELSE 0) <= done' + crossed',
             audited' + One(stage.at # "idle") <= audited + 1,
             acted' + One(Acts(action[o])) + audited + lost
               <= acted + One(Acts(stage)) + audited' + lost'
      PROVE  OpsInv'
  <2>1. /\ {A, B, N, Cardinality(Acting'), Cardinality(Busy')} \subseteq Nat
        /\ Cardinality(Acting') = A + One(Acts(stage)) - One(Acts(action[o]))
        /\ Cardinality(Busy') = B + One(stage.at # "idle") - One(action[o].at # "idle")
    BY <1>1, <1>4, MoveCounts
  <2>2. OpsShape'
    BY <1>1, <1>4, MoveCounts DEF OpsShape
  <2>3. One(action[o].at # "idle") = 1 /\ {One(Acts(stage)), One(Acts(action[o]))} \subseteq Nat
        /\ One(stage.at # "idle") \in Nat
    BY <1>4 DEF One
  <2>4. {audited, acted, lost} \subseteq Nat
    BY <1>1 DEF OpsShape
  <2> HIDE DEF A, B, N
  <2>5. acted' <= audited' + lost' + Cardinality(Acting')
    BY <1>2, <1>4, <2>1, <2>3, <2>4
  <2>6. audited' + Cardinality(Busy') <= OpsLimit + N - 1
    BY <1>1, <1>2, <1>4, <2>1, <2>3, <2>4
  <2> QED BY <1>4, <2>2, <2>5, <2>6 DEF OpsInv, N
<1>5. /\ log \in Statuses /\ queued \in BOOLEAN
      /\ {audited, acted, lost, done, mails, crossed} \subseteq Nat
  BY <1>1 DEF OpsShape
<1> HIDE DEF A, B, N
<1>6. CASE ReadStatus(o)
  <2>1. PICK stage \in Stages : Moves(o, stage) /\ stage.at \in {"idle", "enqueue"} /\ action[o].at = "read"
    BY <1>6 DEF ReadStatus, Is, Stages, Resting
  <2>2. ~Acts(stage) /\ ~Acts(action[o])
    BY <2>1 DEF Acts
  <2> QED BY <1>2, <1>4, <1>5, <1>6, <2>1, <2>2 DEF ReadStatus, opsHistory, One
<1>7. CASE Enqueue(o)
  <2> DEFINE stage == [at |-> "audit", took |-> ~queued]
  <2>1. stage \in Stages /\ Moves(o, stage) /\ stage.at = "audit" /\ (stage.took <=> ~queued) /\ action[o].at = "enqueue"
    BY <1>5, <1>7 DEF Enqueue, Is, Stages
  <2>2. (Acts(stage) <=> ~queued) /\ ~Acts(action[o])
    BY <2>1 DEF Acts
  <2>3. /\ log' = "PENDING" /\ queued' = TRUE /\ acted' = acted + One(~queued)
        /\ UNCHANGED <<audited, lost, done, mails, crossed>>
    BY <1>5, <1>7 DEF Enqueue, One
  <2> HIDE DEF stage
  <2> QED BY <1>2, <1>4, <1>5, <2>1, <2>2, <2>3 DEF One, Statuses
<1>8. CASE PutPdf(o)
  <2>1. /\ action[o].at = "put"
        /\ UNCHANGED <<log, queued, audited, lost, done, mails, crossed>>
    BY <1>8 DEF PutPdf, Is
  <2>2. ~Acts(action[o])
    BY <2>1 DEF Acts
  <2>3. CASE Moves(o, [at |-> "look"]) /\ acted' = acted + 1
    <3>1. [at |-> "look"] \in Stages /\ Acts([at |-> "look"])
      BY DEF Stages, Acts
    <3> QED BY <1>2, <1>4, <1>5, <2>1, <2>2, <2>3, <3>1 DEF One
  <2>4. CASE Moves(o, [at |-> "audit", took |-> FALSE]) /\ acted' = acted
    <3>1. [at |-> "audit", took |-> FALSE] \in Stages /\ ~Acts([at |-> "audit", took |-> FALSE])
      BY DEF Stages, Acts
    <3> QED BY <1>2, <1>4, <1>5, <2>1, <2>2, <2>4, <3>1 DEF One
  <2> QED BY <1>8, <2>3, <2>4 DEF PutPdf
<1>9. CASE LookAtLog(o)
  <2> DEFINE stage == [at |-> "write", seen |-> log]
  <2>1. stage \in Stages /\ Moves(o, stage) /\ stage.at = "write" /\ action[o].at = "look"
    BY <1>5, <1>9 DEF LookAtLog, Is, Stages
  <2>2. Acts(stage) /\ Acts(action[o])
    BY <2>1 DEF Acts
  <2> HIDE DEF stage
  <2> QED BY <1>2, <1>4, <1>5, <1>9, <2>1, <2>2 DEF LookAtLog, opsHistory, One
<1>10. CASE WriteLog(o)
  <2> DEFINE stage == [at |-> "audit", took |-> TRUE]
  <2>1. stage \in Stages /\ Moves(o, stage) /\ stage.at = "audit" /\ Acts(stage) /\ action[o].at = "write"
    BY <1>10 DEF WriteLog, Is, Stages, Acts
  <2>2. Acts(action[o])
    BY <2>1 DEF Acts
  <2>3. /\ log' = NextStatus(action[o].seen) /\ log' \in {"SENT", "COMPLETED"}
        /\ UNCHANGED <<queued, audited, acted, lost, mails>>
        /\ {done', crossed'} \subseteq Nat
    BY <1>5, <1>10 DEF WriteLog, NextStatus
  <2>4. mails' + (IF log' = "COMPLETED" THEN 1 ELSE 0) <= done' + crossed'
    <3>1. CASE action[o].seen = "SENT"
      BY <1>2, <1>5, <1>10, <2>3, <3>1 DEF WriteLog, NextStatus
    <3>2. CASE action[o].seen # "SENT"
      BY <1>2, <1>5, <1>10, <2>3, <3>2 DEF WriteLog, NextStatus
    <3> QED BY <3>1, <3>2
  <2> HIDE DEF stage
  <2> QED BY <1>4, <1>5, <2>1, <2>2, <2>3, <2>4 DEF One, Statuses
<1>11. CASE BreakOff(o)
  <2>1. /\ Resting \in Stages /\ Resting.at = "idle" /\ ~Acts(Resting) /\ Moves(o, Resting)
        /\ action[o].at \in {"read", "enqueue", "put", "look", "write"}
        /\ UNCHANGED <<log, queued, audited, acted, done, mails, crossed>>
        /\ lost' = IF Acts(action[o]) THEN lost + 1 ELSE lost
    BY <1>11 DEF BreakOff, Stages, Resting, Acts
  <2> QED BY <1>2, <1>4, <1>5, <2>1 DEF One
<1>12. CASE Audit(o)
  <2>1. /\ Resting \in Stages /\ Resting.at = "idle" /\ ~Acts(Resting) /\ Moves(o, Resting)
        /\ action[o].at = "audit" /\ (Acts(action[o]) <=> action[o].took)
        /\ UNCHANGED <<log, queued, acted, done, mails, crossed>>
    BY <1>12 DEF Audit, Is, Stages, Resting, Acts
  <2>2. \/ audited' = audited + 1 /\ lost' = lost
        \/ lost' = lost + One(Acts(action[o])) /\ audited' = audited
    BY <1>5, <1>12, <2>1 DEF Audit, One
  <2> QED BY <1>2, <1>4, <1>5, <2>1, <2>2 DEF One
<1> QED BY <1>3, <1>6, <1>7, <1>8, <1>9, <1>10, <1>11, <1>12

LEMMA OpsStep == OpsInv /\ [OpsNext]_opsVars => OpsInv'
<1> SUFFICES ASSUME OpsInv, [OpsNext]_opsVars PROVE OpsInv'
  OBVIOUS
<1>1. /\ OpsShape /\ mails + (IF log = "COMPLETED" THEN 1 ELSE 0) <= done + crossed
      /\ acted <= audited + lost + Cardinality(Acting)
      /\ audited + Cardinality(Busy) <= OpsLimit + Cardinality(Actions) - 1
  BY DEF OpsInv
<1>2. ASSUME action' = action, UNCHANGED <<audited, acted, lost>>,
             log' \in Statuses, queued' \in BOOLEAN, {done', mails', crossed'} \subseteq Nat,
             mails' + (IF log' = "COMPLETED" THEN 1 ELSE 0) <= done' + crossed'
      PROVE  OpsInv'
  <2>1. Acting' = Acting /\ Busy' = Busy
    BY <1>2 DEF Acting, Busy
  <2>2. OpsShape'
    BY <1>1, <1>2 DEF OpsShape
  <2> QED BY <1>1, <1>2, <2>1, <2>2 DEF OpsInv
<1>3. CASE UNCHANGED opsVars
  BY <1>1, <1>2, <1>3 DEF opsVars, OpsShape
<1>4. CASE \E o \in Actions :
             \/ \E m \in Modes \cup {"upload"} : Request(o, m)
             \/ ReadStatus(o) \/ Enqueue(o)
             \/ PutPdf(o) \/ LookAtLog(o) \/ WriteLog(o)
             \/ BreakOff(o) \/ Audit(o)
  BY <1>4, ActionStep
<1>5. CASE MinutePasses
  <2>1. /\ audited' = 0 /\ acted' = 0 /\ lost' = 0 /\ action' = action
        /\ UNCHANGED <<log, queued, done, mails, crossed>>
    BY <1>5 DEF MinutePasses
  <2>2. Busy' = {} /\ Acting' = {}
    BY <1>5 DEF MinutePasses, Busy, Acting, Acts, Is
  <2>3. Cardinality({}) = 0 /\ Cardinality(Actions) \in Nat
    BY FS_EmptySet, FS_CardinalityType, OpsAssumption
  <2>4. OpsShape'
    BY <1>1, <2>1 DEF OpsShape
  <2> QED BY <1>1, <2>1, <2>2, <2>3, <2>4, OpsAssumption DEF OpsInv
<1>6. CASE \E s \in {"working", "FAILED", "COMPLETED"} : WorkerReports(s)
  <2>1. PICK s \in {"working", "FAILED", "COMPLETED"} : WorkerReports(s)
    BY <1>6
  <2> QED BY <1>1, <1>2, <2>1 DEF WorkerReports, OpsShape, Statuses
<1>7. CASE RowGrowsOld
  BY <1>1, <1>2, <1>7 DEF RowGrowsOld, OpsShape, opsHistory
<1>8. CASE Announce
  BY <1>1, <1>2, <1>8 DEF Announce, OpsShape, Statuses
<1> QED BY <1>3, <1>4, <1>5, <1>6, <1>7, <1>8 DEF OpsNext

\* An upload does not announce a report twice unless it crosses the
\* announcement, and however requests overlap, those that take effect in a
\* minute are bounded by the limit, by those in flight and by what was lost.
THEOREM OpsIsSafe == OpsSpec => []OpsSafe
<1>1. OpsInv => OpsSafe
  <2> SUFFICES ASSUME OpsInv PROVE OpsSafe
    OBVIOUS
  <2>1. Acting \subseteq Busy /\ Busy \subseteq Actions /\ IsFiniteSet(Busy)
    BY OpsAssumption, FS_Subset DEF Acting, Busy, Acts
  <2>2. /\ Cardinality(Acting) <= Cardinality(Busy)
        /\ {Cardinality(Acting), Cardinality(Busy), Cardinality(Actions)} \subseteq Nat
    BY <2>1, OpsAssumption, FS_Subset, FS_CardinalityType
  <2>3. {mails, done, crossed, acted, audited, lost} \subseteq Nat
    BY DEF OpsInv, OpsShape
  <2> QED BY <2>2, <2>3, OpsAssumption DEF OpsInv, OpsSafe, UploadsMailOnce, ActionsBounded
<1> QED BY OpsInitInv, OpsStep, <1>1, PTL DEF OpsSpec

-----------------------------------------------------------------------------
(* The page of a section                                                   *)

HiddenOn(drawn, q, l) == \E g \in given, r \in active :
  r.target = q /\ r.row \in {Any, l} /\ r.on \notin drawn /\ Fits(g, r)

\* What PageRight says of a request's page.
PageOf(d) ==
  LET drawn == Drawn(d.sheet)
  IN  /\ \A q \in Pool, l \in Lines :
           (q \in DOMAIN d.rows /\ l \in d.rows[q]) <=> (q \in drawn /\ ~HiddenOn(drawn, q, l))
      /\ \A q \in DOMAIN d.rows : d.rows[q] # {}
      /\ \A r \in active : {r.target, r.on} \subseteq drawn =>
           \/ r \in d.live
           \/ \E q \in {r.target, r.on} : \A l \in Lines : HiddenOn(drawn, q, l)

\* What a request has read is what there is, unless something arrived since.
VisitOK(d) ==
  /\ d.step \in {"idle", "drawn", "fetched", "shown"}
  /\ d.step # "idle" => {"step", "fresh"} \subseteq DOMAIN d
  /\ d.step \in {"drawn", "fetched"} /\ d.fresh => d.drawn = Drawn(d.sheet)
  /\ d.step = "fetched" /\ d.fresh => d.rules = {r \in active : r.target \in d.drawn}
  /\ d.step = "shown" /\ d.fresh => PageOf(d)

ServingInv == DOMAIN visit = Visits /\ \A v \in Visits : VisitOK(visit[v])

LEMMA ServingInitInv == ServingInit => ServingInv
BY DEF ServingInit, ServingInv, VisitOK, Unopened

\* The test and the answers stay.
LEMMA SamePages == UNCHANGED <<testVars, given>> => \A e : VisitOK(e) => VisitOK(e)'
<1> SUFFICES ASSUME UNCHANGED <<testVars, given>> PROVE \A e : VisitOK(e) => VisitOK(e)'
  OBVIOUS
<1>1. UNCHANGED <<sheetOf, place, limit, active, given>>
  BY DEF testVars
<1>2. \A s : Drawn(s)' = Drawn(s)
  BY <1>1 DEF Drawn, OnSheet
<1>3. \A D, q, l : HiddenOn(D, q, l)' <=> HiddenOn(D, q, l)
  BY <1>1 DEF HiddenOn, Fits
<1>4. \A e : PageOf(e)' <=> PageOf(e)
  BY <1>1, <1>2, <1>3 DEF PageOf
<1> QED BY <1>1, <1>2, <1>4 DEF VisitOK

\* One request goes on and the test and the answers stay.
LEMMA WentOn ==
  ASSUME ServingInv, UNCHANGED <<testVars, given>>, NEW v \in Visits, NEW d, Went(v, d), VisitOK(d)
  PROVE  ServingInv'
<1>1. DOMAIN visit' = Visits /\ visit'[v] = d /\ \A w \in Visits \ {v} : visit'[w] = visit[w]
  BY DEF ServingInv, Went
<1>2. ASSUME NEW w \in Visits PROVE VisitOK(visit[w])'
  <2>1. PICK e : e = visit'[w] /\ VisitOK(e)
    BY <1>1 DEF ServingInv
  <2>2. VisitOK(e)'
    BY <2>1, SamePages
  <2> QED BY <2>1, <2>2 DEF VisitOK, PageOf
<1> QED BY <1>1, <1>2 DEF ServingInv

\* Answers or edits arrive: no page under way or shown is fresh any more.
LEMMA AgedStep == ASSUME ServingInv, Aged PROVE ServingInv'
<1>1. DOMAIN visit' = Visits
  BY DEF Aged
<1>2. ASSUME NEW v \in Visits PROVE VisitOK(visit[v])'
  <2>1. VisitOK(visit[v]) /\ visit'[v] = IF visit[v].step = "idle" THEN visit[v] ELSE [visit[v] EXCEPT !.fresh = FALSE]
    BY DEF Aged, ServingInv
  <2>2. CASE visit[v].step = "idle"
    BY <2>1, <2>2 DEF VisitOK
  <2>3. CASE visit[v].step # "idle"
    <3>1. /\ visit'[v].step = visit[v].step /\ visit'[v].fresh = FALSE
          /\ DOMAIN visit'[v] = DOMAIN visit[v] /\ {"step", "fresh"} \subseteq DOMAIN visit[v]
      BY <2>1, <2>3 DEF VisitOK
    <3> QED BY <2>1, <3>1 DEF VisitOK
  <2> QED BY <2>2, <2>3
<1> QED BY <1>1, <1>2 DEF ServingInv

\* ShowPage of what is fresh makes the right page.
LEMMA ShownRight ==
  ASSUME NEW v \in Visits, VisitOK(visit[v]), visit[v].step = "fetched", visit[v].fresh,
         NEW d, d.sheet = visit[v].sheet, d.rows = [q \in Left(v) |-> RowsLeft(v, q)],
         d.live = {r \in visit[v].rules : {r.target, r.on} \subseteq Left(v)}
  PROVE  PageOf(d)
<1> DEFINE drawn == Drawn(d.sheet)
<1>1. visit[v].drawn = drawn /\ visit[v].rules = {r \in active : r.target \in drawn} /\ drawn \subseteq Pool
  BY DEF VisitOK, Drawn, OnSheet
<1>2. DOMAIN d.rows = Left(v) /\ \A q \in Left(v) : d.rows[q] = RowsLeft(v, q)
  OBVIOUS
<1> HIDE DEF drawn
<1>3. ASSUME NEW q \in drawn
      PROVE  \A r : r \in Hits(v, q) <=> r \in active /\ r.target = q /\ r.on \notin drawn /\ Matched(r)
  BY <1>1, <1>3 DEF Hits, Prior
<1>4. ASSUME NEW q \in drawn, NEW l \in Lines
      PROVE  HiddenOn(drawn, q, l) <=> \E r \in Hits(v, q) : r.row \in {Any, l}
  BY <1>3, <1>4 DEF HiddenOn, Matched
<1>5. ASSUME NEW q \in drawn, NEW l \in Lines
      PROVE  q \in Left(v) /\ l \in RowsLeft(v, q) <=> ~HiddenOn(drawn, q, l)
  BY <1>1, <1>4, <1>5 DEF Left, RowsLeft
<1>6. Left(v) \subseteq drawn /\ \A q \in Left(v) : RowsLeft(v, q) # {} /\ RowsLeft(v, q) \subseteq Lines
  BY <1>1 DEF Left, RowsLeft
<1>7. ASSUME NEW q \in drawn \ Left(v), NEW l \in Lines PROVE HiddenOn(drawn, q, l)
  BY <1>5, <1>7
<1>8. ASSUME NEW r \in active, {r.target, r.on} \subseteq drawn
      PROVE  r \in d.live \/ \E q \in {r.target, r.on} : \A l \in Lines : HiddenOn(drawn, q, l)
  BY <1>1, <1>7, <1>8
<1>9. ASSUME NEW q \in Pool, NEW l \in Lines
      PROVE  (q \in DOMAIN d.rows /\ l \in d.rows[q]) <=> (q \in drawn /\ ~HiddenOn(drawn, q, l))
  BY <1>2, <1>5, <1>6
<1> QED BY <1>2, <1>6, <1>8, <1>9 DEF PageOf, drawn

LEMMA ServingStep == ServingInv /\ [ServingNext]_servingVars => ServingInv'
<1> SUFFICES ASSUME ServingInv, [ServingNext]_servingVars PROVE ServingInv'
  OBVIOUS
<1>1. CASE UNCHANGED servingVars
  <2>1. visit' = visit /\ UNCHANGED <<testVars, given>>
    BY <1>1 DEF servingVars, testVars
  <2>2. ASSUME NEW v \in Visits PROVE VisitOK(visit[v])'
    <3> VisitOK(visit[v])
      BY DEF ServingInv
    <3>1. PICK e : e = visit[v] /\ VisitOK(e)
      OBVIOUS
    <3>2. VisitOK(e)'
      BY <2>1, <3>1, SamePages
    <3> QED BY <2>1, <3>1, <3>2 DEF VisitOK, PageOf
  <2> QED BY <2>1, <2>2 DEF ServingInv
<1>2. ASSUME NEW v \in Visits, NEW s \in Sheets, DrawQuestions(v, s) PROVE ServingInv'
  <2> DEFINE d == [step |-> "drawn", sheet |-> s, drawn |-> Drawn(s), fresh |-> TRUE]
  <2>1. VisitOK(d)
    BY DEF VisitOK
  <2>2. Went(v, d) /\ UNCHANGED <<testVars, given>>
    BY <1>2 DEF DrawQuestions
  <2> HIDE DEF d
  <2> QED BY <2>1, <2>2, WentOn
<1>3. ASSUME NEW v \in Visits, FetchRules(v) PROVE ServingInv'
  <2> DEFINE o == visit[v]
             d == [step |-> "fetched", sheet |-> o.sheet, drawn |-> o.drawn, fresh |-> o.fresh,
                   rules |-> {r \in active : r.target \in o.drawn}]
  <2>1. VisitOK(d)
    BY <1>3 DEF VisitOK, ServingInv, FetchRules
  <2>2. Went(v, d) /\ UNCHANGED <<testVars, given>>
    BY <1>3 DEF FetchRules
  <2> HIDE DEF d
  <2> QED BY <2>1, <2>2, WentOn
<1>4. ASSUME NEW v \in Visits, ShowPage(v) PROVE ServingInv'
  <2> DEFINE o == visit[v]
             d == [step |-> "shown", sheet |-> o.sheet, drawn |-> o.drawn, fresh |-> o.fresh,
                   rows |-> [q \in Left(v) |-> RowsLeft(v, q)],
                   live |-> {r \in o.rules : {r.target, r.on} \subseteq Left(v)}]
  <2>1. Went(v, d) /\ UNCHANGED <<testVars, given>> /\ o.step = "fetched"
    BY <1>4 DEF ShowPage
  <2>2. /\ d.step = "shown" /\ d.sheet = o.sheet /\ d.fresh = o.fresh
        /\ {"step", "fresh"} \subseteq DOMAIN d
        /\ d.rows = [q \in Left(v) |-> RowsLeft(v, q)]
        /\ d.live = {r \in o.rules : {r.target, r.on} \subseteq Left(v)}
    OBVIOUS
  <2> HIDE DEF d
  <2>3. d.fresh => PageOf(d)
    BY <2>1, <2>2, ShownRight DEF ServingInv
  <2>4. VisitOK(d)
    BY <2>2, <2>3 DEF VisitOK
  <2> QED BY <2>1, <2>4, WentOn
<1>5. CASE \/ StoreAnswers
           \/ \E q \in Pool, s \in Sheets \cup {Any} : PlaceQuestion(q, s)
           \/ \E r \in Rule : SwitchRule(r)
  <2>1. Aged
    BY <1>5 DEF StoreAnswers, PlaceQuestion, SwitchRule, Tamper
  <2> QED BY <2>1, AgedStep
<1> QED BY <1>1, <1>2, <1>3, <1>4, <1>5 DEF ServingNext

\* A row is on the page exactly if no active rule with its condition on
\* another page fits a stored answer, and rules between questions of the page
\* go to the client: for any test, rules and answers, and any visits.
THEOREM PagesAreRight == ServingSpec => []PageRight
<1>1. ServingInv => PageRight
  BY DEF ServingInv, VisitOK, PageOf, HiddenOn, PageRight
<1> QED BY ServingInitInv, ServingStep, <1>1, PTL DEF ServingSpec

-----------------------------------------------------------------------------
(* Matching                                                                *)

IdsOnce(test) == \A p, r \in Places(test) : IdAt(test, p) = IdAt(test, r) => p = r

\* The signatures of a test: no id twice, and one is before the other.
SigsApart(sigs) ==
  /\ \A s, r \in sigs : s.id = r.id => s = r
  /\ \A s, r \in sigs : s.categoryIndex = r.categoryIndex /\ s.questionIndex = r.questionIndex => s = r
  /\ \A s, r \in sigs : s = r \/ Before(s, r) \/ Before(r, s)
  /\ \A s \in sigs : ~Before(s, s)

\* Pairs that share no question.
PairsApart(pairs) == \A m, n \in pairs : m.from = n.from \/ m.to = n.to => m = n

\* A test with no id twice, and none from n on.
Numbered(test, n) == test \in Tests /\ IdsOnce(test) /\ \A p \in Places(test) : IdAt(test, p) < n

MatchingInv ==
  /\ here \in Originals /\ rewrites \in Nat /\ Numbered(there, NewId + rewrites)
  /\ rewrites = 0 => there = Shifted(here)
  /\ imported => MatchingSafe

LEMMA ElementIs ==
  ASSUME NEW S, NEW l \in Seq(S)
  PROVE  Len(l) \in Nat /\ DOMAIN l = 1..Len(l) /\ \A i \in 1..Len(l) : l[i] \in S
OBVIOUS

LEMMA GroupsAre ==
  ASSUME NEW test \in Tests
  PROVE  Len(test) \in Nat /\ DOMAIN test = 1..Len(test)
<1> DEFINE Groups == [title : Texts, questions : Seq([id : Nat, name : Texts, type : Types])]
<1>1. test \in Seq(Groups)
  BY DEF Tests
<1> HIDE DEF Groups
<1>2. QED
  BY <1>1, ElementIs

LEMMA GroupIs ==
  ASSUME NEW test \in Tests, NEW g \in 1..Len(test)
  PROVE  /\ test[g].title \in Texts
         /\ test[g].questions \in Seq([id : Nat, name : Texts, type : Types])
         /\ DOMAIN test = 1..Len(test) /\ DOMAIN test[g].questions = 1..Len(test[g].questions)
<1> DEFINE Lists == Seq([id : Nat, name : Texts, type : Types])
<1>1. test \in Seq([title : Texts, questions : Lists])
  BY DEF Tests
<1> HIDE DEF Lists
<1>2. DOMAIN test = 1..Len(test) /\ test[g] \in [title : Texts, questions : Lists]
  BY <1>1, ElementIs
<1>3. test[g].title \in Texts /\ test[g].questions \in Lists
  BY <1>2
<1>4. DOMAIN test[g].questions = 1..Len(test[g].questions)
  BY <1>3, ElementIs DEF Lists
<1>5. QED
  BY <1>2, <1>3, <1>4 DEF Lists

LEMMA PlaceIs ==
  ASSUME NEW test \in Tests, NEW p \in Places(test)
  PROVE  /\ p[1] \in 1..Len(test) /\ p[2] \in 1..Len(test[p[1]].questions)
         /\ p = <<p[1], p[2]>>
         /\ test[p[1]].questions[p[2]] \in [id : Nat, name : Texts, type : Types]
         /\ IdAt(test, p) \in Nat
<1>1. PICK g \in DOMAIN test : p \in {g} \X DOMAIN test[g].questions
  BY DEF Places
<1>2. p[1] = g /\ p[2] \in DOMAIN test[g].questions /\ p = <<p[1], p[2]>>
  BY <1>1
<1>3. g \in 1..Len(test)
  BY GroupsAre
<1>4. /\ test[g].questions \in Seq([id : Nat, name : Texts, type : Types])
      /\ DOMAIN test[g].questions = 1..Len(test[g].questions)
  BY <1>3, GroupIs
<1>5. test[g].questions[p[2]] \in [id : Nat, name : Texts, type : Types]
  BY <1>2, <1>4, ElementIs
<1>6. QED
  BY <1>2, <1>3, <1>4, <1>5 DEF IdAt

LEMMA PlaceOf ==
  ASSUME NEW test \in Tests, NEW g \in 1..Len(test), NEW k \in 1..Len(test[g].questions)
  PROVE  <<g, k>> \in Places(test)
<1>1. g \in DOMAIN test /\ k \in DOMAIN test[g].questions
  BY GroupsAre, GroupIs
<1>2. <<g, k>> \in {g} \X DOMAIN test[g].questions
  BY <1>1
<1>3. QED
  BY <1>1, <1>2 DEF Places

\* Groups with a question are numbered apart.
LEMMA FilledGrows ==
  ASSUME NEW test \in Tests, NEW g \in 1..Len(test), NEW h \in 1..Len(test), g < h, test[h].questions # <<>>
  PROVE  /\ Cardinality(Filled(test, g)) \in Nat /\ Cardinality(Filled(test, h)) \in Nat
         /\ Cardinality(Filled(test, g)) < Cardinality(Filled(test, h))
<1>0. 1 \in Int /\ g \in Int /\ h \in Int
  OBVIOUS
<1>1. IsFiniteSet(1..h) /\ IsFiniteSet(1..g)
  BY <1>0, FS_Interval
<1>2. IsFiniteSet(Filled(test, h)) /\ IsFiniteSet(Filled(test, g))
  BY <1>1, FS_Subset DEF Filled
<1>3. Filled(test, g) \in SUBSET Filled(test, h)
  BY DEF Filled
<1>4. h \in Filled(test, h) /\ h \notin Filled(test, g)
  BY DEF Filled
<1>5. /\ Cardinality(Filled(test, g)) <= Cardinality(Filled(test, h))
      /\ Cardinality(Filled(test, h)) = Cardinality(Filled(test, g)) => Filled(test, h) = Filled(test, g)
  BY <1>2, <1>3, FS_Subset
<1>6. Cardinality(Filled(test, g)) \in Nat /\ Cardinality(Filled(test, h)) \in Nat
  BY <1>2, FS_CardinalityType
<1>7. QED
  BY <1>4, <1>5, <1>6

LEMMA SigIs ==
  ASSUME NEW test \in Tests, NEW p \in Places(test)
  PROVE  /\ SigAt(test, p).id = IdAt(test, p)
         /\ SigAt(test, p).name = test[p[1]].questions[p[2]].name
         /\ SigAt(test, p).type = test[p[1]].questions[p[2]].type
         /\ SigAt(test, p).categoryName = test[p[1]].title
         /\ SigAt(test, p).questionIndex = p[2] /\ p[2] \in Nat
         /\ SigAt(test, p).categoryIndex = Cardinality(Filled(test, p[1]))
         /\ SigAt(test, p).categoryIndex \in Nat
         /\ test[p[1]].questions # <<>>
<1>1. p[1] \in 1..Len(test) /\ p[2] \in 1..Len(test[p[1]].questions)
  BY PlaceIs
<1>2. IsFiniteSet(1..p[1])
  BY <1>1, FS_Interval
<1>3. Cardinality(Filled(test, p[1])) \in Nat
  BY <1>2, FS_Subset, FS_CardinalityType DEF Filled
<1>4. test[p[1]].questions # <<>>
  BY <1>1
<1>5. QED
  BY <1>1, <1>3, <1>4 DEF SigAt, IdAt

LEMMA SigsAreApart ==
  ASSUME NEW test \in Tests, IdsOnce(test)
  PROVE  SigsApart(QuestionSigs(test))
<1>1. ASSUME NEW p \in Places(test), NEW r \in Places(test)
      PROVE  \/ p = r
             \/ Before(SigAt(test, p), SigAt(test, r))
             \/ Before(SigAt(test, r), SigAt(test, p))
  <2>1. /\ p[1] \in 1..Len(test) /\ r[1] \in 1..Len(test)
        /\ p[2] \in Nat /\ r[2] \in Nat /\ p = <<p[1], p[2]>> /\ r = <<r[1], r[2]>>
        /\ test[p[1]].questions # <<>> /\ test[r[1]].questions # <<>>
    BY PlaceIs, SigIs
  <2>2. CASE p[1] < r[1]
    BY <2>1, <2>2, FilledGrows, SigIs DEF Before
  <2>3. CASE r[1] < p[1]
    BY <2>1, <2>3, FilledGrows, SigIs DEF Before
  <2>4. CASE p[1] = r[1]
    <3>1. SigAt(test, p).categoryIndex = SigAt(test, r).categoryIndex
      BY <2>4, SigIs
    <3>2. SigAt(test, p).questionIndex = p[2] /\ SigAt(test, r).questionIndex = r[2]
      BY SigIs
    <3>3. p[2] = r[2] => p = r
      BY <2>1, <2>4
    <3>4. p[2] = r[2] \/ p[2] < r[2] \/ r[2] < p[2]
      BY <2>1
    <3>5. QED
      BY <3>1, <3>2, <3>3, <3>4 DEF Before
  <2>5. QED
    BY <2>1, <2>2, <2>3, <2>4
<1>2. \A s \in QuestionSigs(test) : \E p \in Places(test) : s = SigAt(test, p)
  BY DEF QuestionSigs
<1>3. \A s, r \in QuestionSigs(test) : s.id = r.id => s = r
  BY <1>2, SigIs DEF IdsOnce
<1>4. \A s, r \in QuestionSigs(test) : s = r \/ Before(s, r) \/ Before(r, s)
  BY <1>1, <1>2
<1>5. \A s \in QuestionSigs(test) : s.categoryIndex \in Nat /\ s.questionIndex \in Nat
  BY <1>2, SigIs
<1>6. QED
  BY <1>3, <1>4, <1>5 DEF SigsApart, Before

LEMMA PassIs ==
  ASSUME NEW matched, NEW how, NEW src, NEW target
  PROVE  /\ matched \subseteq Pass(matched, how, src, target)
         /\ \A m \in Pass(matched, how, src, target) : m \in matched \/
              \E s \in src, q \in target :
                m = [from |-> s.id, to |-> q.id, how |-> how] /\ Takes(matched, how, s, q, src, target)
         /\ \A s \in src, q \in target : Takes(matched, how, s, q, src, target) =>
              \E m \in Pass(matched, how, src, target) : m.from = s.id /\ m.to = q.id
<1>1. ASSUME NEW s \in src, NEW q \in target, Takes(matched, how, s, q, src, target)
      PROVE  \E m \in Pass(matched, how, src, target) : m.from = s.id /\ m.to = q.id
  <2>1. <<s, q>> \in {r \in src \X target : Takes(matched, how, r[1], r[2], src, target)}
    BY <1>1
  <2>2. [from |-> s.id, to |-> q.id, how |-> how] \in Pass(matched, how, src, target)
    BY <2>1 DEF Pass
  <2>3. QED
    BY <2>2
<1>2. ASSUME NEW m \in Pass(matched, how, src, target), m \notin matched
      PROVE  \E s \in src, q \in target :
               m = [from |-> s.id, to |-> q.id, how |-> how] /\ Takes(matched, how, s, q, src, target)
  <2>1. PICK p \in {r \in src \X target : Takes(matched, how, r[1], r[2], src, target)} :
          m = [from |-> p[1].id, to |-> p[2].id, how |-> how]
    BY <1>2 DEF Pass
  <2>2. p[1] \in src /\ p[2] \in target
    BY <2>1
  <2>3. QED
    BY <2>1, <2>2
<1>3. matched \subseteq Pass(matched, how, src, target)
  BY DEF Pass
<1>4. QED
  BY <1>1, <1>2, <1>3

\* A pass matches no question twice.
LEMMA PassApart ==
  ASSUME NEW matched, NEW how, NEW src, NEW target,
         PairsApart(matched), SigsApart(src), SigsApart(target)
  PROVE  PairsApart(Pass(matched, how, src, target))
<1>1. SUFFICES ASSUME NEW m \in Pass(matched, how, src, target), NEW n \in Pass(matched, how, src, target),
                      m.from = n.from \/ m.to = n.to
               PROVE  m = n
  BY DEF PairsApart
<1> DEFINE New(x) == \E s \in src, q \in target :
             x = [from |-> s.id, to |-> q.id, how |-> how] /\ Takes(matched, how, s, q, src, target)
<1>2. (m \in matched \/ New(m)) /\ (n \in matched \/ New(n))
  BY PassIs
<1>3. CASE m \in matched /\ n \in matched
  BY <1>1, <1>3 DEF PairsApart
<1>4. ASSUME NEW x \in matched, NEW y, New(y)
      PROVE  x.from # y.from /\ x.to # y.to
  BY <1>4 DEF Takes, Wants, Unmatched
<1>5. CASE New(m) /\ New(n)
  <2>1. PICK s \in src, q \in target :
          m = [from |-> s.id, to |-> q.id, how |-> how] /\ Takes(matched, how, s, q, src, target)
    BY <1>5
  <2>2. PICK r \in src, t \in target :
          n = [from |-> r.id, to |-> t.id, how |-> how] /\ Takes(matched, how, r, t, src, target)
    BY <1>5
  <2>3. CASE m.from = n.from
    <3>1. s = r
      BY <2>1, <2>2, <2>3 DEF SigsApart
    <3>2. {q} = {t}
      BY <2>1, <2>2, <3>1 DEF Takes, Wants
    <3>3. QED
      BY <2>1, <2>2, <3>1, <3>2
  <2>4. CASE m.to = n.to
    <3>1. q = t
      BY <2>1, <2>2, <2>4 DEF SigsApart
    <3>2. ~Before(s, r) /\ ~Before(r, s)
      BY <2>1, <2>2, <3>1 DEF Takes
    <3>3. QED
      BY <2>1, <2>2, <3>1, <3>2 DEF SigsApart
  <2>5. QED
    BY <1>1, <2>3, <2>4
<1> HIDE DEF New
<1>6. QED
  BY <1>1, <1>2, <1>3, <1>4, <1>5

\* A signature and its copy.
Copies(s, c) ==
  /\ c.id = s.id + Shift /\ c.type = s.type /\ c.name = s.name /\ c.categoryName = s.categoryName
  /\ c.categoryIndex = s.categoryIndex /\ c.questionIndex = s.questionIndex

LEMMA ShiftedIs ==
  ASSUME NEW test \in Tests
  PROVE  /\ Shifted(test) \in Tests /\ Places(Shifted(test)) = Places(test)
         /\ \A p \in Places(test) : /\ IdAt(Shifted(test), p) = IdAt(test, p) + Shift
                                    /\ Copies(SigAt(test, p), SigAt(Shifted(test), p))
<1> DEFINE Question == [id : Nat, name : Texts, type : Types]
           list(g) == [k \in DOMAIN test[g].questions |->
                         [id |-> test[g].questions[k].id + Shift,
                          name |-> test[g].questions[k].name, type |-> test[g].questions[k].type]]
<1>1. ASSUME NEW g \in 1..Len(test)
      PROVE  /\ list(g) \in Seq(Question) /\ Len(list(g)) = Len(test[g].questions)
             /\ \A k \in 1..Len(test[g].questions) :
                  /\ list(g)[k].id = test[g].questions[k].id + Shift
                  /\ list(g)[k].name = test[g].questions[k].name
                  /\ list(g)[k].type = test[g].questions[k].type
  <2>1. /\ test[g].questions \in Seq(Question) /\ Len(test[g].questions) \in Nat
        /\ DOMAIN test[g].questions = 1..Len(test[g].questions)
        /\ \A k \in 1..Len(test[g].questions) : test[g].questions[k] \in Question
    BY GroupIs, ElementIs
  <2> DEFINE qs == test[g].questions
  <2>2. Shift \in Nat
    BY MatchingAssumption
  <2>3. /\ list(g) = [k \in 1..Len(qs) |-> [id |-> qs[k].id + Shift, name |-> qs[k].name, type |-> qs[k].type]]
        /\ Len(qs) \in Nat /\ \A k \in 1..Len(qs) : qs[k] \in Question
    BY <2>1
  <2> HIDE DEF qs, list
  <2>4. \A k \in 1..Len(qs) : [id |-> qs[k].id + Shift, name |-> qs[k].name, type |-> qs[k].type] \in Question
    BY <2>2, <2>3
  <2>5. list(g) \in Seq(Question) /\ Len(list(g)) = Len(qs)
    BY <2>3, <2>4
  <2>6. \A k \in 1..Len(qs) : /\ list(g)[k].id = qs[k].id + Shift /\ list(g)[k].name = qs[k].name
                              /\ list(g)[k].type = qs[k].type
    BY <2>3
  <2>7. QED
    BY <2>5, <2>6 DEF qs
<1>2. /\ Len(Shifted(test)) = Len(test) /\ DOMAIN Shifted(test) = 1..Len(test)
      /\ \A g \in 1..Len(test) : Shifted(test)[g] = [title |-> test[g].title, questions |-> list(g)]
  <2>1. Shifted(test) = [g \in 1..Len(test) |-> [title |-> test[g].title, questions |-> list(g)]]
    BY GroupsAre DEF Shifted
  <2> HIDE DEF list
  <2>2. QED
    BY <2>1, GroupsAre
<1>3. \A g \in 1..Len(test) : /\ Shifted(test)[g].title = test[g].title
                              /\ Shifted(test)[g].questions = list(g)
  BY <1>2
<1> HIDE DEF list, Question
<1>4. \A g \in 1..Len(test) : Shifted(test)[g] \in [title : Texts, questions : Seq(Question)]
  BY <1>1, <1>2, GroupIs
<1>5. Shifted(test) \in Tests
  <2> DEFINE Groups == [title : Texts, questions : Seq(Question)]
  <2>1. Shifted(test) = [g \in 1..Len(test) |-> Shifted(test)[g]]
    BY <1>2 DEF Shifted
  <2>2. \A g \in 1..Len(test) : Shifted(test)[g] \in Groups
    BY <1>4
  <2> HIDE DEF Groups
  <2>3. Shifted(test) \in Seq(Groups)
    BY <2>1, <2>2, GroupsAre
  <2>4. QED
    BY <2>3 DEF Groups, Question, Tests
<1>6. \A g \in 1..Len(test) : DOMAIN Shifted(test)[g].questions = DOMAIN test[g].questions
  BY <1>1, <1>3, ElementIs, GroupIs
<1>7. Places(Shifted(test)) = Places(test)
  BY <1>2, <1>6, GroupsAre DEF Places
<1>8. \A g \in 1..Len(test) : Filled(Shifted(test), g) = Filled(test, g)
  <2>1. \A h \in 1..Len(test) : Shifted(test)[h].questions = <<>> <=> test[h].questions = <<>>
    BY <1>1, <1>3, GroupIs, ElementIs
  <2>2. QED
    BY <2>1, GroupsAre DEF Filled
<1>9. ASSUME NEW p \in Places(test)
      PROVE  /\ IdAt(Shifted(test), p) = IdAt(test, p) + Shift
             /\ Copies(SigAt(test, p), SigAt(Shifted(test), p))
  <2>1. p[1] \in 1..Len(test) /\ p[2] \in 1..Len(test[p[1]].questions)
    BY PlaceIs
  <2>2. /\ Shifted(test)[p[1]].questions[p[2]].id = test[p[1]].questions[p[2]].id + Shift
        /\ Shifted(test)[p[1]].questions[p[2]].name = test[p[1]].questions[p[2]].name
        /\ Shifted(test)[p[1]].questions[p[2]].type = test[p[1]].questions[p[2]].type
        /\ Shifted(test)[p[1]].title = test[p[1]].title
    BY <1>1, <1>3, <2>1
  <2>3. QED
    BY <1>8, <2>1, <2>2 DEF IdAt, SigAt, Copies
<1>10. QED
  BY <1>5, <1>7, <1>9

LEMMA CopiesAre ==
  ASSUME NEW test \in Tests
  PROVE  \A s \in QuestionSigs(test) : s.id \in Nat /\ \E c \in QuestionSigs(Shifted(test)) : Copies(s, c)
<1>1. ASSUME NEW p \in Places(test)
      PROVE  SigAt(test, p).id \in Nat /\ \E c \in QuestionSigs(Shifted(test)) : Copies(SigAt(test, p), c)
  BY ShiftedIs, SigIs, PlaceIs DEF QuestionSigs
<1>2. QED
  BY <1>1 DEF QuestionSigs

-----------------------------------------------------------------------------

LEMMA MatchApart ==
  ASSUME NEW src, NEW target, SigsApart(src), SigsApart(target)
  PROVE  PairsApart(MatchQuestions(src, target))
<1> DEFINE P1 == Pass({}, "name", src, target)
           P2 == Pass(P1, "text", src, target)
<1>1. PairsApart({})
  BY DEF PairsApart
<1>2. PairsApart(P1)
  BY <1>1, PassApart
<1> HIDE DEF P1
<1>3. PairsApart(P2)
  BY <1>2, PassApart
<1> HIDE DEF P2
<1>4. PairsApart(Pass(P2, "position", src, target))
  BY <1>3, PassApart
<1>5. QED
  BY <1>4 DEF MatchQuestions, P1, P2

\* Between copies every pass matches a question with its copy.
LEMMA PassCopies ==
  ASSUME NEW matched, NEW how \in {"name", "text", "position"}, NEW src, NEW target,
         SigsApart(target), \A s \in src : s.id \in Nat /\ \E c \in target : Copies(s, c),
         \A m \in matched : m.from \in Nat /\ m.to = m.from + Shift
  PROVE  \A m \in Pass(matched, how, src, target) : m.from \in Nat /\ m.to = m.from + Shift
<1>1. ASSUME NEW s \in src, NEW q \in target, Takes(matched, how, s, q, src, target)
      PROVE  q.id = s.id + Shift
  <2>1. PICK c \in target : Copies(s, c)
    OBVIOUS
  <2>2. Candidates(how, s, target) = {q}
    BY <1>1 DEF Takes, Wants
  <2>3. q \in Candidates(how, s, target)
    BY <2>2
  <2>4. c \in Candidates(how, s, target)
    BY <2>1, <2>3 DEF Candidates, Copies
  <2>5. c = q
    BY <2>2, <2>4
  <2>6. QED
    BY <2>1, <2>5 DEF Copies
<1>2. ASSUME NEW m \in Pass(matched, how, src, target)
      PROVE  m.from \in Nat /\ m.to = m.from + Shift
  <2>1. CASE m \in matched
    BY <2>1
  <2>2. CASE \E s \in src, q \in target :
          m = [from |-> s.id, to |-> q.id, how |-> how] /\ Takes(matched, how, s, q, src, target)
    BY <1>1, <2>2
  <2>3. QED
    BY <2>1, <2>2, PassIs
<1>3. QED
  BY <1>2

LEMMA AllCopied ==
  ASSUME NEW src, NEW target, SigsApart(src), SigsApart(target),
         \A s \in src : s.id \in Nat /\ \E c \in target : Copies(s, c)
  PROVE  /\ \A m \in MatchQuestions(src, target) : m.to = m.from + Shift
         /\ \A s \in src : \E m \in MatchQuestions(src, target) : m.from = s.id
<1> DEFINE P1 == Pass({}, "name", src, target)
           P2 == Pass(P1, "text", src, target)
           P3 == Pass(P2, "position", src, target)
<1>1. \A m \in P1 : m.from \in Nat /\ m.to = m.from + Shift
  <2> DEFINE P0 == {}
  <2>1. \A m \in P0 : m.from \in Nat /\ m.to = m.from + Shift
    OBVIOUS
  <2>2. P1 = Pass(P0, "name", src, target)
    OBVIOUS
  <2> HIDE DEF P0, P1
  <2>3. QED
    BY <2>1, <2>2, PassCopies
<1> HIDE DEF P1
<1>2. \A m \in P2 : m.from \in Nat /\ m.to = m.from + Shift
  BY <1>1, PassCopies
<1> HIDE DEF P2
<1>3. \A m \in P3 : m.from \in Nat /\ m.to = m.from + Shift
  BY <1>2, PassCopies
<1>4. ASSUME NEW s \in src
      PROVE  \E m \in P3 : m.from = s.id
  <2>1. CASE \E m \in P2 : m.from = s.id
    BY <2>1, PassIs
  <2>2. CASE \A m \in P2 : m.from # s.id
    <3>1. PICK c \in target : Copies(s, c)
      OBVIOUS
    <3>2. Candidates("position", s, target) = {c}
      BY <3>1 DEF Candidates, Copies, SigsApart
    <3>3. \A m \in P2 : m.to # c.id
      BY <1>2, <2>2, <3>1, MatchingAssumption DEF Copies
    <3>4. Wants(P2, "position", s, c, target)
      BY <2>2, <3>1, <3>2, <3>3 DEF Wants, Unmatched, Copies
    <3>5. ASSUME NEW r \in src, Wants(P2, "position", r, c, target)
          PROVE  r = s
      <4>1. c \in Candidates("position", r, target)
        BY <3>5 DEF Wants
      <4>2. QED
        BY <3>1, <4>1 DEF Candidates, Copies, SigsApart
    <3>6. Takes(P2, "position", s, c, src, target)
      BY <3>4, <3>5 DEF Takes, SigsApart
    <3>7. QED
      BY <3>6, PassIs
  <2>3. QED
    BY <2>1, <2>2
<1> HIDE DEF P3
<1>5. QED
  BY <1>3, <1>4 DEF MatchQuestions, P1, P2, P3

LEMMA OnlyOneMatched ==
  ASSUME NEW src, NEW target, SigsApart(src), NEW s \in src, NEW q \in target,
         s.name # Untitled,
         {r \in target : r.name = s.name /\ r.categoryName = s.categoryName} = {q},
         \A r \in src : r.name = s.name /\ r.categoryName = s.categoryName => r = s
  PROVE  \E m \in MatchQuestions(src, target) : m.from = s.id /\ m.to = q.id
<1>1. Candidates("name", s, target) = {q}
  BY DEF Candidates
<1>2. ASSUME NEW r \in src, Wants({}, "name", r, q, target)
      PROVE  r = s
  <2>1. q \in Candidates("name", r, target)
    BY <1>2 DEF Wants
  <2>2. QED
    BY <2>1 DEF Candidates
<1>3. Takes({}, "name", s, q, src, target)
  BY <1>1, <1>2 DEF Takes, Wants, Unmatched, SigsApart
<1>4. \E m \in Pass({}, "name", src, target) : m.from = s.id /\ m.to = q.id
  BY <1>3, PassIs
<1>5. QED
  BY <1>4, PassIs DEF MatchQuestions

-----------------------------------------------------------------------------
(* Edits                                                                   *)

LEMMA RemoveAtIs ==
  ASSUME NEW S, NEW l \in Seq(S), NEW k \in 1..Len(l)
  PROVE  /\ Seqs!RemoveAt(l, k) \in Seq(S) /\ Len(Seqs!RemoveAt(l, k)) = Len(l) - 1
         /\ \A j \in 1..Len(l) - 1 : Seqs!RemoveAt(l, k)[j] = l[IF j < k THEN j ELSE j + 1]
<1> DEFINE A == SubSeq(l, 1, k - 1)
           B == SubSeq(l, k + 1, Len(l))
<1>0. Len(l) \in Nat /\ k \in Int
  OBVIOUS
<1>1. A \in Seq(S) /\ Len(A) = k - 1 /\ \A i \in 1..k - 1 : A[i] = l[i]
  BY <1>0, SubSeqProperties
<1>2. B \in Seq(S) /\ Len(B) = Len(l) - k /\ \A i \in 1..Len(l) - k : B[i] = l[k + i]
  BY <1>0, SubSeqProperties
<1> HIDE DEF A, B
<1>3. /\ A \o B \in Seq(S) /\ Len(A \o B) = Len(l) - 1
      /\ \A j \in 1..Len(l) - 1 : (A \o B)[j] = IF j <= k - 1 THEN A[j] ELSE B[j - (k - 1)]
  <2>1. /\ A \o B \in Seq(S) /\ Len(A \o B) = Len(A) + Len(B)
        /\ \A j \in 1..Len(A) + Len(B) : (A \o B)[j] = IF j <= Len(A) THEN A[j] ELSE B[j - Len(A)]
    BY <1>1, <1>2, ConcatProperties
  <2>2. Len(A) + Len(B) = Len(l) - 1
    BY <1>0, <1>1, <1>2
  <2>3. QED
    BY <1>1, <2>1, <2>2
<1>4. ASSUME NEW j \in 1..Len(l) - 1
      PROVE  (A \o B)[j] = l[IF j < k THEN j ELSE j + 1]
  <2>1. CASE j < k
    BY <1>0, <1>1, <1>3, <2>1
  <2>2. CASE ~(j < k)
    <3>1. j - (k - 1) \in 1..Len(l) - k /\ k + (j - (k - 1)) = j + 1
      BY <1>0, <2>2
    <3>2. QED
      BY <1>0, <1>2, <1>3, <2>2, <3>1
  <2>3. QED
    BY <2>1, <2>2
<1>5. QED
  BY <1>3, <1>4 DEF Seqs!RemoveAt, A, B

LEMMA InsertAtIs ==
  ASSUME NEW S, NEW l \in Seq(S), NEW k \in 1..Len(l) + 1, NEW e \in S
  PROVE  /\ Seqs!InsertAt(l, k, e) \in Seq(S) /\ Len(Seqs!InsertAt(l, k, e)) = Len(l) + 1
         /\ \A j \in 1..Len(l) + 1 :
              Seqs!InsertAt(l, k, e)[j] = IF j < k THEN l[j] ELSE IF j = k THEN e ELSE l[j - 1]
<1> DEFINE A == SubSeq(l, 1, k - 1)
           B == SubSeq(l, k, Len(l))
<1>0. Len(l) \in Nat /\ k \in Int
  OBVIOUS
<1>1. A \in Seq(S) /\ Len(A) = k - 1 /\ \A i \in 1..k - 1 : A[i] = l[i]
  BY <1>0, SubSeqProperties
<1>2. B \in Seq(S) /\ Len(B) = Len(l) - k + 1 /\ \A i \in 1..Len(l) - k + 1 : B[i] = l[k + i - 1]
  BY <1>0, SubSeqProperties
<1> HIDE DEF A, B
<1>3. <<e>> \in Seq(S) /\ Len(<<e>>) = 1 /\ <<e>>[1] = e
  OBVIOUS
<1>4. /\ A \o <<e>> \in Seq(S) /\ Len(A \o <<e>>) = k
      /\ \A j \in 1..k : (A \o <<e>>)[j] = IF j <= k - 1 THEN A[j] ELSE <<e>>[j - (k - 1)]
  BY <1>0, <1>1, <1>3, ConcatProperties
<1>5. /\ (A \o <<e>>) \o B \in Seq(S) /\ Len((A \o <<e>>) \o B) = Len(l) + 1
      /\ \A j \in 1..Len(l) + 1 :
           ((A \o <<e>>) \o B)[j] = IF j <= k THEN (A \o <<e>>)[j] ELSE B[j - k]
  <2> DEFINE C == A \o <<e>>
  <2>1. C \in Seq(S) /\ Len(C) = k
    BY <1>4
  <2> HIDE DEF C
  <2>2. /\ C \o B \in Seq(S) /\ Len(C \o B) = Len(C) + Len(B)
        /\ \A j \in 1..Len(C) + Len(B) : (C \o B)[j] = IF j <= Len(C) THEN C[j] ELSE B[j - Len(C)]
    BY <1>2, <2>1, ConcatProperties
  <2>3. Len(C) + Len(B) = Len(l) + 1
    BY <1>0, <1>2, <2>1
  <2>4. /\ C \o B \in Seq(S) /\ Len(C \o B) = Len(l) + 1
        /\ \A j \in 1..Len(l) + 1 : (C \o B)[j] = IF j <= k THEN C[j] ELSE B[j - k]
    BY <2>1, <2>2, <2>3
  <2>5. QED
    BY <2>4 DEF C
<1>6. ASSUME NEW j \in 1..Len(l) + 1
      PROVE  ((A \o <<e>>) \o B)[j] = IF j < k THEN l[j] ELSE IF j = k THEN e ELSE l[j - 1]
  <2>1. CASE j < k
    BY <1>0, <1>1, <1>4, <1>5, <2>1
  <2>2. CASE j = k
    BY <1>0, <1>3, <1>4, <1>5, <2>2
  <2>3. CASE j > k
    <3>1. j - k \in 1..Len(l) - k + 1 /\ k + (j - k) - 1 = j - 1
      BY <1>0, <2>3
    <3>2. QED
      BY <1>0, <1>2, <1>5, <2>3, <3>1
  <2>4. j \in Int /\ (j < k \/ j = k \/ j > k)
    BY <1>0
  <2>5. QED
    BY <2>1, <2>2, <2>3, <2>4
<1>7. QED
  BY <1>5, <1>6 DEF Seqs!InsertAt, A, B

LEMMA ReverseIs ==
  ASSUME NEW S, NEW l \in Seq(S)
  PROVE  /\ Seqs!Reverse(l) \in Seq(S) /\ Len(Seqs!Reverse(l)) = Len(l)
         /\ \A j \in 1..Len(l) : Seqs!Reverse(l)[j] = l[Len(l) - j + 1]
BY DEF Seqs!Reverse

Question == [id : Nat, name : Texts, type : Types]
Group == [title : Texts, questions : Seq(Question)]

\* The questions a list has of another, by f, and a new one.
FromList(old, list, f, n) ==
  /\ \A k \in 1..Len(list) : list[k].id = n \/ (f[k] \in 1..Len(old) /\ list[k].id = old[f[k]].id)
  /\ \A j, k \in 1..Len(list) : j = k \/ (f[j] # f[k] /\ ~(list[j].id = n /\ list[k].id = n))

LEMMA GroupChanged ==
  ASSUME NEW test \in Tests, NEW g \in 1..Len(test), NEW group \in Group
  PROVE  /\ [test EXCEPT ![g] = group] \in Tests
         /\ Len([test EXCEPT ![g] = group]) = Len(test)
         /\ [test EXCEPT ![g] = group][g] = group
         /\ \A h \in 1..Len(test) : h # g => [test EXCEPT ![g] = group][h] = test[h]
<1>1. test \in Seq(Group) /\ Tests = Seq(Group)
  BY DEF Tests, Group, Question
<1>2. [test EXCEPT ![g] = group] \in Seq(Group)
  BY <1>1
<1>3. QED
  BY <1>1, <1>2

\* One group of a test gets another title or other questions: those it had, each
\* at most once, and at most one new one.
LEMMA GroupEdited ==
  ASSUME NEW test, NEW n \in Nat, Numbered(test, n), NEW g \in 1..Len(test), NEW group \in Group,
         NEW f, FromList(test[g].questions, group.questions, f, n)
  PROVE  Numbered([test EXCEPT ![g] = group], n + 1)
<1> USE DEF FromList
<1> DEFINE new == [test EXCEPT ![g] = group]
<1>1. test \in Tests /\ IdsOnce(test) /\ \A p \in Places(test) : IdAt(test, p) \in Nat /\ IdAt(test, p) < n
  BY PlaceIs DEF Numbered
<1>2. /\ new \in Tests /\ Len(new) = Len(test) /\ new[g] = group
      /\ \A h \in 1..Len(test) : h # g => new[h] = test[h]
  BY <1>1, GroupChanged
<1> HIDE DEF new
<1> DEFINE old(p) == IF p[1] = g THEN <<g, f[p[2]]>> ELSE p
<1>3. ASSUME NEW p \in Places(new)
      PROVE  /\ p = <<p[1], p[2]>> /\ p[1] \in 1..Len(test)
             /\ p[1] = g => p[2] \in 1..Len(group.questions) /\ IdAt(new, p) = group.questions[p[2]].id
             /\ \/ p[1] = g /\ IdAt(new, p) = n
                \/ old(p) \in Places(test) /\ IdAt(new, p) = IdAt(test, old(p))
  <2>1. p = <<p[1], p[2]>> /\ p[1] \in 1..Len(test) /\ p[2] \in 1..Len(new[p[1]].questions)
    BY <1>2, PlaceIs
  <2>2. CASE p[1] = g
    <3>1. p[2] \in 1..Len(group.questions) /\ IdAt(new, p) = group.questions[p[2]].id
      BY <1>2, <2>1, <2>2 DEF IdAt
    <3>2. CASE group.questions[p[2]].id = n
      BY <2>1, <2>2, <3>1, <3>2
    <3>3. CASE f[p[2]] \in 1..Len(test[g].questions) /\ group.questions[p[2]].id = test[g].questions[f[p[2]]].id
      <4>1. old(p) = <<g, f[p[2]]>>
        BY <2>2
      <4>2. <<g, f[p[2]]>> \in Places(test)
        BY <1>1, <3>3, PlaceOf
      <4>3. IdAt(test, <<g, f[p[2]]>>) = test[g].questions[f[p[2]]].id
        BY DEF IdAt
      <4>4. QED
        BY <2>1, <2>2, <3>1, <3>3, <4>1, <4>2, <4>3
    <3>4. QED
      BY <3>1, <3>2, <3>3
  <2>3. CASE p[1] # g
    <3>1. new[p[1]] = test[p[1]] /\ old(p) = p
      BY <1>2, <2>1, <2>3
    <3>2. p \in Places(test)
      BY <1>1, <2>1, <3>1, PlaceOf
    <3>3. QED
      BY <2>1, <2>3, <3>1, <3>2 DEF IdAt
  <2>4. QED
    BY <2>2, <2>3
<1>4. ASSUME NEW p \in Places(new)
      PROVE  IdAt(new, p) < n + 1 /\ (IdAt(new, p) = n => p[1] = g)
  <2>1. (p[1] = g /\ IdAt(new, p) = n) \/ \E o \in Places(test) : IdAt(new, p) = IdAt(test, o)
    BY <1>3
  <2>2. QED
    BY <1>1, <2>1
<1>5. ASSUME NEW p \in Places(new), NEW r \in Places(new), IdAt(new, p) = IdAt(new, r)
      PROVE  p = r
  <2>1. CASE IdAt(new, p) = n
    <3>1. p[1] = g /\ r[1] = g
      BY <1>4, <1>5, <2>1
    <3>2. /\ p[2] \in 1..Len(group.questions) /\ group.questions[p[2]].id = n
          /\ r[2] \in 1..Len(group.questions) /\ group.questions[r[2]].id = n
      BY <1>3, <1>5, <2>1, <3>1
    <3>2a. p[2] = r[2]
      BY <3>2
    <3>3. p = <<p[1], p[2]>> /\ r = <<r[1], r[2]>>
      BY <1>3
    <3>4. QED
      BY <3>1, <3>2a, <3>3
  <2>2. CASE IdAt(new, p) # n
    <3>1. old(p) \in Places(test) /\ old(r) \in Places(test) /\ IdAt(test, old(p)) = IdAt(test, old(r))
      BY <1>3, <1>5, <2>2
    <3>2. old(p) = old(r)
      BY <1>1, <3>1 DEF IdsOnce
    <3>3. p[1] = r[1]
      BY <3>2
    <3>4. p = <<p[1], p[2]>> /\ r = <<r[1], r[2]>>
      BY <1>3
    <3>5. CASE p[1] = g
      <4>1. f[p[2]] = f[r[2]]
        BY <3>2, <3>3, <3>5
      <4>2. p[2] \in 1..Len(group.questions) /\ r[2] \in 1..Len(group.questions)
        BY <1>3, <3>3, <3>5
      <4>3. p[2] = r[2]
        BY <4>1, <4>2
      <4>4. QED
        BY <3>3, <3>4, <4>3
    <3>6. CASE p[1] # g
      BY <3>2, <3>3, <3>6
    <3>7. QED
      BY <3>5, <3>6
  <2>3. QED
    BY <2>1, <2>2
<1>6. Numbered(new, n + 1)
  BY <1>2, <1>4, <1>5 DEF Numbered, IdsOnce
<1>7. QED
  BY <1>6 DEF new

LEMMA TestReversed ==
  ASSUME NEW test, NEW n \in Nat, Numbered(test, n)
  PROVE  Numbered(Seqs!Reverse(test), n + 1)
<1> DEFINE new == Seqs!Reverse(test)
           old(p) == <<Len(test) - p[1] + 1, p[2]>>
<1>1. test \in Tests /\ IdsOnce(test) /\ \A p \in Places(test) : IdAt(test, p) \in Nat /\ IdAt(test, p) < n
  BY PlaceIs DEF Numbered
<1>2. Tests = Seq(Group)
  BY DEF Tests, Group, Question
<1>3. /\ new \in Tests /\ Len(new) = Len(test) /\ Len(test) \in Nat
      /\ \A g \in 1..Len(test) : new[g] = test[Len(test) - g + 1]
  BY <1>1, <1>2, ReverseIs, GroupsAre
<1> HIDE DEF new
<1>4. ASSUME NEW p \in Places(new)
      PROVE  /\ p = <<p[1], p[2]>> /\ p[1] \in 1..Len(test) /\ p[2] \in Nat
             /\ old(p) \in Places(test) /\ IdAt(new, p) = IdAt(test, old(p))
  <2>1. p = <<p[1], p[2]>> /\ p[1] \in 1..Len(test) /\ p[2] \in 1..Len(new[p[1]].questions)
    BY <1>3, PlaceIs
  <2>2. Len(test) - p[1] + 1 \in 1..Len(test) /\ new[p[1]] = test[Len(test) - p[1] + 1]
    BY <1>3, <2>1
  <2>3. old(p) \in Places(test)
    BY <1>1, <2>1, <2>2, PlaceOf
  <2>4. IdAt(new, p) = IdAt(test, old(p))
    BY <2>2 DEF IdAt
  <2>5. QED
    BY <2>1, <2>3, <2>4
<1>5. \A p, r \in Places(new) : IdAt(new, p) = IdAt(new, r) => p = r
  <2>1. SUFFICES ASSUME NEW p \in Places(new), NEW r \in Places(new), IdAt(new, p) = IdAt(new, r)
                 PROVE  p = r
    OBVIOUS
  <2>2. old(p) = old(r)
    BY <1>1, <1>4, <2>1 DEF IdsOnce
  <2>3. Len(test) - p[1] + 1 = Len(test) - r[1] + 1 /\ p[2] = r[2]
    BY <2>2
  <2>4. p[1] \in 1..Len(test) /\ r[1] \in 1..Len(test) /\ p = <<p[1], p[2]>> /\ r = <<r[1], r[2]>>
    BY <1>4
  <2>5. p[1] = r[1]
    BY <1>3, <2>3, <2>4
  <2>6. QED
    BY <2>3, <2>4, <2>5
<1>6. \A p \in Places(new) : IdAt(new, p) < n + 1
  <2>1. \A p \in Places(new) : \E o \in Places(test) : IdAt(new, p) = IdAt(test, o)
    BY <1>4
  <2>2. QED
    BY <1>1, <2>1
<1>7. QED
  BY <1>3, <1>5, <1>6 DEF Numbered, IdsOnce, new

LEMMA DeepFieldChanged ==
  ASSUME NEW f, NEW g \in DOMAIN f, NEW k, NEW v
  PROVE  /\ [f EXCEPT ![g].questions[k].name = v]
               = [f EXCEPT ![g].questions = [f[g].questions EXCEPT ![k].name = v]]
         /\ [f EXCEPT ![g].questions[k].type = v]
               = [f EXCEPT ![g].questions = [f[g].questions EXCEPT ![k].type = v]]
OBVIOUS

LEMMA QuestionChanged ==
  ASSUME NEW l \in Seq(Question), NEW k \in 1..Len(l), NEW t \in Texts, NEW y \in Types
  PROVE  /\ [l EXCEPT ![k].name = t] \in Seq(Question)
         /\ Len([l EXCEPT ![k].name = t]) = Len(l)
         /\ \A j \in 1..Len(l) : [l EXCEPT ![k].name = t][j].id = l[j].id
         /\ [l EXCEPT ![k].type = y] \in Seq(Question)
         /\ Len([l EXCEPT ![k].type = y]) = Len(l)
         /\ \A j \in 1..Len(l) : [l EXCEPT ![k].type = y][j].id = l[j].id
<1> DEFINE q == l[k]
           named == [id |-> q.id, name |-> t, type |-> q.type]
           typed == [id |-> q.id, name |-> q.name, type |-> y]
<1>1. q \in Question /\ DOMAIN l = 1..Len(l) /\ Len(l) \in Nat
  BY ElementIs
<1>2. /\ [l EXCEPT ![k].name = t] = [l EXCEPT ![k] = [l[k] EXCEPT !.name = t]]
      /\ [l EXCEPT ![k].type = y] = [l EXCEPT ![k] = [l[k] EXCEPT !.type = y]]
  OBVIOUS
<1>3. [l[k] EXCEPT !.name = t] = named /\ [l[k] EXCEPT !.type = y] = typed
  BY <1>1 DEF Question
<1>4. named \in Question /\ typed \in Question /\ named.id = l[k].id /\ typed.id = l[k].id
  BY <1>1 DEF Question
<1> HIDE DEF q, named, typed
<1>5. ASSUME NEW e \in Question, e.id = l[k].id
      PROVE  /\ [l EXCEPT ![k] = e] \in Seq(Question) /\ Len([l EXCEPT ![k] = e]) = Len(l)
             /\ \A j \in 1..Len(l) : [l EXCEPT ![k] = e][j].id = l[j].id
  BY <1>1, <1>5
<1>6. QED
  BY <1>2, <1>3, <1>4, <1>5

\* The questions of one group are replaced.
LEMMA QuestionsEdited ==
  ASSUME NEW test, NEW n \in Nat, Numbered(test, n), NEW g \in 1..Len(test),
         NEW list \in Seq(Question), NEW f, FromList(test[g].questions, list, f, n)
  PROVE  Numbered([test EXCEPT ![g].questions = list], n + 1)
<1> DEFINE group == [title |-> test[g].title, questions |-> list]
<1>1. /\ test \in Seq(Group) /\ g \in DOMAIN test
      /\ test[g] \in [title : Texts, questions : Seq(Question)] /\ test[g].title \in Texts
  <2>1. test \in Seq(Group)
    BY DEF Numbered, Tests, Group, Question
  <2>2. g \in DOMAIN test /\ test[g] \in Group
    BY <2>1, ElementIs
  <2>3. test[g] \in [title : Texts, questions : Seq(Question)]
    BY <2>2 DEF Group
  <2>4. QED
    BY <2>1, <2>2, <2>3
<1>2. [test EXCEPT ![g].questions = list] = [test EXCEPT ![g] = group]
  <2>1. [test EXCEPT ![g].questions = list] = [test EXCEPT ![g] = [test[g] EXCEPT !.questions = list]]
    OBVIOUS
  <2>2. [test[g] EXCEPT !.questions = list] = group
    BY <1>1
  <2>3. QED
    BY <2>1, <2>2
<1>3. group \in Group
  BY <1>1 DEF Group
<1>4. group.questions = list
  OBVIOUS
<1> HIDE DEF group
<1>5. Numbered([test EXCEPT ![g] = group], n + 1)
  BY <1>3, <1>4, GroupEdited
<1>6. QED
  BY <1>2, <1>5

\* What one edit needs of the group it changes.
LEMMA GroupFacts ==
  ASSUME NEW test, NEW n \in Nat, Numbered(test, n), NEW g \in DOMAIN test
  PROVE  /\ g \in 1..Len(test) /\ test[g] \in [title : Texts, questions : Seq(Question)]
         /\ test[g].questions \in Seq(Question) /\ Len(test[g].questions) \in Nat
         /\ DOMAIN test[g].questions = 1..Len(test[g].questions)
         /\ \A j \in 1..Len(test[g].questions) :
              test[g].questions[j].id \in Nat /\ test[g].questions[j].id < n
<1>1. test \in Tests /\ g \in 1..Len(test)
  BY GroupsAre DEF Numbered
<1>2. test \in Seq(Group)
  BY <1>1 DEF Tests, Group, Question
<1>3. test[g] \in Group
  BY <1>1, <1>2, ElementIs
<1>4. test[g] \in [title : Texts, questions : Seq(Question)] /\ test[g].questions \in Seq(Question)
  BY <1>3 DEF Group
<1>5. Len(test[g].questions) \in Nat /\ DOMAIN test[g].questions = 1..Len(test[g].questions)
  BY <1>4, ElementIs
<1>6. \A j \in 1..Len(test[g].questions) : test[g].questions[j].id \in Nat /\ test[g].questions[j].id < n
  <2>1. \A j \in 1..Len(test[g].questions) :
          <<g, j>> \in Places(test) /\ IdAt(test, <<g, j>>) = test[g].questions[j].id
    BY <1>1, PlaceOf DEF IdAt
  <2>2. \A p \in Places(test) : IdAt(test, p) \in Nat /\ IdAt(test, p) < n
    BY <1>1, PlaceIs DEF Numbered
  <2>3. QED
    BY <2>1, <2>2
<1>7. QED
  BY <1>1, <1>4, <1>5, <1>6

LEMMA SameIds ==
  ASSUME NEW test, NEW n \in Nat, Numbered(test, n), NEW g \in DOMAIN test,
         NEW list \in Seq(Question), Len(list) = Len(test[g].questions),
         \A j \in 1..Len(list) : list[j].id = test[g].questions[j].id
  PROVE  Numbered([test EXCEPT ![g].questions = list], n + 1)
<1> DEFINE one == [k \in 1..Len(list) |-> k]
<1>1. \A j \in 1..Len(list) : one[j] = j
  OBVIOUS
<1> HIDE DEF one
<1>2. g \in 1..Len(test) /\ \A j \in 1..Len(list) : list[j].id \in Nat /\ list[j].id < n
  BY GroupFacts
<1>3. FromList(test[g].questions, list, one, n)
  BY <1>1, <1>2 DEF FromList
<1>4. QED
  BY <1>2, <1>3, QuestionsEdited

LEMMA TitleChanged ==
  ASSUME NEW test, NEW n \in Nat, Numbered(test, n), NEW g \in DOMAIN test, NEW t \in Texts
  PROVE  Numbered([test EXCEPT ![g].title = t], n + 1)
<1> DEFINE list == test[g].questions
           group == [title |-> t, questions |-> list]
           one == [k \in 1..Len(list) |-> k]
<1>1. /\ g \in 1..Len(test) /\ test[g] \in [title : Texts, questions : Seq(Question)]
      /\ list \in Seq(Question)
      /\ \A j \in 1..Len(list) : list[j].id \in Nat /\ list[j].id < n
  BY GroupFacts
<1>2. [test EXCEPT ![g].title = t] = [test EXCEPT ![g] = group]
  <2>1. [test EXCEPT ![g].title = t] = [test EXCEPT ![g] = [test[g] EXCEPT !.title = t]]
    OBVIOUS
  <2>2. [test[g] EXCEPT !.title = t] = group
    BY <1>1
  <2>3. QED
    BY <2>1, <2>2
<1>3. group \in Group
  BY <1>1 DEF Group
<1>4. group.questions = test[g].questions /\ \A j \in 1..Len(test[g].questions) : one[j] = j
  OBVIOUS
<1> HIDE DEF group, one
<1>5. FromList(test[g].questions, group.questions, one, n)
  BY <1>1, <1>4 DEF FromList
<1>6. Numbered([test EXCEPT ![g] = group], n + 1)
  BY <1>1, <1>3, <1>5, GroupEdited
<1>7. QED
  BY <1>2, <1>6

LEMMA QuestionRewritten ==
  ASSUME NEW test, NEW n \in Nat, Numbered(test, n), NEW g \in DOMAIN test,
         NEW k \in DOMAIN test[g].questions, NEW t \in Texts, NEW y \in Types
  PROVE  /\ Numbered([test EXCEPT ![g].questions[k].name = t], n + 1)
         /\ Numbered([test EXCEPT ![g].questions[k].type = y], n + 1)
<1> DEFINE list == test[g].questions
           named == [list EXCEPT ![k].name = t]
           typed == [list EXCEPT ![k].type = y]
<1>1. list \in Seq(Question) /\ k \in 1..Len(list)
  BY GroupFacts
<1>2. /\ named \in Seq(Question) /\ Len(named) = Len(list)
      /\ \A j \in 1..Len(list) : named[j].id = list[j].id
      /\ typed \in Seq(Question) /\ Len(typed) = Len(list)
      /\ \A j \in 1..Len(list) : typed[j].id = list[j].id
  BY <1>1, QuestionChanged
<1>3. /\ [test EXCEPT ![g].questions[k].name = t]
             = [test EXCEPT ![g].questions = [test[g].questions EXCEPT ![k].name = t]]
      /\ [test EXCEPT ![g].questions[k].type = y]
             = [test EXCEPT ![g].questions = [test[g].questions EXCEPT ![k].type = y]]
  BY DeepFieldChanged
<1> HIDE DEF named, typed
<1>4. Numbered([test EXCEPT ![g].questions = named], n + 1) /\ Numbered([test EXCEPT ![g].questions = typed], n + 1)
  BY <1>2, SameIds
<1>5. QED
  BY <1>3, <1>4 DEF named, typed

LEMMA QuestionRemoved ==
  ASSUME NEW test, NEW n \in Nat, Numbered(test, n), NEW g \in DOMAIN test,
         NEW k \in DOMAIN test[g].questions
  PROVE  Numbered([test EXCEPT ![g].questions = Seqs!RemoveAt(@, k)], n + 1)
<1> DEFINE list == test[g].questions
           H(l) == Seqs!RemoveAt(l, k)
           new == Seqs!RemoveAt(list, k)
           f == [j \in 1..Len(list) - 1 |-> IF j < k THEN j ELSE j + 1]
<1>1. /\ g \in 1..Len(test) /\ list \in Seq(Question) /\ k \in 1..Len(list) /\ Len(list) \in Nat
      /\ \A j \in 1..Len(list) : list[j].id \in Nat /\ list[j].id < n
  BY GroupFacts
<1>2. [test EXCEPT ![g].questions = Seqs!RemoveAt(@, k)] = [test EXCEPT ![g].questions = new]
  <2> HIDE DEF H
  <2>1. [test EXCEPT ![g].questions = H(@)] = [test EXCEPT ![g].questions = H(test[g].questions)]
    OBVIOUS
  <2>2. QED
    BY <2>1 DEF H
<1>3. /\ new \in Seq(Question) /\ Len(new) = Len(list) - 1
      /\ \A j \in 1..Len(list) - 1 : new[j] = list[IF j < k THEN j ELSE j + 1]
  BY <1>1, RemoveAtIs
<1> DEFINE m == Len(list)
<1>4. m \in Nat /\ k \in 1..m /\ \A j \in 1..m - 1 : f[j] = IF j < k THEN j ELSE j + 1
  BY <1>1
<1> HIDE DEF new, f, m
<1>5. (\A j \in 1..m - 1 : f[j] \in 1..m) /\ \A i, j \in 1..m - 1 : f[i] = f[j] => i = j
  BY <1>4
<1>6. Len(new) = m - 1 /\ \A j \in 1..m - 1 : new[j] = list[f[j]]
  BY <1>3, <1>4 DEF m
<1>7. \A j \in 1..Len(new) : f[j] \in 1..Len(list) /\ new[j].id = list[f[j]].id
  BY <1>5, <1>6 DEF m
<1>8. \A i, j \in 1..Len(new) : i = j \/ (f[i] # f[j] /\ ~(new[i].id = n /\ new[j].id = n))
  <2>1. \A j \in 1..Len(new) : new[j].id \in Nat /\ new[j].id < n
    BY <1>1, <1>7
  <2>2. QED
    BY <1>5, <1>6, <2>1
<1>9. Numbered([test EXCEPT ![g].questions = new], n + 1)
  <2>1. FromList(test[g].questions, new, f, n)
    BY <1>7, <1>8 DEF FromList
  <2>2. QED
    BY <1>1, <1>3, <2>1, QuestionsEdited
<1>10. QED
  BY <1>2, <1>9

LEMMA QuestionAdded ==
  ASSUME NEW test, NEW n \in Nat, Numbered(test, n), NEW g \in DOMAIN test,
         NEW k \in 1..Len(test[g].questions) + 1, NEW e \in Question, e.id = n
  PROVE  Numbered([test EXCEPT ![g].questions = Seqs!InsertAt(@, k, e)], n + 1)
<1> DEFINE list == test[g].questions
           H(l) == Seqs!InsertAt(l, k, e)
           new == Seqs!InsertAt(list, k, e)
           f == [j \in 1..Len(list) + 1 |-> IF j < k THEN j ELSE IF j = k THEN 0 ELSE j - 1]
<1>1. /\ g \in 1..Len(test) /\ list \in Seq(Question) /\ Len(list) \in Nat
      /\ \A j \in 1..Len(list) : list[j].id \in Nat /\ list[j].id < n
  BY GroupFacts
<1>2. [test EXCEPT ![g].questions = Seqs!InsertAt(@, k, e)] = [test EXCEPT ![g].questions = new]
  <2> HIDE DEF H
  <2>1. [test EXCEPT ![g].questions = H(@)] = [test EXCEPT ![g].questions = H(test[g].questions)]
    OBVIOUS
  <2>2. QED
    BY <2>1 DEF H
<1>3. /\ new \in Seq(Question) /\ Len(new) = Len(list) + 1
      /\ \A j \in 1..Len(list) + 1 : new[j] = IF j < k THEN list[j] ELSE IF j = k THEN e ELSE list[j - 1]
  <2>1. PICK l : l = list
    OBVIOUS
  <2>2. l \in Seq(Question) /\ k \in 1..Len(l) + 1
    BY <1>1, <2>1
  <2>3. /\ Seqs!InsertAt(l, k, e) \in Seq(Question) /\ Len(Seqs!InsertAt(l, k, e)) = Len(l) + 1
        /\ \A j \in 1..Len(l) + 1 :
             Seqs!InsertAt(l, k, e)[j] = IF j < k THEN l[j] ELSE IF j = k THEN e ELSE l[j - 1]
    BY <2>2, InsertAtIs
  <2>4. QED
    BY <2>1, <2>3
<1> DEFINE m == Len(list)
<1>4. /\ m \in Nat /\ k \in 1..m + 1
      /\ \A j \in 1..m + 1 : f[j] = IF j < k THEN j ELSE IF j = k THEN 0 ELSE j - 1
  BY <1>1
<1> HIDE DEF new, f, m
<1>5. /\ \A j \in 1..m + 1 : j # k => f[j] \in 1..m /\ f[j] = IF j < k THEN j ELSE j - 1
      /\ \A i, j \in 1..m + 1 : f[i] = f[j] => i = j
  BY <1>4
<1>6. /\ Len(new) = m + 1 /\ new[k] = e
      /\ \A j \in 1..m + 1 : j # k => new[j] = list[f[j]]
  <2>1. Len(new) = m + 1 /\ \A j \in 1..m + 1 : new[j] = IF j < k THEN list[j] ELSE IF j = k THEN e ELSE list[j - 1]
    BY <1>3 DEF m
  <2>2. QED
    BY <1>4, <1>5, <2>1
<1>7. \A j \in 1..Len(new) : new[j].id = n \/ (f[j] \in 1..Len(list) /\ new[j].id = list[f[j]].id)
  BY <1>5, <1>6 DEF m
<1>8. \A i, j \in 1..Len(new) : i = j \/ (f[i] # f[j] /\ ~(new[i].id = n /\ new[j].id = n))
  <2>1. \A j \in 1..Len(new) : j # k => new[j].id \in Nat /\ new[j].id < n
    BY <1>1, <1>5, <1>6 DEF m
  <2>2. QED
    BY <1>5, <1>6, <2>1
<1>9. Numbered([test EXCEPT ![g].questions = new], n + 1)
  <2>1. FromList(test[g].questions, new, f, n)
    BY <1>7, <1>8 DEF FromList
  <2>2. QED
    BY <1>1, <1>3, <2>1, QuestionsEdited
<1>10. QED
  BY <1>2, <1>9

LEMMA TestHere ==
  ASSUME MatchingInv
  PROVE  here \in Tests /\ IdsOnce(here) /\ \A p \in Places(here) : IdAt(here, p) + Shift < NewId
BY MatchingAssumption DEF MatchingInv, IdsOnce

LEMMA MatchingStarts == MatchingInit => MatchingInv
<1>1. SUFFICES ASSUME MatchingInit PROVE MatchingInv
  OBVIOUS
<1>2. here \in Tests /\ IdsOnce(here) /\ \A p \in Places(here) : IdAt(here, p) + Shift < NewId
  BY <1>1, MatchingAssumption DEF MatchingInit, IdsOnce
<1>3. /\ there \in Tests /\ Places(there) = Places(here)
      /\ \A p \in Places(here) : IdAt(there, p) = IdAt(here, p) + Shift /\ IdAt(here, p) \in Nat
  BY <1>1, <1>2, ShiftedIs, PlaceIs DEF MatchingInit
<1>4. IdsOnce(there) /\ \A p \in Places(there) : IdAt(there, p) < NewId
  BY <1>2, <1>3, MatchingAssumption DEF IdsOnce
<1>5. Numbered(there, NewId + rewrites)
  BY <1>1, <1>3, <1>4, MatchingAssumption DEF MatchingInit, Numbered
<1>6. QED
  BY <1>1, <1>5 DEF MatchingInit, MatchingInv

\* An edit leaves a test whose questions have ids of their own.
LEMMA RewriteKeeps ==
  ASSUME MatchingInv, EditQuestion \/ AddQuestion \/ EditGroups
  PROVE  MatchingInv'
<1> DEFINE n == NewId + rewrites
<1>1. n \in Nat /\ Numbered(there, n)
  BY MatchingAssumption DEF MatchingInv
<1> HIDE DEF n
<1>2. ASSUME NEW test, Rewrite(test), Numbered(test, n + 1)
      PROVE  MatchingInv'
  <2>1. /\ here' = here /\ imported' = FALSE /\ rewrites' = rewrites + 1 /\ there' = test
    BY <1>2 DEF Rewrite, MatchingInv
  <2>2. rewrites \in Nat /\ NewId \in Nat /\ here \in Originals
    BY MatchingAssumption DEF MatchingInv
  <2>3. n + 1 = NewId + rewrites' /\ rewrites' # 0 /\ rewrites' \in Nat
    BY <2>1, <2>2 DEF n
  <2>4. Numbered(there', NewId + rewrites')
    BY <1>2, <2>1, <2>3
  <2>5. QED
    BY <2>1, <2>2, <2>3, <2>4 DEF MatchingInv, Numbered, Tests, IdsOnce, Places, IdAt
<1>3. CASE EditQuestion
  <2>0. PICK g \in DOMAIN there : \E k \in DOMAIN there[g].questions :
          \/ \E t \in Texts : Rewrite([there EXCEPT ![g].questions[k].name = t])
          \/ \E y \in Types : Rewrite([there EXCEPT ![g].questions[k].type = y])
          \/ Rewrite([there EXCEPT ![g].questions = Seqs!RemoveAt(@, k)])
    BY <1>3 DEF EditQuestion
  <2>1. PICK k \in DOMAIN there[g].questions :
          \/ \E t \in Texts : Rewrite([there EXCEPT ![g].questions[k].name = t])
          \/ \E y \in Types : Rewrite([there EXCEPT ![g].questions[k].type = y])
          \/ Rewrite([there EXCEPT ![g].questions = Seqs!RemoveAt(@, k)])
    BY <2>0
  <2>2. CASE \E t \in Texts : Rewrite([there EXCEPT ![g].questions[k].name = t])
    BY <1>1, <1>2, <2>2, QuestionRewritten DEF Types
  <2>3. CASE \E y \in Types : Rewrite([there EXCEPT ![g].questions[k].type = y])
    <3>1. there[g].questions[k].name \in Texts
      <4>1. there[g].questions \in Seq(Question) /\ k \in 1..Len(there[g].questions)
        BY <1>1, GroupFacts
      <4>2. there[g].questions[k] \in Question
        BY <4>1, ElementIs
      <4>3. QED
        BY <4>2 DEF Question
    <3>2. QED
      BY <1>1, <1>2, <2>3, <3>1, QuestionRewritten
  <2>4. CASE Rewrite([there EXCEPT ![g].questions = Seqs!RemoveAt(@, k)])
    BY <1>1, <1>2, <2>4, QuestionRemoved
  <2>5. QED
    BY <2>1, <2>2, <2>3, <2>4
<1>4. CASE AddQuestion
  BY <1>1, <1>2, <1>4, QuestionAdded DEF AddQuestion, n, Question, Types
<1>5. CASE EditGroups
  BY <1>1, <1>2, <1>5, TitleChanged, TestReversed DEF EditGroups
<1>6. QED
  BY <1>3, <1>4, <1>5

LEMMA ImportKeeps ==
  ASSUME MatchingInv, ImportMatched
  PROVE  MatchingInv'
<1>1. PICK ids \in SUBSET {s.id : s \in QuestionSigs(here)} :
        /\ tokens' = ids /\ ids # {}
        /\ found' = MatchQuestions({s \in QuestionSigs(here) : s.id \in ids}, QuestionSigs(there))
  BY DEF ImportMatched
<1> DEFINE all == QuestionSigs(here)
           src == {s \in all : s.id \in ids}
           target == QuestionSigs(there)
<1>2. here' = here /\ there' = there /\ rewrites' = rewrites /\ imported' = TRUE
  BY DEF ImportMatched
<1>3. SigsApart(all)
  BY TestHere, SigsAreApart
<1>4. SigsApart(src) /\ src \subseteq all
  BY <1>3 DEF SigsApart
<1>5. SigsApart(target)
  BY SigsAreApart DEF MatchingInv, Numbered
<1>6. \A id \in ids : \E s \in src : s.id = id
  BY <1>1
<1>7. PairsApart(found')
  BY <1>1, <1>4, <1>5, MatchApart
<1>8. (imported => OneEach)' /\ OneEach'
  BY <1>7 DEF OneEach, PairsApart
<1>9. ASSUME NEW m \in found'
      PROVE  Remapped(m.from)' = m.to
  BY <1>7, <1>9 DEF Remapped, PairsApart
<1>10. CopyExact'
  <2>1. SUFFICES ASSUME rewrites = 0 PROVE \A id \in ids : Remapped(id)' = id + Shift
    BY <1>1, <1>2 DEF CopyExact
  <2>2. target = QuestionSigs(Shifted(here))
    BY <2>1 DEF MatchingInv
  <2>3. \A s \in src : s.id \in Nat /\ \E c \in target : Copies(s, c)
    BY <1>4, <2>2, TestHere, CopiesAre
  <2>4. /\ \A m \in found' : m.to = m.from + Shift
        /\ \A s \in src : \E m \in found' : m.from = s.id
    BY <1>1, <1>4, <1>5, <2>3, AllCopied
  <2>5. QED
    BY <1>6, <1>9, <2>4
<1>11. TextWins'
  <2>0. /\ QuestionSigs(there)' = target /\ QuestionSigs(here)' = all
        /\ \A id : Sig(here, id)' = Sig(here, id)
    BY <1>2 DEF Sig, QuestionSigs, SigAt, Places, Filled
  <2>1. SUFFICES ASSUME NEW id \in ids, NEW q \in target, NEW s, s = Sig(here, id), s.name # Untitled,
                        {r \in target : r.name = s.name /\ r.categoryName = s.categoryName} = {q},
                        {r \in all : r.name = s.name /\ r.categoryName = s.categoryName} = {s}
                 PROVE  Remapped(id)' = q.id
    BY <1>1, <1>2, <2>0 DEF TextWins
  <2>2. s \in src /\ s.id = id
    BY <1>6, <2>1 DEF Sig
  <2>3. \A r \in src : r.name = s.name /\ r.categoryName = s.categoryName => r = s
    BY <1>4, <2>1
  <2>4. \E m \in found' : m.from = id /\ m.to = q.id
    <3> HIDE DEF src, target
    <3>1. \E m \in MatchQuestions(src, target) : m.from = s.id /\ m.to = q.id
      BY <1>4, <2>1, <2>2, <2>3, OnlyOneMatched
    <3>2. QED
      BY <1>1, <2>2, <3>1 DEF src, target
  <2>5. QED
    BY <1>9, <2>4
<1>12. MatchingSafe'
  BY <1>8, <1>10, <1>11 DEF MatchingSafe
<1>13. Numbered(there, NewId + rewrites)' /\ (rewrites = 0 => there = Shifted(here))'
  BY <1>2 DEF MatchingInv, Numbered, Tests, IdsOnce, Places, IdAt, Shifted
<1>14. QED
  BY <1>2, <1>12, <1>13 DEF MatchingInv

LEMMA MatchingSteps == MatchingInv /\ [MatchingNext]_matchingVars => MatchingInv'
<1>1. ASSUME MatchingInv, UNCHANGED matchingVars
      PROVE  MatchingInv'
  <2>1. here' = here /\ there' = there /\ rewrites' = rewrites /\ tokens' = tokens /\ imported' = imported /\ found' = found
    BY <1>1 DEF matchingVars
  <2>2. MatchingSafe' <=> MatchingSafe
    <3>1. /\ QuestionSigs(there)' = QuestionSigs(there) /\ QuestionSigs(here)' = QuestionSigs(here)
          /\ \A id : Sig(here, id)' = Sig(here, id) /\ Remapped(id)' = Remapped(id)
      BY <2>1 DEF Sig, QuestionSigs, SigAt, Places, Filled, Remapped
    <3>2. (OneEach' <=> OneEach) /\ (CopyExact' <=> CopyExact) /\ (TextWins' <=> TextWins)
      BY <2>1, <3>1 DEF OneEach, CopyExact, TextWins
    <3>3. QED
      BY <3>2 DEF MatchingSafe
  <2>3. Numbered(there, NewId + rewrites)' /\ (rewrites = 0 => there = Shifted(here))'
    BY <1>1, <2>1 DEF MatchingInv, Numbered, Tests, IdsOnce, Places, IdAt, Shifted
  <2>4. QED
    BY <1>1, <2>1, <2>2, <2>3 DEF MatchingInv
<1>2. QED
  BY <1>1, RewriteKeeps, ImportKeeps DEF MatchingNext

\* Whatever the tests repeat and whatever was edited over there: no two tokens
\* of an imported template mean the same question, in a test nobody edited every
\* one means the copy, and a text that is the only one in its group wins.
THEOREM MatchingIsSafe == MatchingSpec => []MatchingSafe
<1>1. MatchingInv => MatchingSafe
  BY DEF MatchingInv, MatchingSafe, OneEach, CopyExact, TextWins
<1>2. QED
  BY MatchingStarts, MatchingSteps, <1>1, PTL DEF MatchingSpec
============================================================================

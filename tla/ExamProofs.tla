----------------------------- MODULE ExamProofs -----------------------------
(***************************************************************************)
(* What is proved of an examination in its participant's tabs, of the      *)
(* accounts of persons and of the studio's trial exams, for any number of  *)
(* tabs, sections, requests, addresses and codes.                          *)
(*                                                                         *)
(* Each argument is an inductive invariant that says what a request that   *)
(* is under way still knows to be true: of the section it will show, of    *)
(* the row it will save, of the code it will spend.                        *)
(***************************************************************************)
EXTENDS ExamSession, Accounts, Previews, TLAPS

-----------------------------------------------------------------------------
(* The examination                                                         *)

\* What a request knows of the section it is about to show, and why it is
\* where it is.
Ahead(t) ==
  /\ pc[t] \in {"start", "login", "attach", "show", "turn"} =>
       \A c \in 1..(to[t] - 1) : c \in claimed
  /\ pc[t] = "moving" => page[t] # 0
  /\ pc[t] = "start" => ~snap[t].start
  /\ pc[t] = "attach" => ~snap[t].user

\* An end that was not raced is known to everybody who will save the row.
EndKnown ==
  /\ row.end => finished
  /\ finished /\ ~raced => row.end /\ \A t \in Tabs : Restoring(t) => snap[t].end

SessionInv ==
  /\ TypeOK
  /\ ServedInOrder
  /\ ClaimsBounded
  /\ \A t \in Tabs : Ahead(t)
  /\ EndKnown

\* Saving the row as r keeps its type and the account of its ends: a report
\* request is always paid for by an end.
LEMMA WriteCounts ==
  ASSUME TypeOK, ClaimsBounded, NEW t \in Tabs, NEW r \in Row, Write(t, r), claims' = claims
  PROVE  row' \in Row /\ finished' \in BOOLEAN /\ raced' \in BOOLEAN /\ reopened' \in Nat
         /\ claimed' = claimed /\ ClaimsBounded'
  BY SMT DEF TypeOK, Row, Write, ClaimsBounded

\* An end stays known when t saves the row it read, if t was to keep the end,
\* or sets it, and is to save no more what it read.
LEMMA WriteKeepsEnd ==
  ASSUME SessionInv, NEW t \in Tabs, NEW r \in Row, Write(t, r), UNCHANGED snap,
         (Restoring(t) => (snap[t].end => r.end)) /\ (~Restoring(t) => r.end),
         Restoring(t)' => (Restoring(t) /\ r.end = snap[t].end),
         \A u \in Tabs \ {t} : pc'[u] = pc[u]
  PROVE  EndKnown'
  <1>1. \A u \in Tabs \ {t} : Restoring(u)' <=> Restoring(u)
    BY DEF Restoring
  <1>2. row.end \in BOOLEAN /\ r.end \in BOOLEAN /\ raced \in BOOLEAN /\ finished \in BOOLEAN
    BY DEF SessionInv, TypeOK, Row
  <1>3. row' = r /\ finished' = (finished \/ r.end)
        /\ raced' = (raced \/ (r.end /\ ~row.end /\ \E u \in Tabs \ {t} : Restoring(u) /\ ~snap[u].end))
    BY DEF Write
  <1>4. SUFFICES ASSUME finished' /\ ~raced'
                 PROVE  row'.end /\ \A u \in Tabs : Restoring(u)' => snap[u].end
    BY <1>3 DEF EndKnown
  <1>5. CASE r.end
    <2>1. \A u \in Tabs \ {t} : Restoring(u) => snap[u].end
      BY <1>2, <1>3, <1>4, <1>5 DEF SessionInv, EndKnown
    <2> QED BY <1>1, <1>3, <1>5, <2>1
  <1>6. CASE ~r.end
    BY <1>1, <1>2, <1>3, <1>4, <1>6 DEF SessionInv, EndKnown
  <1> QED BY <1>5, <1>6

\* A request that saves the row and goes on keeps the invariant, when it was to
\* keep the end or sets it.
LEMMA SaveStep ==
  ASSUME SessionInv, NEW t \in Tabs, NEW r \in Row, NEW s \in Steps, Write(t, r),
         pc' = [pc EXCEPT ![t] = s],
         UNCHANGED <<answered, snap, to, ready, page, calls, claims>>,
         s = "idle" \/ (s \in {"login", "show"} /\ pc[t] \in {"start", "attach"}),
         (Restoring(t) => (snap[t].end => r.end)) /\ (~Restoring(t) => r.end),
         Restoring(t)' => (Restoring(t) /\ r.end = snap[t].end)
  PROVE  SessionInv'
  <1>1. row' \in Row /\ finished' \in BOOLEAN /\ raced' \in BOOLEAN /\ reopened' \in Nat
        /\ claimed' = claimed /\ ClaimsBounded'
    BY WriteCounts DEF SessionInv
  <1>2. TypeOK'
    BY <1>1 DEF SessionInv, TypeOK
  <1>3. EndKnown'
    BY WriteKeepsEnd DEF SessionInv, TypeOK
  <1>4. ServedInOrder'
    BY <1>1 DEF SessionInv, ServedInOrder
  <1>5. \A u \in Tabs : Ahead(u)'
    BY <1>1 DEF SessionInv, Ahead, TypeOK
  <1> QED BY <1>1, <1>2, <1>3, <1>4, <1>5 DEF SessionInv

LEMMA SessionInit == Init => SessionInv
<1> SUFFICES ASSUME Init PROVE SessionInv
  OBVIOUS
<1>1. row \in Row /\ ~row.end
  BY DEF Init, Fresh
<1>2. TypeOK
  <2>1. finished \in BOOLEAN /\ raced \in BOOLEAN
    BY Zenon DEF Init
  <2>2. to \in [Tabs -> Cats] /\ page \in [Tabs -> 0..N] /\ calls \in 0..MaxCalls
    BY SessionAssumption DEF Init, Cats
  <2>3. answered \subseteq Cats /\ claimed \subseteq Cats /\ claims \in Nat /\ reopened \in Nat
    BY DEF Init
  <2>4. pc \in [Tabs -> Steps] /\ snap \in [Tabs -> Row]
    BY <1>1 DEF Init, Steps
  <2>5. ready \in [Tabs -> BOOLEAN]
    BY Zenon DEF Init
  <2> QED BY <1>1, <2>1, <2>2, <2>3, <2>4, <2>5 DEF TypeOK
<1>3. ServedInOrder /\ ClaimsBounded /\ EndKnown
  BY <1>1 DEF Init, ServedInOrder, ClaimsBounded, EndKnown
<1>4. \A t \in Tabs : Ahead(t)
  BY DEF Init, Ahead
<1> QED BY <1>2, <1>3, <1>4 DEF SessionInv

LEMMA OpeningStep ==
  ASSUME SessionInv, NEW t \in Tabs, Opening(t)
  PROVE  SessionInv'
<1> USE SessionAssumption DEF SessionInv
<1>1. CASE Open(t)
  <2>1. TypeOK'
    BY <1>1 DEF Open, Call, Goto, Load, TypeOK, Steps, history
  <2>2. ServedInOrder' /\ ClaimsBounded' /\ \A u \in Tabs : Ahead(u)'
    BY <1>1 DEF Open, Call, Goto, Load, TypeOK, Ahead, ServedInOrder, ClaimsBounded, history
  <2>3. EndKnown'
    BY <1>1 DEF Open, Call, Goto, Load, TypeOK, EndKnown, history
  <2> QED BY <2>1, <2>2, <2>3
<1>2. CASE Pick(t)
  <2>1. Completed(snap[t]) \subseteq Cats
    BY DEF Completed, TypeOK, Row
  <2>2. PICK c \in Cats : Resumes(Completed(snap[t]), c) /\ to' = [to EXCEPT ![t] = c]
    BY <1>2 DEF Pick
  <2>3. TypeOK'
    BY <1>2, <2>1, <2>2 DEF Pick, Goto, TypeOK, Steps
  <2>4. ServedInOrder' /\ ClaimsBounded'
    BY <1>2 DEF Pick, ServedInOrder, ClaimsBounded
  <2>5. \A u \in Tabs : Ahead(u)'
    <3>1. \A d \in 1..(c - 1) : d \in claimed'
      BY <1>2, <2>2 DEF Pick, Resumes
    <3>2. Ahead(t)'
      BY <1>2, <2>2, <3>1 DEF Pick, Goto, Ahead, TypeOK
    <3>3. \A u \in Tabs \ {t} : Ahead(u)'
      BY <1>2, <2>2 DEF Pick, Goto, Ahead, TypeOK
    <3> QED BY <3>2, <3>3
  <2>6. EndKnown'
    BY <1>2 DEF Pick, Goto, TypeOK, EndKnown, Restoring
  <2> QED BY <2>3, <2>4, <2>5, <2>6
<1>3. CASE SaveStart(t)
  <2> DEFINE r == [snap[t] EXCEPT !.start = TRUE]
  <2>1. r \in Row /\ r.end = snap[t].end /\ Write(t, r)
    BY <1>3 DEF SaveStart, TypeOK, Row
  <2>2. pc[t] = "start" /\ ~snap[t].start /\ pc' = [pc EXCEPT ![t] = "login"]
        /\ UNCHANGED <<answered, snap, to, ready, page, calls, claims>>
    BY <1>3 DEF SaveStart, Goto, Ahead, request
  <2> HIDE DEF r
  <2>3. Restoring(t) /\ "login" \in Steps
    BY <2>2 DEF Restoring, Steps
  <2> QED BY <2>1, <2>2, <2>3, SaveStep
<1>4. CASE Login(t)
  BY <1>4 DEF Login, Goto, TypeOK, Steps, Ahead, ServedInOrder, ClaimsBounded, EndKnown,
              Restoring, request, history
<1>5. CASE SaveUser(t)
  <2> DEFINE r == [snap[t] EXCEPT !.user = TRUE]
  <2>1. r \in Row /\ r.end = snap[t].end /\ Write(t, r)
    BY <1>5 DEF SaveUser, TypeOK, Row
  <2>2. pc[t] = "attach" /\ ~snap[t].user /\ pc' = [pc EXCEPT ![t] = "show"]
        /\ UNCHANGED <<answered, snap, to, ready, page, calls, claims>>
    BY <1>5 DEF SaveUser, Goto, Ahead, request
  <2> HIDE DEF r
  <2>3. Restoring(t) /\ "show" \in Steps
    BY <2>2 DEF Restoring, Steps
  <2> QED BY <2>1, <2>2, <2>3, SaveStep
<1>6. CASE Show(t)
  <2>1. row' \in Row /\ row'.end = row.end
    BY <1>6 DEF Show, TypeOK, Row, Cats
  <2>2. pc[t] = "show" /\ pc' = [pc EXCEPT ![t] = "idle"] /\ page' = [page EXCEPT ![t] = to[t]]
        /\ UNCHANGED <<answered, snap, to, ready, calls, claims, claimed, finished, raced, reopened>>
    BY <1>6 DEF Show, Goto, request, history
  <2>3. TypeOK'
    BY <2>1, <2>2 DEF TypeOK, Steps, Cats
  <2>4. ServedInOrder'
    BY <2>2 DEF ServedInOrder, Ahead, TypeOK
  <2>5. ClaimsBounded' /\ EndKnown' /\ \A u \in Tabs : Ahead(u)'
    BY <2>1, <2>2 DEF ClaimsBounded, EndKnown, Restoring, Ahead, TypeOK
  <2> QED BY <2>3, <2>4, <2>5
<1> QED BY <1>1, <1>2, <1>3, <1>4, <1>5, <1>6 DEF Opening

LEMMA TurningStep ==
  ASSUME SessionInv, NEW t \in Tabs, Turning(t)
  PROVE  SessionInv'
<1> USE SessionAssumption DEF SessionInv
<1>1. CASE Navigate(t)
  <2>1. PICK c \in Cats, b \in BOOLEAN : to' = [to EXCEPT ![t] = c] /\ ready' = [ready EXCEPT ![t] = b]
    BY <1>1, Zenon DEF Navigate
  <2>2. TypeOK'
    BY <1>1, <2>1 DEF Navigate, Call, Goto, Load, TypeOK, Steps, history
  <2>3. ServedInOrder' /\ ClaimsBounded' /\ \A u \in Tabs : Ahead(u)'
    BY <1>1, <2>1 DEF Navigate, Call, Goto, Load, TypeOK, Ahead, ServedInOrder, ClaimsBounded, history
  <2>4. EndKnown'
    BY <1>1 DEF Navigate, Call, Goto, Load, TypeOK, EndKnown, history
  <2> QED BY <2>2, <2>3, <2>4
<1>2. CASE Move(t)
  <2> DEFINE done == Claim(Completed(snap[t]), page[t], ready[t])
  <2>1. pc[t] = "moving" /\ page[t] \in Cats
    BY <1>2 DEF Move, Goto, Ahead, TypeOK, Cats
  <2>2. done \subseteq Cats
    BY <2>1 DEF Claim, Completed, TypeOK, Row
  <2>3. /\ pc' = [pc EXCEPT ![t] = IF CanNavigateTo(done, to[t], page[t]) THEN "turn" ELSE "idle"]
        /\ claimed' = claimed \cup done
        /\ UNCHANGED <<answered, snap, to, ready, page, calls, claims, finished, raced, reopened>>
    BY <1>2 DEF Move, Goto, request
  <2>4. row' = row \/ row' = [row EXCEPT !.legacy = FALSE, !.completed = done]
    BY <1>2 DEF Move
  <2>5. CanNavigateTo(done, to[t], page[t]) => \A c \in 1..(to[t] - 1) : c \in claimed'
    <3> HIDE DEF done
    <3> QED BY <2>1, <2>3 DEF CanNavigateTo, ServedInOrder, TypeOK, Cats
  <2> HIDE DEF done
  <2>6. row' \in Row /\ row'.end = row.end
    BY <2>2, <2>4 DEF TypeOK, Row
  <2>7. TypeOK'
    BY <2>2, <2>3, <2>6 DEF TypeOK, Steps
  <2>8. ServedInOrder' /\ \A u \in Tabs : Ahead(u)'
    BY <2>3, <2>5 DEF ServedInOrder, Ahead, TypeOK
  <2>9. ClaimsBounded' /\ EndKnown'
    BY <2>3, <2>6 DEF ClaimsBounded, EndKnown, Restoring, TypeOK
  <2> QED BY <2>7, <2>8, <2>9
<1>3. CASE Jump(t)
  <2>1. PICK c \in Cats : to' = [to EXCEPT ![t] = c]
    BY <1>3, Zenon DEF Jump
  <2>2. TypeOK'
    BY <1>3, <2>1 DEF Jump, Call, Goto, TypeOK, Steps, history
  <2>3. ServedInOrder' /\ ClaimsBounded' /\ \A u \in Tabs : Ahead(u)'
    BY <1>3, <2>1 DEF Jump, Call, Goto, TypeOK, Ahead, ServedInOrder, ClaimsBounded, history
  <2>4. EndKnown'
    BY <1>3 DEF Jump, Call, Goto, TypeOK, EndKnown, Restoring, history
  <2> QED BY <2>2, <2>3, <2>4
<1>4. CASE Turn(t)
  <2>1. row' = [row EXCEPT !.timer = to[t]] /\ pc' = [pc EXCEPT ![t] = "idle"]
        /\ UNCHANGED <<answered, snap, to, ready, calls, claims, claimed, finished, raced, reopened>>
    BY <1>4 DEF Turn, Goto, request, history
  <2>2. \/ pc[t] = "turn" /\ page' = [page EXCEPT ![t] = to[t]]
        \/ page' = [page EXCEPT ![t] = 0]
    BY <1>4 DEF Turn, Goto
  <2>3. row' \in Row /\ row'.end = row.end
    BY <2>1 DEF TypeOK, Row, Cats
  <2>4. TypeOK'
    BY <2>1, <2>2, <2>3 DEF TypeOK, Steps, Cats
  <2>5. ServedInOrder'
    BY <2>1, <2>2 DEF ServedInOrder, Ahead, TypeOK
  <2>6. \A u \in Tabs : Ahead(u)'
    BY <2>1, <2>2 DEF Ahead, TypeOK
  <2>7. ClaimsBounded' /\ EndKnown'
    BY <2>1, <2>3 DEF ClaimsBounded, EndKnown, Restoring, TypeOK
  <2> QED BY <2>4, <2>5, <2>6, <2>7
<1> QED BY <1>1, <1>2, <1>3, <1>4 DEF Turning

LEMMA EndingStep ==
  ASSUME SessionInv, NEW t \in Tabs, Ending(t)
  PROVE  SessionInv'
<1> USE SessionAssumption DEF SessionInv
<1>1. CASE Close(t) \/ End(t)
  <2>1. PICK s \in {"closing", "ending"} : Call(t, s) /\ Load(t)
        /\ UNCHANGED <<row, answered, to, ready, page, claims, history>>
    BY <1>1 DEF Close, End
  <2>2. TypeOK'
    BY <2>1 DEF Call, Goto, Load, TypeOK, Steps, history
  <2>3. ServedInOrder' /\ ClaimsBounded' /\ \A u \in Tabs : Ahead(u)'
    BY <2>1 DEF Call, Goto, Load, TypeOK, Ahead, ServedInOrder, ClaimsBounded, history
  <2>4. EndKnown'
    BY <2>1 DEF Call, Goto, Load, TypeOK, EndKnown, Restoring, history
  <2> QED BY <2>2, <2>3, <2>4
<1>2. CASE SaveClosed(t) \/ SaveEnd(t)
  <2> DEFINE r == [snap[t] EXCEPT !.end = TRUE]
  <2>1. r \in Row /\ r.end /\ Write(t, r)
    BY <1>2 DEF SaveClosed, SaveEnd, TypeOK, Row
  <2>2. pc[t] \in {"closing", "ending"} /\ pc' = [pc EXCEPT ![t] = "idle"]
        /\ UNCHANGED <<answered, snap, to, ready, page, calls, claims>>
    BY <1>2 DEF SaveClosed, SaveEnd, Goto, request
  <2> HIDE DEF r
  <2>3. ~Restoring(t)' /\ "idle" \in Steps
    BY <2>2 DEF Restoring, Steps, TypeOK
  <2> QED BY <2>1, <2>2, <2>3, SaveStep
<1>3. CASE Finish(t)
  <2> DEFINE r == [row EXCEPT !.end = TRUE]
  <2>1. r \in Row /\ r.end /\ Write(t, r) /\ ~row.end /\ pc[t] = "idle"
    BY <1>3 DEF Finish, TypeOK, Row
  <2>2. claims' = claims + 1 /\ calls' = calls + 1 /\ calls < MaxCalls
        /\ UNCHANGED <<answered, pc, snap, to, ready, page>>
    BY <1>3 DEF Finish, request
  <2> HIDE DEF r
  <2>3. row' = r /\ finished' = (finished \/ r.end) /\ claimed' = claimed /\ reopened' = reopened
        /\ raced' \in BOOLEAN
    BY <2>1 DEF Write, TypeOK
  <2>4. TypeOK'
    BY <2>1, <2>2, <2>3 DEF TypeOK
  <2>5. EndKnown'
    BY <2>1, <2>2, WriteKeepsEnd DEF Restoring
  <2>6. ServedInOrder' /\ ClaimsBounded' /\ \A u \in Tabs : Ahead(u)'
    BY <2>1, <2>2, <2>3 DEF ServedInOrder, ClaimsBounded, Ahead, TypeOK
  <2> QED BY <2>4, <2>5, <2>6
<1> QED BY <1>1, <1>2, <1>3 DEF Ending

LEMMA AccessStep ==
  ASSUME SessionInv, NEW t \in Tabs, Access(t)
  PROVE  SessionInv'
<1> USE SessionAssumption DEF SessionInv
<1>1. CASE Restore(t) \/ Edit(t)
  <2>1. PICK s \in {"restoring", "editing"} : Call(t, s) /\ Load(t)
        /\ UNCHANGED <<row, answered, to, ready, page, claims, history>>
    BY <1>1 DEF Restore, Edit
  <2>2. TypeOK'
    BY <2>1 DEF Call, Goto, Load, TypeOK, Steps, history
  <2>3. ServedInOrder' /\ ClaimsBounded' /\ \A u \in Tabs : Ahead(u)'
    BY <2>1 DEF Call, Goto, Load, TypeOK, Ahead, ServedInOrder, ClaimsBounded, history
  <2>4. EndKnown'
    BY <2>1 DEF Call, Goto, Load, TypeOK, EndKnown, Restoring, history
  <2> QED BY <2>2, <2>3, <2>4
<1>2. CASE ReadRow(t)
  <2>1. TypeOK'
    BY <1>2 DEF ReadRow, Goto, Load, TypeOK, Steps, history
  <2>2. ServedInOrder' /\ ClaimsBounded' /\ \A u \in Tabs : Ahead(u)'
    BY <1>2 DEF ReadRow, Goto, Load, TypeOK, Ahead, ServedInOrder, ClaimsBounded, history
  <2>3. EndKnown'
    BY <1>2 DEF ReadRow, Goto, Load, TypeOK, EndKnown, Restoring, history
  <2> QED BY <2>1, <2>2, <2>3
<1>3. CASE SaveRow(t)
  <2> DEFINE attached == [snap[t] EXCEPT !.user = TRUE]
  <2>1. attached \in Row /\ attached.end = snap[t].end /\ snap[t] \in Row
    BY DEF TypeOK, Row
  <2>2. /\ pc[t] \in {"attaching", "editing"} /\ pc' = [pc EXCEPT ![t] = "idle"]
        /\ Write(t, attached) \/ Write(t, snap[t])
        /\ UNCHANGED <<answered, snap, to, ready, page, calls, claims>>
    BY <1>3 DEF SaveRow, Goto, request
  <2> HIDE DEF attached
  <2>3. PICK r \in Row : Write(t, r) /\ r.end = snap[t].end
    BY <2>1, <2>2
  <2>4. Restoring(t) /\ ~Restoring(t)' /\ "idle" \in Steps
    BY <2>2 DEF Restoring, Steps, TypeOK
  <2> QED BY <2>2, <2>3, <2>4, SaveStep
<1> QED BY <1>1, <1>2, <1>3 DEF Access

LEMMA SessionStep == SessionInv /\ [Next]_vars => SessionInv'
<1> SUFFICES ASSUME SessionInv, [Next]_vars PROVE SessionInv'
  OBVIOUS
<1>1. CASE UNCHANGED vars
  BY <1>1 DEF SessionInv, TypeOK, ServedInOrder, ClaimsBounded, Ahead, EndKnown, Restoring,
              vars, request, history, Row, Cats
<1>2. ASSUME NEW t \in Tabs, Abort(t) PROVE SessionInv'
  <2>1. TypeOK'
    BY <1>2 DEF SessionInv, TypeOK, Abort, Steps, request, history
  <2>2. ServedInOrder' /\ ClaimsBounded' /\ \A u \in Tabs : Ahead(u)'
    BY <1>2 DEF SessionInv, TypeOK, Abort, ServedInOrder, ClaimsBounded, Ahead, request, history
  <2>3. EndKnown'
    BY <1>2 DEF SessionInv, TypeOK, Abort, EndKnown, Restoring, request, history
  <2> QED BY <2>1, <2>2, <2>3 DEF SessionInv
<1>3. ASSUME NEW c \in Cats, Answer(c) PROVE SessionInv'
  BY <1>3 DEF SessionInv, TypeOK, ServedInOrder, ClaimsBounded, Ahead, EndKnown, Restoring,
              Answer, request, history
<1> QED
  BY <1>1, <1>2, <1>3, OpeningStep, TurningStep, EndingStep, AccessStep DEF Next

LEMMA SessionInductive == Spec => []SessionInv
  BY SessionInit, SessionStep, PTL DEF Spec

\* The rows and the requests of an examination have their types.
THEOREM SessionTyped == Spec => []TypeOK
<1>1. SessionInv => TypeOK
  BY DEF SessionInv
<1> QED BY <1>1, SessionInductive, PTL

\* Whatever the tabs do to each other's rows, no checked request shows a section
\* before all sections ahead of it counted as complete, and finish asks for one
\* report for each end of the examination (updateByCode, canNavigateTo, finish).
THEOREM SessionIsSafe == Spec => []SessionSafe
<1>1. SessionInv => SessionSafe
  BY DEF SessionInv, SessionSafe
<1> QED BY <1>1, SessionInductive, PTL

\* An examination that was finished stays finished, unless the end met a request
\* that was to save the row it had read before (endExam, claimEnd, ExamDao.update).
THEOREM EndStands == Spec => []FinishedStays
<1>1. SessionInv => FinishedStays
  BY DEF SessionInv, EndKnown, FinishedStays
<1> QED BY <1>1, SessionInductive, PTL

-----------------------------------------------------------------------------
(* The accounts                                                            *)

Stages == {"look", "insert", "refetch", "password", "clear", "saveCode", "saveConfirmed",
           "savePassword", "saveClear", "done", "failed"}

Request == [kind: Entering \cup Changing, address: Addresses, password: Passwords \cup {None},
            code: Codes \cup {None}, step: Stages]

UserRow == [password: Passwords \cup {None}, forget: Codes \cup {None}, confirmed: BOOLEAN]

AccountsTypeOK ==
  /\ users \subseteq Addresses
  /\ password \in [Addresses -> Passwords \cup {None}]
  /\ forget \in [Addresses -> Codes \cup {None}]
  /\ confirmed \in [Addresses -> BOOLEAN]
  /\ handler \in [Handlers -> {Idle} \cup Request]
  /\ copy \in [Handlers -> UserRow]
  /\ given \in [Addresses -> Passwords \cup {None}]
  /\ drawn \subseteq Codes /\ spent \subseteq drawn

Redeems(h) == handler[h].step \in {"password", "savePassword", "clear", "saveClear"}
Pending(h) == Is(h, "otp") /\ handler[h].step \in {"look", "saveCode"}

\* Why a request is where it is.
Route(h) == handler[h] # Idle =>
  /\ handler[h].step \in {"insert", "refetch"} => handler[h].kind \in Entering
  /\ In(h, "refetch") => Is(h, "force") /\ Of(h) \in users
  /\ Redeems(h) => Is(h, "reset") /\ Of(h) \in users
  /\ In(h, "saveCode") => Is(h, "otp") /\ Of(h) \in users
  /\ In(h, "saveConfirmed") => Is(h, "verify") /\ Of(h) \in users
  /\ Is(h, "force") => ~In(h, "failed") /\ (In(h, "done") => Of(h) \in users)
  /\ Is(h, "otp") \/ Is(h, "reset") => handler[h].code \in Codes

\* Code c is in the row of a, or in a copy that may become the row, or was
\* accepted for it.
Uses(h, c) == (Holding(h) /\ copy[h].forget = c) \/ (Redeems(h) /\ handler[h].code = c)
Known(c, a) == forget[a] = c \/ \E h \in Handlers : Of(h) = a /\ Uses(h, c)

\* A code is one address's: who holds it before it is stored holds it alone.
OneOwner ==
  /\ \A c \in Codes : \A a, b \in Addresses : Known(c, a) /\ Known(c, b) => a = b
  /\ \A c \in Codes : \A a \in Addresses : Known(c, a) => c \in drawn
  /\ \A h \in Handlers : Pending(h) =>
       /\ handler[h].code \in drawn \ spent
       /\ \A a \in Addresses : ~Known(handler[h].code, a)
       /\ \A g \in Handlers \ {h} : Pending(g) => handler[g].code # handler[h].code
  /\ \A a \in Addresses \ users : forget[a] = None

\* A copy that nobody has saved over is the row.
CopyIsRow == \A h \in Handlers \ behind : Holding(h) => copy[h] = Stored(Of(h))

AccountsInv ==
  /\ AccountsTypeOK
  /\ \A h \in Handlers : Route(h)
  /\ OneOwner
  /\ CopyIsRow
  /\ ResetStands

\* What GoesTo leaves as it is.
Moved(h, s) ==
  /\ handler' \in [Handlers -> {Idle} \cup Request]
  /\ \A g \in Handlers \ {h} : handler'[g] = handler[g]
  /\ handler'[h] \in Request
  /\ handler'[h].step = s
  /\ handler'[h].kind = handler[h].kind
  /\ handler'[h].address = handler[h].address
  /\ handler'[h].password = handler[h].password
  /\ handler'[h].code = handler[h].code

\* A request that is not through is one of an address.
LEMMA Underway ==
  ASSUME AccountsTypeOK, NEW h \in Handlers, handler[h].step \notin {"done", "failed"}
  PROVE  handler[h] \in Request /\ Of(h) \in Addresses
  BY DEF AccountsTypeOK, Idle, Request, Of

LEMMA GoesToMoves ==
  ASSUME AccountsTypeOK, NEW h \in Handlers, NEW s \in Stages, handler[h] \in Request, GoesTo(h, s)
  PROVE  Moved(h, s)
<1>1. \A g \in Handlers \ {h} : handler'[g] = handler[g]
  BY DEF GoesTo, AccountsTypeOK
<1>2. handler'[h] = [handler[h] EXCEPT !.step = s]
  BY DEF GoesTo, AccountsTypeOK
<1>3. DOMAIN handler' = Handlers /\ handler' = [g \in Handlers |-> handler'[g]]
  BY DEF GoesTo, AccountsTypeOK
<1>4. /\ handler'[h] \in Request /\ handler'[h].step = s
      /\ handler'[h].kind = handler[h].kind /\ handler'[h].address = handler[h].address
      /\ handler'[h].password = handler[h].password /\ handler'[h].code = handler[h].code
  BY <1>2 DEF Request
<1>5. handler' \in [Handlers -> {Idle} \cup Request]
  BY <1>1, <1>3, <1>4 DEF AccountsTypeOK
<1> QED BY <1>1, <1>4, <1>5 DEF Moved

LEMMA AccountsInitially == AccountsInit => AccountsInv
<1> SUFFICES ASSUME AccountsInit PROVE AccountsInv
  OBVIOUS
<1> USE AccountsAssumption
<1>1. \A h \in Handlers : handler[h] = Idle /\ handler[h].step = "done" /\ handler[h].kind = "none"
  BY DEF AccountsInit, Idle
<1>2. NoRow \in UserRow
  BY DEF NoRow, UserRow
<1>3. confirmed \in [Addresses -> BOOLEAN]
  BY Zenon DEF AccountsInit
<1>4. AccountsTypeOK
  BY <1>2, <1>3 DEF AccountsInit, AccountsTypeOK
<1>5. \A h \in Handlers : Route(h) /\ ~Pending(h) /\ ~Redeems(h) /\ ~Holding(h)
  BY <1>1 DEF Route, Pending, Redeems, Holding, Is
<1>6. \A c \in Codes : \A a \in Addresses : ~Known(c, a)
  BY <1>5 DEF Known, Uses, AccountsInit
<1>7. OneOwner /\ CopyIsRow
  BY <1>5, <1>6 DEF OneOwner, CopyIsRow, AccountsInit
<1>8. ResetStands
  BY DEF ResetStands, AccountsInit
<1> QED BY <1>4, <1>5, <1>7, <1>8 DEF AccountsInv

\* A request that goes on without reading or writing a row.
LEMMA GoesOn ==
  ASSUME AccountsInv, NEW h \in Handlers, UNCHANGED <<users, columns, copy, accountHistory>>,
         handler' \in [Handlers -> {Idle} \cup Request],
         \A g \in Handlers \ {h} : handler'[g] = handler[g],
         Route(h)', ~Holding(h)', ~Pending(h)',
         Redeems(h)' => handler'[h].code = forget[handler'[h].address]
  PROVE  AccountsInv'
<1>1. AccountsTypeOK'
  BY DEF AccountsInv, AccountsTypeOK, columns, accountHistory
<1>2. \A g \in Handlers : Route(g)'
  BY DEF AccountsInv, Route, Redeems, In, Is, Of
<1>3. \A c, a : Known(c, a)' => Known(c, a)
  BY DEF Known, Uses, Holding, Redeems, Of, columns
<1>4. OneOwner'
  BY <1>3 DEF AccountsInv, OneOwner, Pending, Is, columns, accountHistory
<1>5. CopyIsRow'
  BY DEF AccountsInv, CopyIsRow, Holding, Of, Stored, columns, accountHistory
<1>6. ResetStands'
  BY DEF AccountsInv, ResetStands, columns, accountHistory
<1> QED BY <1>1, <1>2, <1>4, <1>5, <1>6 DEF AccountsInv

\* A new request.
LEMMA ArrivesTyped ==
  ASSUME AccountsTypeOK, NEW h \in Handlers, NEW a \in Addresses, NEW kind \in Entering \cup Changing,
         NEW p \in Passwords \cup {None}, NEW c \in Codes \cup {None}, Arrives(h, kind, a, p, c)
  PROVE  /\ handler' \in [Handlers -> {Idle} \cup Request]
         /\ \A g \in Handlers \ {h} : handler'[g] = handler[g]
         /\ handler'[h].kind = kind /\ handler'[h].address = a /\ handler'[h].code = c
         /\ handler'[h].step = "look"
<1>1. [kind |-> kind, address |-> a, password |-> p, code |-> c, step |-> "look"] \in Request
  BY DEF Request, Stages
<1> QED BY <1>1 DEF Arrives, AccountsTypeOK

LEMMA ArrivalStep ==
  ASSUME AccountsInv, NEW h \in Handlers, NEW a \in Addresses,
         \/ \E k \in Entering, p \in Passwords \cup {None} : Enter(h, k, a, p)
         \/ \E p \in Passwords, c \in Codes : Reset(h, a, p, c)
         \/ Verify(h, a)
  PROVE  AccountsInv'
<1>1. PICK kind \in Entering \cup {"reset", "verify"}, p \in Passwords \cup {None},
           c \in Codes \cup {None} :
        /\ Arrives(h, kind, a, p, c) /\ UNCHANGED <<users, columns, copy, accountHistory>>
        /\ kind = "reset" => c \in Codes
  <2>1. CASE \E k \in Entering, p \in Passwords \cup {None} : Enter(h, k, a, p)
    <3>1. PICK k \in Entering, p \in Passwords \cup {None} : Enter(h, k, a, p)
      BY <2>1
    <3>2. k # "reset" /\ Arrives(h, k, a, p, None)
          /\ UNCHANGED <<users, columns, copy, accountHistory>>
      BY <3>1 DEF Enter, Entering
    <3> QED BY <3>2
  <2>2. CASE \E p \in Passwords, c \in Codes : Reset(h, a, p, c)
    <3>1. PICK p \in Passwords, c \in Codes : Reset(h, a, p, c)
      BY <2>2
    <3> QED BY <3>1 DEF Reset
  <2>3. CASE Verify(h, a)
    <3>1. Arrives(h, "verify", a, None, None) /\ UNCHANGED <<users, columns, copy, accountHistory>>
      BY <2>3 DEF Verify
    <3> QED BY <3>1
  <2> QED BY <2>1, <2>2, <2>3
<1>2. kind \in Entering \cup Changing /\ kind # "otp"
  BY DEF Entering, Changing
<1>3. /\ handler' \in [Handlers -> {Idle} \cup Request]
      /\ \A g \in Handlers \ {h} : handler'[g] = handler[g]
      /\ handler'[h].kind = kind /\ handler'[h].address = a /\ handler'[h].code = c
      /\ handler'[h].step = "look"
  BY <1>1, <1>2, ArrivesTyped DEF AccountsInv
<1>4. Route(h)' /\ ~Holding(h)' /\ ~Pending(h)' /\ ~Redeems(h)'
  BY <1>1, <1>2, <1>3 DEF Route, Holding, Pending, Redeems, In, Is
<1> QED BY <1>1, <1>3, <1>4, GoesOn

LEMMA SendOtpStep ==
  ASSUME AccountsInv, NEW h \in Handlers, NEW a \in Addresses, NEW c \in Codes, SendOtp(h, a, c)
  PROVE  AccountsInv'
<1>1. Arrives(h, "otp", a, None, c) /\ c \notin drawn /\ drawn' = drawn \cup {c}
      /\ UNCHANGED <<users, columns, copy, given, spent, behind, overlapped>>
  BY DEF SendOtp
<1>2. /\ handler' \in [Handlers -> {Idle} \cup Request]
      /\ \A g \in Handlers \ {h} : handler'[g] = handler[g]
      /\ handler'[h].kind = "otp" /\ handler'[h].address = a /\ handler'[h].code = c
      /\ handler'[h].step = "look"
  <2>1. "otp" \in Entering \cup Changing /\ None \in Passwords \cup {None} /\ c \in Codes \cup {None}
    BY DEF Changing
  <2> QED BY <1>1, <2>1, ArrivesTyped DEF AccountsInv
<1>3. AccountsTypeOK'
  BY <1>1, <1>2 DEF AccountsInv, AccountsTypeOK, columns
<1>4. \A g \in Handlers : Route(g)'
  <2>1. Route(h)'
    BY <1>2 DEF Route, In, Is, Redeems
  <2>2. \A g \in Handlers \ {h} : Route(g)'
    BY <1>1, <1>2 DEF AccountsInv, Route, In, Is, Of, Redeems
  <2> QED BY <2>1, <2>2
<1>5. \A d, b : Known(d, b)' => Known(d, b)
  BY <1>1, <1>2 DEF Known, Uses, Holding, Redeems, Of, columns
<1>6. \A b \in Addresses : ~Known(c, b)
  BY <1>1 DEF AccountsInv, OneOwner
<1>7. OneOwner'
  <2>1. \A g \in Handlers \ {h} : Pending(g)' => Pending(g)
    BY <1>2 DEF Pending, Is
  <2>2. \A g \in Handlers \ {h} : Pending(g)' => handler'[g].code # c
    BY <1>1, <1>2, <2>1 DEF AccountsInv, OneOwner
  <2>3. c \in drawn' \ spent'
    BY <1>1 DEF AccountsInv, AccountsTypeOK
  <2>4. \A g \in Handlers : Pending(g)' =>
          /\ handler'[g].code \in drawn' \ spent'
          /\ \A b \in Addresses : ~Known(handler[g].code, b)'
    BY <1>1, <1>2, <1>5, <1>6, <2>1, <2>3 DEF AccountsInv, OneOwner
  <2>5. \A g, k \in Handlers : g # k /\ Pending(g)' /\ Pending(k)' => handler'[g].code # handler'[k].code
    BY <1>2, <2>1, <2>2 DEF AccountsInv, OneOwner
  <2> QED BY <1>1, <1>5, <2>4, <2>5 DEF AccountsInv, OneOwner, columns
<1>8. CopyIsRow'
  BY <1>1, <1>2 DEF AccountsInv, CopyIsRow, Holding, Of, Stored, columns
<1>9. ResetStands'
  BY <1>1 DEF AccountsInv, ResetStands, columns
<1> QED BY <1>3, <1>4, <1>7, <1>8, <1>9 DEF AccountsInv

\* Lookups that find what they need or fail, and requests that break.
LEMMA LookupStep ==
  ASSUME AccountsInv, NEW h \in Handlers,
         \/ Lookup(h) \/ Duplicate(h) \/ Refetch(h) \/ CheckCode(h) \/ Break(h)
         \/ (ReadOtp(h) /\ Of(h) \notin users)
         \/ (ReadVerify(h) /\ ~(Of(h) \in users /\ ~confirmed[Of(h)]))
  PROVE  AccountsInv'
<1>1. PICK s \in {"insert", "refetch", "password", "done", "failed"} :
        /\ GoesTo(h, s) /\ UNCHANGED <<users, columns, copy, accountHistory>>
        /\ handler[h].step \notin {"done", "failed"}
        /\ s = "password" => Is(h, "reset") /\ Of(h) \in users /\ forget[Of(h)] = handler[h].code
        /\ s \in {"insert", "refetch"} => handler[h].kind \in Entering
        /\ s = "refetch" => Is(h, "force") /\ Of(h) \in users
        /\ s = "failed" => ~Is(h, "force")
        /\ s = "done" /\ Is(h, "force") => Of(h) \in users
  <2>0. handler[h] # Idle => Route(h)
    BY DEF AccountsInv
  <2>1. CASE Lookup(h)
    BY <2>1, Zenon DEF Lookup, In, Is
  <2>2. CASE Duplicate(h)
    <3>1. handler[h].kind \in Entering
      BY <2>2, Underway DEF AccountsInv, Route, Duplicate, In, Idle
    <3> QED BY <2>2, <3>1, Zenon DEF Duplicate, In
  <2>3. CASE Refetch(h)
    <3>1. Is(h, "force") /\ Of(h) \in users
      BY <2>3, Underway DEF AccountsInv, Route, Refetch, In, Idle
    <3> QED BY <2>3, <3>1, Zenon DEF Refetch, In
  <2>4. CASE CheckCode(h)
    <3>1. ~Is(h, "force")
      BY <2>4 DEF CheckCode, Is
    <3> QED BY <2>4, <3>1 DEF CheckCode, In
  <2>5. CASE Break(h)
    BY <2>5 DEF Break, In
  <2>6. CASE ReadOtp(h) /\ Of(h) \notin users
    <3>1. ~Is(h, "force")
      BY <2>6 DEF ReadOtp, Is
    <3> QED BY <2>6, <3>1 DEF ReadOtp, In
  <2>7. CASE ReadVerify(h) /\ ~(Of(h) \in users /\ ~confirmed[Of(h)])
    <3>1. ~Is(h, "force")
      BY <2>7 DEF ReadVerify, Is
    <3> QED BY <2>7, <3>1 DEF ReadVerify, In
  <2> QED BY <2>1, <2>2, <2>3, <2>4, <2>5, <2>6, <2>7
<1>2. Moved(h, s) /\ s \in Stages
  BY <1>1, Underway, GoesToMoves DEF AccountsInv, Stages
<1>3. Route(h)'
  BY <1>1, <1>2, Underway DEF AccountsInv, Route, Moved, In, Is, Of, Redeems, Idle, columns
<1>4. ~Holding(h)' /\ ~Pending(h)'
      /\ (Redeems(h)' => handler'[h].code = forget[handler'[h].address])
  BY <1>1, <1>2 DEF Moved, Holding, Pending, Redeems, Is, Of
<1> QED BY <1>1, <1>2, <1>3, <1>4, GoesOn DEF Moved

\* A row is read to be saved.
LEMMA ReadStep ==
  ASSUME AccountsInv, NEW h \in Handlers,
         \/ ReadOtp(h) /\ Of(h) \in users
         \/ ReadVerify(h) /\ Of(h) \in users /\ ~confirmed[Of(h)]
         \/ ReadPassword(h) \/ ReadClear(h)
  PROVE  AccountsInv'
<1>1. PICK s \in {"saveCode", "saveConfirmed", "savePassword", "saveClear"} :
        /\ Reads(h, s) /\ handler[h].step \notin {"done", "failed"} /\ ~Holding(h)
        /\ s = "saveCode" => Pending(h)
        /\ s = "saveConfirmed" => Is(h, "verify")
        /\ s \in {"savePassword", "saveClear"} => Redeems(h)
        /\ s \in {"saveCode", "saveConfirmed"} => Of(h) \in users
  BY DEF ReadOtp, ReadVerify, ReadPassword, ReadClear, In, Is, Holding, Pending, Redeems
<1>2. Moved(h, s) /\ s \in Stages /\ handler[h] \in Request /\ Of(h) \in Addresses
  BY <1>1, Underway, GoesToMoves DEF AccountsInv, Stages, Reads
<1>3. copy' = [copy EXCEPT ![h] = Stored(Of(h))] /\ behind' = behind \ {h}
      /\ UNCHANGED <<users, columns, drawn, given, spent, overlapped>>
  BY <1>1 DEF Reads
<1>4. Route(h) /\ handler[h] # Idle
  BY <1>1 DEF AccountsInv, Idle
<1>5. Of(h) \in users /\ (Redeems(h) => Is(h, "reset")) /\ ~Is(h, "force")
  BY <1>1, <1>4 DEF Route, Pending, Is
<1>6. Stored(Of(h)) \in UserRow /\ Stored(Of(h)).forget = forget[Of(h)]
  BY <1>2 DEF AccountsInv, AccountsTypeOK, Stored, UserRow
<1>7. AccountsTypeOK'
  BY <1>2, <1>3, <1>6 DEF AccountsInv, AccountsTypeOK, Moved, columns
<1>8. \A g \in Handlers : Route(g)'
  <2>1. Route(h)'
    BY <1>1, <1>2, <1>3, <1>4, <1>5 DEF Route, Moved, In, Is, Of, Redeems, Pending
  <2>2. \A g \in Handlers \ {h} : Route(g)'
    BY <1>2, <1>3 DEF AccountsInv, Route, Moved, In, Is, Of, Redeems
  <2> QED BY <2>1, <2>2
<1>9. \A c \in Codes : \A a \in Addresses : Known(c, a)' => Known(c, a)
  <2>1. \A g \in Handlers \ {h} : \A c : Uses(g, c)' => Uses(g, c)
    BY <1>2, <1>3 DEF Uses, Moved, Holding, Redeems
  <2>2. \A c : Uses(h, c)' => Uses(h, c) \/ forget[Of(h)] = c
    <3>1. copy'[h] = Stored(Of(h))
      BY <1>3 DEF AccountsInv, AccountsTypeOK
    <3> QED BY <1>1, <1>2, <1>6, <3>1 DEF Uses, Moved, Holding, Redeems
  <2>3. \A g \in Handlers : Of(g)' = Of(g)
    BY <1>2 DEF Moved, Of
  <2> QED BY <1>3, <2>1, <2>2, <2>3 DEF Known, columns
<1>10. OneOwner'
  <2>1. \A g \in Handlers : Pending(g)' => Pending(g)
    BY <1>1, <1>2 DEF Pending, Moved, Is
  <2>2. \A g \in Handlers : handler'[g].code = handler[g].code
    BY <1>2 DEF Moved
  <2>3. \A g \in Handlers : Pending(g) => handler[g].code \in Codes
    BY DEF AccountsInv, OneOwner, AccountsTypeOK
  <2> QED BY <1>3, <1>9, <2>1, <2>2, <2>3 DEF AccountsInv, OneOwner, columns
<1>11. CopyIsRow'
  <2>1. \A a : Stored(a)' = Stored(a)
    BY <1>3 DEF Stored, columns
  <2>2. \A g \in Handlers : Of(g)' = Of(g)
    BY <1>2 DEF Moved, Of
  <2>3. \A g \in Handlers \ {h} : Holding(g)' = Holding(g) /\ copy'[g] = copy[g]
    BY <1>2, <1>3 DEF Moved, Holding, AccountsInv, AccountsTypeOK
  <2>4. copy'[h] = Stored(Of(h))
    BY <1>3 DEF AccountsInv, AccountsTypeOK
  <2> QED BY <1>3, <2>1, <2>2, <2>3, <2>4 DEF AccountsInv, CopyIsRow
<1>12. ResetStands'
  BY <1>3 DEF AccountsInv, ResetStands, columns
<1> QED BY <1>7, <1>8, <1>10, <1>11, <1>12 DEF AccountsInv

\* A row is saved whole: as it was read but for the new code, the new password,
\* or without the code that was redeemed.
LEMMA SavesStep ==
  ASSUME AccountsInv, NEW h \in Handlers, NEW r \in UserRow, NEW s \in {"done", "clear"},
         Holding(h), Moved(h, s), Saves(h, r), s = "clear" => Redeems(h), ~Is(h, "force"),
         given' \in [Addresses -> Passwords \cup {None}],
         \A b \in Addresses \ {Of(h)} : given'[b] = given[b],
         h \notin behind /\ Of(h) \notin overlapped => r.password = given'[Of(h)],
         \/ r.forget = copy[h].forget /\ spent' = spent
         \/ r.forget = handler[h].code /\ spent' = spent /\ Pending(h)
         \/ r.forget = None /\ spent' = spent \cup {handler[h].code} /\ Redeems(h)
  PROVE  AccountsInv'
<1> DEFINE a == Of(h)
<1>1. handler[h] \in Request /\ a \in Addresses /\ handler[h] # Idle
  BY Underway DEF AccountsInv, Holding, Idle
<1>2. a \in users /\ (Redeems(h) \/ Pending(h) => handler[h].code \in Codes)
  BY <1>1 DEF AccountsInv, Route, Holding, Redeems, Pending, Is, In
<1>3. /\ password' = [password EXCEPT ![a] = r.password]
      /\ forget' = [forget EXCEPT ![a] = r.forget]
      /\ confirmed' = [confirmed EXCEPT ![a] = r.confirmed]
      /\ behind' = (behind \cup {g \in Handlers \ {h} : Holding(g) /\ Of(g) = a}) \ {h}
      /\ overlapped' = IF h \in behind THEN overlapped \cup {a} ELSE overlapped
      /\ UNCHANGED <<users, copy, drawn>>
  BY DEF Saves
<1>4. r.password \in Passwords \cup {None} /\ r.forget \in Codes \cup {None} /\ r.confirmed \in BOOLEAN
  BY DEF UserRow
<1>5. /\ \A g \in Handlers : Of(g)' = Of(g) /\ handler'[g].code = handler[g].code
      /\ \A g \in Handlers \ {h} : Holding(g)' = Holding(g) /\ Redeems(g)' = Redeems(g)
                                   /\ Pending(g)' = Pending(g)
      /\ ~Holding(h)' /\ ~Pending(h)' /\ (Redeems(h)' => Redeems(h))
  BY DEF Moved, Of, Holding, Redeems, Pending, Is
<1>6. Redeems(h) => Known(handler[h].code, a)
  BY DEF Known, Uses
<1>7. spent' \subseteq drawn
  BY <1>1, <1>2, <1>6 DEF AccountsInv, OneOwner, AccountsTypeOK
<1>8. AccountsTypeOK'
  BY <1>3, <1>4, <1>7 DEF AccountsInv, AccountsTypeOK, Moved
<1>9. \A g \in Handlers : Route(g)'
  <2>1. Route(h)'
    BY <1>1, <1>2, <1>3 DEF AccountsInv, Route, Moved, In, Is, Of, Redeems
  <2>2. \A g \in Handlers \ {h} : Route(g)'
    BY <1>3 DEF AccountsInv, Route, Moved, In, Is, Of, Redeems
  <2> QED BY <2>1, <2>2
<1>10. \A c \in Codes : \A b \in Addresses :
         Known(c, b)' => Known(c, b) \/ (Pending(h) /\ c = handler[h].code /\ b = a)
  <2> SUFFICES ASSUME NEW c \in Codes, NEW b \in Addresses, Known(c, b)', ~Known(c, b)
               PROVE  Pending(h) /\ c = handler[h].code /\ b = a
    OBVIOUS
  <2>1. \A g \in Handlers : Uses(g, c)' => Uses(g, c)
    BY <1>3, <1>5 DEF Uses
  <2>2. forget'[b] = c /\ forget[b] # c
    BY <1>5, <2>1 DEF Known
  <2>3. b = a /\ r.forget = c
    BY <1>1, <1>3, <2>2 DEF AccountsInv, AccountsTypeOK
  <2>4. r.forget # copy[h].forget
    BY <2>3 DEF Known, Uses
  <2> QED BY <2>3, <2>4, AccountsAssumption
<1>11. OneOwner'
  <2>1. \A c \in Codes : \A b, d \in Addresses : Known(c, b)' /\ Known(c, d)' => b = d
    BY <1>1, <1>10 DEF AccountsInv, OneOwner
  <2>2. \A c \in Codes : \A b \in Addresses : Known(c, b)' => c \in drawn'
    BY <1>1, <1>3, <1>10 DEF AccountsInv, OneOwner
  <2>3. ASSUME NEW g \in Handlers, Pending(g)'
        PROVE  /\ handler'[g].code \in drawn' \ spent'
               /\ \A b \in Addresses : ~Known(handler[g].code, b)'
               /\ \A k \in Handlers \ {g} : Pending(k)' => handler'[k].code # handler'[g].code
    <3>1. g # h /\ Pending(g) /\ handler[g].code \in drawn \ spent /\ handler[g].code \in Codes
          /\ \A b \in Addresses : ~Known(handler[g].code, b)
      BY <1>5, <2>3 DEF AccountsInv, OneOwner, AccountsTypeOK
    <3>2. Redeems(h) => handler[g].code # handler[h].code
      BY <1>1, <1>6, <3>1
    <3>3. Pending(h) => handler[g].code # handler[h].code
      BY <3>1 DEF AccountsInv, OneOwner
    <3>4. handler'[g].code \in drawn' \ spent'
      BY <1>3, <1>5, <3>1, <3>2
    <3>5. \A b \in Addresses : ~Known(handler[g].code, b)'
      BY <1>5, <1>10, <3>1, <3>3
    <3>6. \A k \in Handlers \ {g} : Pending(k)' => handler'[k].code # handler'[g].code
      BY <1>5, <3>1 DEF AccountsInv, OneOwner
    <3> QED BY <3>4, <3>5, <3>6
  <2>4. \A b \in Addresses \ users' : forget'[b] = None
    BY <1>2, <1>3 DEF AccountsInv, OneOwner, AccountsTypeOK
  <2>5. \A g \in Handlers : handler'[g].code = handler[g].code
    BY <1>5
  <2> QED BY <2>1, <2>2, <2>3, <2>4, <2>5 DEF OneOwner
<1>12. CopyIsRow'
  <2> SUFFICES ASSUME NEW g \in Handlers \ behind', Holding(g)'
               PROVE  copy'[g] = Stored(Of(g))'
    BY DEF CopyIsRow
  <2>1. g # h /\ Holding(g) /\ g \notin behind /\ Of(g) # a /\ Of(g)' = Of(g)
    BY <1>3, <1>5
  <2>2. copy[g] = Stored(Of(g)) /\ Of(g) \in Addresses
    BY <2>1, Underway DEF AccountsInv, CopyIsRow, Holding
  <2>3. Stored(Of(g))' = Stored(Of(g))
    BY <1>3, <2>1, <2>2 DEF Stored, AccountsInv, AccountsTypeOK
  <2> QED BY <1>3, <2>2, <2>3
<1>13. ResetStands'
  <2> SUFFICES ASSUME NEW b \in Addresses \ overlapped', b \in users'
               PROVE  password'[b] = given'[b] /\ forget'[b] \notin spent'
    BY DEF ResetStands
  <2>1. b \in users /\ b \notin overlapped /\ password[b] = given[b] /\ forget[b] \notin spent
    BY <1>3 DEF AccountsInv, ResetStands
  <2>2. CASE b # a
    <3>1. password'[b] = given'[b] /\ forget'[b] = forget[b]
      BY <1>3, <2>1, <2>2 DEF AccountsInv, AccountsTypeOK
    <3>2. Redeems(h) => forget[b] # handler[h].code
      BY <1>1, <1>2, <1>6, <2>2 DEF AccountsInv, OneOwner, Known
    <3> QED BY <2>1, <3>1, <3>2
  <2>3. CASE b = a
    <3>1. h \notin behind /\ copy[h] = Stored(a)
      BY <1>3, <2>3 DEF AccountsInv, CopyIsRow
    <3>2. password'[b] = given'[b] /\ forget'[b] = r.forget
      BY <1>1, <1>3, <2>1, <2>3, <3>1 DEF AccountsInv, AccountsTypeOK
    <3>3. copy[h].forget = forget[a]
      BY <3>1 DEF Stored
    <3>4. None \notin spent'
      BY <1>7, AccountsAssumption DEF AccountsInv, AccountsTypeOK
    <3>5. Pending(h) => handler[h].code \notin spent
      BY DEF AccountsInv, OneOwner
    <3>6. r.forget \notin spent'
      BY <2>1, <2>3, <3>3, <3>4, <3>5
    <3> QED BY <3>2, <3>6
  <2> QED BY <2>2, <2>3
<1> QED BY <1>8, <1>9, <1>11, <1>12, <1>13 DEF AccountsInv

LEMMA SavingStep ==
  ASSUME AccountsInv, NEW h \in Handlers,
         SaveCode(h) \/ SaveConfirmed(h) \/ SavePassword(h) \/ SaveClear(h)
  PROVE  AccountsInv'
<1> DEFINE c == copy[h]
<1>1. Holding(h) /\ handler[h].step \notin {"done", "failed"}
  BY DEF SaveCode, SaveConfirmed, SavePassword, SaveClear, Holding, In
<1>2. handler[h] \in Request /\ Of(h) \in Addresses /\ handler[h] # Idle
  BY <1>1, Underway DEF AccountsInv, Idle
<1>3. /\ ~Is(h, "force") /\ c \in UserRow /\ handler[h].code \in Codes \cup {None}
      /\ handler[h].password \in Passwords \cup {None}
      /\ given \in [Addresses -> Passwords \cup {None}]
  BY <1>1, <1>2 DEF AccountsInv, AccountsTypeOK, Route, Holding, Redeems, In, Is, Request
<1>4. h \notin behind /\ Of(h) \notin overlapped => c.password = given[Of(h)]
  <2>1. Of(h) \in users
    BY <1>1, <1>2 DEF AccountsInv, Route, Holding, Redeems, In
  <2>2. h \notin behind => c.password = password[Of(h)]
    <3>1. h \notin behind => copy[h] = Stored(Of(h))
      BY <1>1, Zenon DEF AccountsInv, CopyIsRow
    <3>2. Stored(Of(h)).password = password[Of(h)]
      BY DEF Stored
    <3> QED BY <3>1, <3>2
  <2>3. Of(h) \notin overlapped => password[Of(h)] = given[Of(h)]
    BY <1>2, <2>1 DEF AccountsInv, ResetStands
  <2> QED BY <2>2, <2>3
<1>5. CASE SaveCode(h)
  <2> DEFINE r == [c EXCEPT !.forget = handler[h].code]
  <2>1. r \in UserRow /\ r.password = c.password /\ r.forget = handler[h].code
    BY <1>3 DEF UserRow
  <2>2. Saves(h, r) /\ UNCHANGED <<given, spent>> /\ Moved(h, "done")
    BY <1>2, <1>5, GoesToMoves DEF SaveCode, AccountsInv, Stages
  <2>3. Pending(h)
    BY <1>2, <1>5 DEF SaveCode, Pending, AccountsInv, Route, In
  <2> HIDE DEF r
  <2> QED BY <1>1, <1>3, <1>4, <2>1, <2>2, <2>3, SavesStep
<1>6. CASE SaveConfirmed(h)
  <2> DEFINE r == [c EXCEPT !.confirmed = TRUE]
  <2>1. r \in UserRow /\ r.password = c.password /\ r.forget = c.forget
    BY <1>3 DEF UserRow
  <2>2. Saves(h, r) /\ UNCHANGED <<given, spent>> /\ Moved(h, "done")
    BY <1>2, <1>6, GoesToMoves DEF SaveConfirmed, AccountsInv, Stages
  <2> HIDE DEF r
  <2> QED BY <1>1, <1>3, <1>4, <2>1, <2>2, SavesStep
<1>7. CASE SavePassword(h)
  <2> DEFINE r == [c EXCEPT !.password = handler[h].password]
  <2>1. r \in UserRow /\ r.password = handler[h].password /\ r.forget = c.forget
    BY <1>3 DEF UserRow
  <2>2. Saves(h, r) /\ given' = [given EXCEPT ![Of(h)] = handler[h].password] /\ spent' = spent
        /\ Moved(h, "clear") /\ Redeems(h)
    BY <1>2, <1>7, GoesToMoves DEF SavePassword, AccountsInv, Stages, Redeems, In
  <2>3. given' \in [Addresses -> Passwords \cup {None}] /\ given'[Of(h)] = handler[h].password
        /\ \A b \in Addresses \ {Of(h)} : given'[b] = given[b]
    BY <1>2, <1>3, <2>2
  <2> HIDE DEF r
  <2> QED BY <1>1, <1>3, <2>1, <2>2, <2>3, SavesStep
<1>8. CASE SaveClear(h)
  <2> DEFINE r == [c EXCEPT !.forget = None]
  <2>1. r \in UserRow /\ r.password = c.password /\ r.forget = None
    BY <1>3 DEF UserRow
  <2>2. Saves(h, r) /\ given' = given /\ spent' = spent \cup {handler[h].code}
        /\ Moved(h, "done") /\ Redeems(h)
    BY <1>2, <1>8, GoesToMoves DEF SaveClear, AccountsInv, Stages, Redeems, In
  <2> HIDE DEF r
  <2> QED BY <1>1, <1>3, <1>4, <2>1, <2>2, SavesStep
<1> QED BY <1>5, <1>6, <1>7, <1>8

LEMMA AddUserStep ==
  ASSUME AccountsInv, NEW h \in Handlers, AddUser(h)
  PROVE  AccountsInv'
<1> DEFINE a == Of(h)
<1>1. handler[h] \in Request /\ a \in Addresses /\ handler[h] # Idle /\ Route(h)
  BY Underway DEF AddUser, AccountsInv, In, Idle
<1>2. Moved(h, "done")
  BY <1>1, GoesToMoves DEF AddUser, AccountsInv, Stages
<1>3. /\ a \notin users /\ users' = users \cup {a} /\ In(h, "insert")
      /\ password' = [password EXCEPT ![a] = handler[h].password]
      /\ confirmed' = [confirmed EXCEPT ![a] = ~Is(h, "register")]
      /\ given' = [given EXCEPT ![a] = handler[h].password]
      /\ UNCHANGED <<forget, copy, drawn, spent, behind, overlapped>>
  BY DEF AddUser
<1>4. handler[h].password \in Passwords \cup {None} /\ handler[h].kind \in Entering
  BY <1>1, <1>3 DEF Request, Route, In
<1>5. AccountsTypeOK'
  BY <1>1, <1>2, <1>3, <1>4 DEF AccountsInv, AccountsTypeOK, Moved
<1>6. \A g \in Handlers : Route(g)'
  <2>1. Route(h)'
    BY <1>1, <1>2, <1>3, <1>4 DEF Route, Moved, In, Is, Of, Redeems, Entering
  <2>2. \A g \in Handlers \ {h} : Route(g)'
    BY <1>2, <1>3 DEF AccountsInv, Route, Moved, In, Is, Of, Redeems
  <2> QED BY <2>1, <2>2
<1>7. \A g \in Handlers : Holding(g)' => Holding(g) /\ g # h /\ Of(g)' = Of(g) /\ Of(g) \in users
  BY <1>2 DEF AccountsInv, Route, Moved, Holding, Redeems, In, Of, Idle
<1>8. OneOwner'
  <2>1. \A c \in Codes : \A b \in Addresses : Known(c, b)' => Known(c, b)
    BY <1>2, <1>3 DEF Known, Uses, Holding, Redeems, Moved, Of
  <2>2. \A g \in Handlers : (Pending(g)' => Pending(g)) /\ handler'[g].code = handler[g].code
    BY <1>2 DEF Pending, Moved, Is
  <2>3. \A g \in Handlers : Pending(g) => handler[g].code \in Codes
    BY DEF AccountsInv, OneOwner, AccountsTypeOK
  <2> QED BY <1>3, <2>1, <2>2, <2>3 DEF AccountsInv, OneOwner
<1>9. CopyIsRow'
  <2> SUFFICES ASSUME NEW g \in Handlers \ behind', Holding(g)'
               PROVE  copy'[g] = Stored(Of(g))'
    BY DEF CopyIsRow
  <2>1. Holding(g) /\ g \notin behind /\ Of(g)' = Of(g) /\ Of(g) # a /\ Of(g) \in Addresses
    BY <1>3, <1>7, Underway DEF AccountsInv, Holding
  <2> QED BY <1>3, <2>1 DEF AccountsInv, AccountsTypeOK, CopyIsRow, Stored
<1>10. ResetStands'
  <2>1. None \notin spent
    BY AccountsAssumption DEF AccountsInv, AccountsTypeOK
  <2> SUFFICES ASSUME NEW b \in Addresses \ overlapped', b \in users'
               PROVE  password'[b] = given'[b] /\ forget'[b] \notin spent'
    BY DEF ResetStands
  <2>2. CASE b = a
    BY <1>1, <1>3, <2>1, <2>2 DEF AccountsInv, AccountsTypeOK, OneOwner
  <2>3. CASE b # a
    BY <1>1, <1>3, <2>3 DEF AccountsInv, AccountsTypeOK, ResetStands
  <2> QED BY <2>2, <2>3
<1> QED BY <1>5, <1>6, <1>8, <1>9, <1>10 DEF AccountsInv

LEMMA AccountsStep == AccountsInv /\ [AccountsNext]_accountVars => AccountsInv'
<1> SUFFICES ASSUME AccountsInv, [AccountsNext]_accountVars PROVE AccountsInv'
  OBVIOUS
<1>1. CASE UNCHANGED accountVars
  <2>1. UNCHANGED <<users, password, forget, confirmed, handler, copy, drawn, given, spent,
                    behind, overlapped>>
    BY <1>1 DEF accountVars, columns, requests, accountHistory
  <2>2. AccountsTypeOK' /\ ResetStands'
    BY <2>1 DEF AccountsInv, AccountsTypeOK, ResetStands
  <2>3. \A h \in Handlers : Route(h)'
    BY <2>1 DEF AccountsInv, Route, In, Is, Of, Redeems
  <2>4. OneOwner' /\ CopyIsRow'
    BY <2>1 DEF AccountsInv, OneOwner, CopyIsRow, Known, Uses, Holding, Redeems, Pending, Is, Of, Stored
  <2> QED BY <2>2, <2>3, <2>4 DEF AccountsInv
<1>2. ASSUME NEW h \in Handlers, ReadOtp(h) \/ ReadVerify(h) PROVE AccountsInv'
  BY <1>2, ReadStep, LookupStep
<1> QED
  BY <1>1, <1>2, ArrivalStep, SendOtpStep, LookupStep, AddUserStep, ReadStep, SavingStep
     DEF AccountsNext

LEMMA AccountsInductive == AccountsSpec => []AccountsInv
  BY AccountsInitially, AccountsStep, PTL DEF AccountsSpec

\* Participants who use a new address at the same time all get in with its one
\* account, and a password that was reset stays, its code spent, unless another
\* request saved the row since it was read (forceLogin, updateByEmail, verify).
THEOREM AccountsAreSafe == AccountsSpec => []AccountsSafe
<1>1. AccountsInv => NobodyTurnedAway
  <2> SUFFICES ASSUME AccountsInv, NEW h \in Handlers, Is(h, "force")
               PROVE  ~In(h, "failed") /\ (In(h, "done") => Of(h) \in users)
    BY DEF NobodyTurnedAway
  <2>1. handler[h] # Idle
    BY DEF Is, Idle
  <2> QED BY <2>1 DEF AccountsInv, Route
<1>2. AccountsInv => AccountsSafe
  BY <1>1 DEF AccountsInv, AccountsSafe
<1> QED BY <1>2, AccountsInductive, PTL

-----------------------------------------------------------------------------
(* The trial exams                                                         *)

\* After a clean deletion nobody is left to bring the row back.
TrialInv ==
  /\ DOMAIN tab = Pages
  /\ tidy => exam = "none" /\ ~Held
  /\ PreviewsSafe

LEMMA TrialStep == TrialInv /\ [PreviewsNext]_previewVars => TrialInv'
<1> SUFFICES ASSUME TrialInv, [PreviewsNext]_previewVars PROVE TrialInv'
  OBVIOUS
<1> USE DEF TrialInv, PreviewsSafe, StaysDeleted, NoAnswersLeft, NoRequest
<1>1. CASE UNCHANGED previewVars
  BY <1>1 DEF previewVars, Held
<1>2. CASE CreatePreview \/ AskPdf \/ ShowPdf \/ DayPasses \/ FindStale
  BY <1>2 DEF CreatePreview, AskPdf, ShowPdf, DayPasses, FindStale, Held
<1>3. CASE DeletePreview \/ SweepStale
  <2>1. UNCHANGED tab /\ (Held' <=> Held)
    BY <1>3 DEF DeletePreview, SweepStale, Held
  <2>2. CASE Erase
    <3>1. exam' = "none" /\ (submitted' => exam = "none" /\ submitted)
          /\ (tidy' => tidy \/ (exam # "none" /\ ~Held))
      BY <2>2, Zenon DEF Erase, Erased
    <3> QED BY <2>1, <3>1
  <2>3. CASE UNCHANGED <<exam, submitted, tidy>>
    BY <2>1, <2>3
  <2> QED BY <1>3, <2>2, <2>3 DEF DeletePreview, SweepStale
<1>4. ASSUME NEW t \in Pages, StartRequest(t) PROVE TrialInv'
  BY <1>4 DEF StartRequest, Put, Held
<1>5. ASSUME NEW t \in Pages, ReadToSave(t) PROVE TrialInv'
  <2>1. tab'[t].row = exam
    BY <1>5 DEF ReadToSave, Put
  <2> QED BY <1>5, <2>1 DEF ReadToSave, Put, Held
<1>6. ASSUME NEW t \in Pages, SaveTrial(t) PROVE TrialInv'
  BY <1>6 DEF SaveTrial, Put, At, Upserted, Held
<1>7. ASSUME NEW t \in Pages, FindTrial(t) PROVE TrialInv'
  BY <1>7 DEF FindTrial, Put, Held
<1>8. ASSUME NEW t \in Pages, InsertAnswers(t) PROVE TrialInv'
  BY <1>8 DEF InsertAnswers, Put, Held
<1>9. ASSUME NEW t \in Pages, ClaimTrial(t) PROVE TrialInv'
  BY <1>9 DEF ClaimTrial, Put, Held
<1> QED BY <1>1, <1>2, <1>3, <1>4, <1>5, <1>6, <1>7, <1>8, <1>9 DEF PreviewsNext

\* A trial deleted while no request held its row stays deleted, and no answers of
\* a deleted trial are left or arrive (deletePreviewByCode, ExamDao.update).
THEOREM TrialsAreSafe == PreviewsSpec => []PreviewsSafe
<1>1. PreviewsInit => TrialInv
  BY DEF PreviewsInit, TrialInv, PreviewsSafe, StaysDeleted, NoAnswersLeft, Held
<1>2. TrialInv => PreviewsSafe
  BY DEF TrialInv
<1> QED BY <1>1, <1>2, TrialStep, PTL DEF PreviewsSpec
=============================================================================

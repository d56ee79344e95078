------------------------------- MODULE Points -------------------------------
(***************************************************************************)
(* The points of a test: each category stores the total of its questions,  *)
(* the test stores the totals of its categories.  A request that writes or *)
(* deletes a question recounts the category and then the test.             *)
(*                                                                         *)
(* A recount reads a row with its children and saves it in a later step.   *)
(* TypeORM's save writes the row as it was read, takes its place away from *)
(* every child that was not read, and inserts the row again if it has been *)
(* deleted meanwhile.  updateAll does not wait for its recount.            *)
(***************************************************************************)
EXTENDS Naturals, FiniteSetsExt

CONSTANTS
  QuestionIds,
  Blocks,       \* categories of the test
  MaxPoint,     \* bound on the points of a question
  MaxCount,     \* bound on the questions asked of a category
  Recounts      \* requests under way at a time

VARIABLES
  place,        \* category of a question; NoRow, or Nowhere without one
  weight,       \* point of a question
  block,        \* whether a category is in the test, in none or no row
  blockPoint,   \* questionCategory.totalPoint
  blockCount,   \* questionCategory.questionCount
  testTotal,    \* totalPoint and questionCount of the assessment
  recount,      \* what each request does
  astray,       \* history: rows that came between another's read and save
  behind        \* history: totals whose change no recount has followed

pointVars == <<place, weight, block, blockPoint, blockCount, testTotal, recount, astray, behind>>

NoRow == <<>>
Nowhere == <<"null">>
InTest == <<"test">>

ASSUME PointsAssumption == {NoRow, Nowhere, "test"} \cap Blocks = {}

NoRecount == [at |-> "idle"]

PointsInit ==
  /\ place = [q \in QuestionIds |-> NoRow]
  /\ weight = [q \in QuestionIds |-> 0]
  /\ block = [c \in Blocks |-> NoRow]
  /\ blockPoint = [c \in Blocks |-> 0]
  /\ blockCount = [c \in Blocks |-> 0]
  /\ testTotal = <<0, 0>>
  /\ recount = [r \in Recounts |-> NoRecount]
  /\ astray = {} /\ behind = {}

-----------------------------------------------------------------------------
ChildrenOf(c) == {q \in QuestionIds : place[q] = c}
BlocksOfTest == {c \in Blocks : block[c] = InTest}

\* A slip: the points of all questions are added.
AllPoints(children, count) == {MapThenSumSet(LAMBDA p : p[2], children) * count}

\* categoryTotalPoint: the points of the first question that has any, times
\* the questions asked; the query states no order.
CategoryPoints(children, count) ==
  IF \A p \in children : p[2] = 0 THEN {0}
  ELSE {p[2] * count : p \in {x \in children : x[2] > 0}}

\* assessmentTotals
Total(f, S) == MapThenSumSet(LAMBDA x : f[x], S)
TotalsOfTest(blocks) == <<Total(blockPoint, blocks), Total(blockCount, blocks)>>

\* A slip: only the questions with points are read.
ScoredRow(c) ==
  [count |-> blockCount[c],
   children |-> {<<q, weight[q]>> : q \in {x \in ChildrenOf(c) : weight[x] > 0}}]

\* What a recount of category c reads.
CategoryRow(c) == [count |-> blockCount[c], children |-> {<<q, weight[q]>> : q \in ChildrenOf(c)}]

\* Whether others are between reading and saving category c, or the test.
Saving(c, except) ==
  \E s \in Recounts \ except : recount[s].at = "saveBlock" /\ recount[s].block = c
SavingTest(except) == \E s \in Recounts \ except : recount[s].at = "saveTest"

Go(r, to) == recount' = [recount EXCEPT ![r] = to]
Idle(r) == recount[r] = NoRecount

-----------------------------------------------------------------------------
(* Questions and categories *)

\* updateAll: a new question, or a question with all its fields.  Nothing
\* recounts the category a question leaves.
SaveQuestion(r, q, c, w) ==
  /\ Idle(r)
  /\ block[c] # NoRow
  /\ place' = [place EXCEPT ![q] = c]
  /\ weight' = [weight EXCEPT ![q] = w]
  /\ astray' = IF place[q] # c /\ Saving(c, {}) THEN astray \cup {q} ELSE astray
  /\ behind' = IF place[q] \in Blocks \ {c} THEN behind \cup {place[q]} ELSE behind
  /\ Go(r, [at |-> "readBlock", block |-> c])
  /\ UNCHANGED <<block, blockPoint, blockCount, testTotal>>

\* deleteQuestion reads the question and its category, ...
AskDelete(r, q) ==
  /\ Idle(r)
  /\ place[q] # NoRow
  /\ Go(r, [at |-> "delete", question |-> q, block |-> place[q]])
  /\ UNCHANGED <<place, weight, block, blockPoint, blockCount, testTotal, astray, behind>>

Removed(q) ==
  /\ place' = [place EXCEPT ![q] = NoRow]
  /\ weight' = [weight EXCEPT ![q] = 0]

\* ... deletes the question and recounts.
DeleteQuestion(r) ==
  LET c == place[recount[r].question] IN
  /\ recount[r].at = "delete"
  /\ Removed(recount[r].question)
  /\ behind' = IF c \in Blocks \ {recount[r].block} THEN behind \cup {c} ELSE behind
  /\ Go(r, IF recount[r].block = Nowhere THEN NoRecount
           ELSE [at |-> "readBlock", block |-> recount[r].block])
  /\ UNCHANGED <<block, blockPoint, blockCount, testTotal, astray>>

\* create and updateOne of a category: nothing is recounted.
SaveCategory(c, n) ==
  /\ block' = [block EXCEPT ![c] = InTest]
  /\ blockCount' = [blockCount EXCEPT ![c] = n]
  /\ astray' = IF block[c] # InTest /\ SavingTest({}) THEN astray \cup {c} ELSE astray
  /\ behind' = behind \cup {c, "test"}
  /\ UNCHANGED <<place, weight, blockPoint, testTotal, recount>>

\* Its questions go with it.
DeleteCategory(c) ==
  /\ block[c] # NoRow
  /\ block' = [block EXCEPT ![c] = NoRow]
  /\ blockPoint' = [blockPoint EXCEPT ![c] = 0]
  /\ blockCount' = [blockCount EXCEPT ![c] = 0]
  /\ place' = [q \in QuestionIds |-> IF place[q] = c THEN NoRow ELSE place[q]]
  /\ weight' = [q \in QuestionIds |-> IF place[q] = c THEN 0 ELSE weight[q]]
  /\ behind' = (behind \ {c}) \cup {"test"}
  /\ UNCHANGED <<testTotal, recount, astray>>

-----------------------------------------------------------------------------
(* Recounts *)

\* updatePoint of the category, which may be gone.
ReadBlock(r) ==
  /\ recount[r].at = "readBlock"
  /\ LET c == recount[r].block IN
     Go(r, IF block[c] = NoRow THEN [at |-> "readTest"]
           ELSE [at |-> "saveBlock", block |-> c, row |-> CategoryRow(c)])
  /\ UNCHANGED <<place, weight, block, blockPoint, blockCount, testTotal, astray, behind>>

\* The save: questions that were read are in the category again, the others
\* nowhere; a category deleted meanwhile comes back without a test.
SaveBlock(r) ==
  LET c == recount[r].block
      row == recount[r].row
      read == {p[1] : p \in row.children}
  IN /\ recount[r].at = "saveBlock"
     /\ \E total \in CategoryPoints(row.children, row.count) :
          blockPoint' = [blockPoint EXCEPT ![c] = total]
     /\ blockCount' = [blockCount EXCEPT ![c] = row.count]
     /\ block' = [block EXCEPT ![c] = IF @ = NoRow THEN Nowhere ELSE @]
     /\ place' = [q \in QuestionIds |->
          IF place[q] = NoRow THEN NoRow
          ELSE IF q \in read THEN c
          ELSE IF place[q] = c THEN Nowhere ELSE place[q]]
     /\ behind' = (IF row = CategoryRow(c) /\ block[c] # NoRow THEN behind \ {c} ELSE behind \cup {c})
          \cup {place[q] : q \in {x \in read : place[x] \in Blocks \ {c}}}
     /\ astray' = astray
          \cup (IF Saving(c, {r}) THEN {q \in read : place[q] # c} ELSE {})
          \cup (IF block[c] = NoRow THEN {c} ELSE {})
     /\ Go(r, [at |-> "readTest"])
     /\ UNCHANGED <<weight, testTotal>>

ReadTest(r) ==
  /\ recount[r].at = "readTest"
  /\ Go(r, [at |-> "saveTest", blocks |-> BlocksOfTest, totals |-> TotalsOfTest(BlocksOfTest)])
  /\ UNCHANGED <<place, weight, block, blockPoint, blockCount, testTotal, astray, behind>>

\* Categories that were read are in the test again, the others in none.
SaveTest(r) ==
  /\ recount[r].at = "saveTest"
  /\ testTotal' = recount[r].totals
  /\ block' = [c \in Blocks |->
       IF block[c] = NoRow THEN NoRow
       ELSE IF c \in recount[r].blocks THEN InTest ELSE Nowhere]
  /\ behind' = IF recount[r].blocks = BlocksOfTest /\ recount[r].totals = TotalsOfTest(BlocksOfTest)
               THEN behind \ {"test"} ELSE behind \cup {"test"}
  /\ astray' = IF SavingTest({r}) THEN astray \cup (recount[r].blocks \ BlocksOfTest) ELSE astray
  /\ Go(r, NoRecount)
  /\ UNCHANGED <<place, weight, blockPoint, blockCount>>

\* An error, which updateAll does not even see, or the end of the process.
FailRecount(r) ==
  /\ ~Idle(r)
  /\ behind' = IF recount[r].at = "delete" THEN behind
               ELSE behind \cup {"test"} \cup
                 (IF recount[r].at \in {"readBlock", "saveBlock"} THEN {recount[r].block} ELSE {})
  /\ Go(r, NoRecount)
  /\ UNCHANGED <<place, weight, block, blockPoint, blockCount, testTotal, astray>>

PointsNext ==
  \/ \E r \in Recounts :
       \/ \E q \in QuestionIds :
            \/ \E c \in Blocks, w \in 0..MaxPoint : SaveQuestion(r, q, c, w)
            \/ AskDelete(r, q)
       \/ DeleteQuestion(r) \/ ReadBlock(r) \/ SaveBlock(r)
       \/ ReadTest(r) \/ SaveTest(r) \/ FailRecount(r)
  \/ \E c \in Blocks : DeleteCategory(c) \/ \E n \in 1..MaxCount : SaveCategory(c, n)

PointsSpec == PointsInit /\ [][PointsNext]_pointVars

-----------------------------------------------------------------------------
(* What the totals say                                                     *)

\* A question without a category was saved in it while another request was
\* between reading that category and saving it; a category without a test
\* likewise, or it had been deleted meanwhile.
NothingLost ==
  /\ \A q \in QuestionIds : place[q] = Nowhere => q \in astray
  /\ \A c \in Blocks : block[c] = Nowhere => c \in astray

\* Each question asked of a category is worth as much as one of its questions
\* with points, if there is any.
RightPoint(c, n) ==
  IF \E q \in ChildrenOf(c) : weight[q] # 0
  THEN \E q \in ChildrenOf(c) : weight[q] # 0 /\ n = blockCount[c] * weight[q]
  ELSE n = 0

\* When no recount is under way the stored totals are those of the questions
\* and the categories, except where a category was edited or left by a
\* question, a recount failed, or a recount saved what it had read before
\* another change.
TotalsRight ==
  (\A r \in Recounts : Idle(r)) =>
    /\ \A c \in BlocksOfTest \ behind : RightPoint(c, blockPoint[c])
    /\ "test" \notin behind => testTotal = TotalsOfTest(BlocksOfTest)
=============================================================================

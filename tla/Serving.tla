------------------------------ MODULE Serving ------------------------------
(***************************************************************************)
(* The page of a section that getQuestions makes for a participant: the    *)
(* questions drawn for the exam's code, less those that a skip rule hides  *)
(* because of an answer stored earlier, and the rules the client applies   *)
(* itself because their condition is on the same page.                     *)
(*                                                                         *)
(* Questions, rules and answers are read one after the other, while        *)
(* another tab stores answers and the administrator edits the test.  What  *)
(* the client hides live it leaves out of its submission: the answers      *)
(* stored for it earlier stay, and go on deciding other pages.             *)
(***************************************************************************)
EXTENDS Naturals, FiniteSets

CONSTANTS
  Pool,       \* the questions of the test
  Matrix,     \* those whose answers are rows with a cell each
  Sheets,     \* its sections
  Lines,      \* answers of a question, the rows of a matrix
  Cells,      \* the columns of a matrix
  Visits,     \* requests of the participant's tabs
  Any,        \* a null in a rule or in an answer
  MaxEdits    \* bound: edits by the administrator

ASSUME ServingAssumption ==
  /\ Matrix \subseteq Pool
  /\ Any \notin Pool \cup Sheets \cup Lines \cup Cells
  /\ MaxEdits \in Nat

VARIABLES
  sheetOf,    \* the section of each question; Any when it is not active
  place,      \* where stableShuffle, or orderNumber, puts each question
  limit,      \* questionCount of each section
  active,     \* the active rules
  given,      \* answers stored for the code: <<question, answer, cell>>
  detailed,   \* questions with an examDetail row
  visit,      \* what each request read and showed
  tampered    \* edits so far

servingVars == <<sheetOf, place, limit, active, given, detailed, visit, tampered>>
testVars == <<sheetOf, place, limit, active>>

\* A rule hides a question, or one row of a matrix, on any answer to another
\* question, on one answer or row, or on one cell.
Rule == {r \in [target : Pool, row : Lines \cup {Any}, on : Pool,
                answer : Lines \cup {Any}, cell : Cells \cup {Any}] :
  /\ r.target # r.on
  /\ r.row # Any => r.target \in Matrix
  /\ r.cell # Any => r.on \in Matrix /\ r.answer # Any}

\* The rows an answer to q may be stored as.
RowsOf(q) == {q} \X Lines \X (IF q \in Matrix THEN Cells ELSE {Any})

Unopened == [step |-> "idle"]

ServingInit ==
  /\ sheetOf \in [Pool -> Sheets]
  /\ place \in {f \in [Pool -> 1..Cardinality(Pool)] : \A p, q \in Pool : f[p] = f[q] => p = q}
  /\ limit \in [Sheets -> 1..Cardinality(Pool)]
  /\ active \in SUBSET Rule
  /\ given = {} /\ detailed = {} /\ tampered = 0
  /\ visit = [v \in Visits |-> Unopened]

-----------------------------------------------------------------------------
(* getQuestions *)

Went(v, record) == visit' = [visit EXCEPT ![v] = record]

OnSheet(s) == {q \in Pool : sheetOf[q] = s}

\* findByCategory: the first questionCount questions, in an order that the
\* code of the exam determines.
Drawn(s) == {q \in OnSheet(s) : Cardinality({p \in OnSheet(s) : place[p] < place[q]}) < limit[s]}

DrawQuestions(v, s) ==
  /\ visit[v].step \in {"idle", "shown"}
  /\ Went(v, [step |-> "drawn", sheet |-> s, drawn |-> Drawn(s), fresh |-> TRUE])
  /\ UNCHANGED <<testVars, given, detailed, tampered>>

FetchRules(v) ==
  /\ visit[v].step = "drawn"
  /\ LET d == visit[v] IN
     Went(v, [step |-> "fetched", sheet |-> d.sheet, drawn |-> d.drawn, fresh |-> d.fresh,
              rules |-> {r \in active : r.target \in d.drawn}])
  /\ UNCHANGED <<testVars, given, detailed, tampered>>

\* isSkipRuleMatched
Fits(g, r) == g[1] = r.on /\ r.answer \in {Any, g[2]} /\ r.cell \in {Any, g[3]}

Matched(r) == \E g \in given : Fits(g, r)

\* A slip: the server also decides what the client decides live.
PriorAny(v) == visit[v].rules

\* The rules the server decides: their condition is on another page.
Prior(v) == {r \in visit[v].rules : r.on \notin visit[v].drawn}

\* applyMatchedSkipRules: a question goes as a whole, or with its last row.
Hits(v, q) == {r \in Prior(v) : r.target = q /\ Matched(r)}
RowsLeft(v, q) == Lines \ {r.row : r \in Hits(v, q)}
Left(v) == {q \in visit[v].drawn :
  /\ \A r \in Hits(v, q) : r.row # Any
  /\ RowsLeft(v, q) # {}}

\* createManyIfAbsent adds the examDetail rows that are missing.
ShowPage(v) ==
  /\ visit[v].step = "fetched"
  /\ LET d == visit[v]
         left == Left(v)
     IN  /\ Went(v, [step |-> "shown", sheet |-> d.sheet, drawn |-> d.drawn, fresh |-> d.fresh,
                     rows |-> [q \in left |-> RowsLeft(v, q)],
                     live |-> {r \in d.rules : {r.target, r.on} \subseteq left}])
         /\ detailed' = detailed \cup left
  /\ UNCHANGED <<testVars, given, tampered>>

-----------------------------------------------------------------------------
(* Answers arrive, the administrator edits                                 *)

Aged == visit' = [v \in Visits |->
  IF visit[v].step = "idle" THEN visit[v] ELSE [visit[v] EXCEPT !.fresh = FALSE]]

\* UserAnswerService.create: the rows of the questions sent are replaced, an
\* empty answer is a row as well, and what is not sent stays.  The page that
\* is sent may be any that a tab still shows.
StoreAnswers ==
  /\ \E sent \in SUBSET detailed : \E chosen \in SUBSET (UNION {RowsOf(q) : q \in sent}) :
       given' = {g \in given : g[1] \notin sent} \cup chosen
                  \cup {<<q, Any, Any>> : q \in sent \ {g[1] : g \in chosen}}
  /\ Aged
  /\ UNCHANGED <<testVars, detailed, tampered>>

Tamper ==
  /\ tampered < MaxEdits
  /\ tampered' = tampered + 1
  /\ Aged
  /\ UNCHANGED <<place, limit, given, detailed>>

\* A question is moved or made inactive.
PlaceQuestion(q, s) ==
  /\ Tamper
  /\ sheetOf' = [sheetOf EXCEPT ![q] = s]
  /\ UNCHANGED active

SwitchRule(r) ==
  /\ Tamper
  /\ active' = IF r \in active THEN active \ {r} ELSE active \cup {r}
  /\ UNCHANGED sheetOf

ServingNext ==
  \/ \E v \in Visits :
       \/ \E s \in Sheets : DrawQuestions(v, s)
       \/ FetchRules(v)
       \/ ShowPage(v)
  \/ StoreAnswers
  \/ \E q \in Pool, s \in Sheets \cup {Any} : PlaceQuestion(q, s)
  \/ \E r \in Rule : SwitchRule(r)

ServingSpec == ServingInit /\ [][ServingNext]_servingVars

-----------------------------------------------------------------------------
(* Properties                                                              *)

\* Whatever was stored, changed and edited before, a row is on the page
\* exactly if no active rule with its condition on another page fits a stored
\* answer: changing an answer back brings back what it hid.  A rule between
\* two questions of the page goes to the client unless one of them is hidden.
\* Excepted are pages made while answers or edits arrived.
PageRight ==
  \A v \in Visits : visit[v].step = "shown" /\ visit[v].fresh =>
    LET drawn == Drawn(visit[v].sheet)
        rows == visit[v].rows
        Hidden(q, l) == \E g \in given, r \in active :
          r.target = q /\ r.row \in {Any, l} /\ r.on \notin drawn /\ Fits(g, r)
    IN  /\ \A q \in Pool, l \in Lines :
             (q \in DOMAIN rows /\ l \in rows[q]) <=> (q \in drawn /\ ~Hidden(q, l))
        /\ \A q \in DOMAIN rows : rows[q] # {}
        /\ \A r \in active : {r.target, r.on} \subseteq drawn =>
             \/ r \in visit[v].live
             \/ \E q \in {r.target, r.on} : \A l \in Lines : Hidden(q, l)
=============================================================================

------------------------------ MODULE Templates ------------------------------
(***************************************************************************)
(* The report templates of the studio, and which one of a test is active.  *)
(*                                                                         *)
(* To activate a template is a transaction of two statements: the first    *)
(* clears isActive in the rows of the test, the second sets it in one.     *)
(* PostgreSQL runs it at READ COMMITTED: a statement sees the rows that    *)
(* were committed when it began, waits for rows another transaction has    *)
(* changed and then looks at them again.  An import that activates is the  *)
(* same transaction with the new row inserted first.                       *)
(***************************************************************************)
EXTENDS Naturals, FiniteSets

CONSTANTS
  TemplateIds,   \* rows of pdf_template, present and future
  Tests,         \* assessments
  Editors        \* activations under way at a time

VARIABLES
  belongs,       \* assessmentId of each row; <<>> without one or without row
  rows,          \* rows committed
  activeRows,    \* rows with isActive
  activation,    \* what each activation does
  disturbed      \* history: tests where a row escaped a clearing statement

templateVars == <<belongs, rows, activeRows, activation, disturbed>>

NoActivation == [at |-> "idle"]

TemplatesInit ==
  /\ rows \in SUBSET TemplateIds
  /\ belongs \in [TemplateIds -> Tests \cup {<<>>}]
  /\ \A t \in TemplateIds \ rows : belongs[t] = <<>>
  /\ activeRows = {}
  /\ activation = [w \in Editors |-> NoActivation]
  /\ disturbed = {}

-----------------------------------------------------------------------------
Activating(w) == activation[w] # NoActivation

\* An id for a new row: no row has it and no activation knows it.
Fresh(t) ==
  /\ t \notin rows
  /\ \A w \in Editors : Activating(w) =>
       activation[w].id # t /\ (activation[w].at # "begin" => t \notin activation[w].seen)

\* Rows changed by the transactions of others.
LockedBy(w) == IF activation[w].at = "mark" THEN activation[w].seen ELSE {}
Free(t) == \A w \in Editors : t \notin LockedBy(w)

\* A slip: a new template keeps the isActive of the object it was saved from.
CreateActive(t, a) ==
  /\ Fresh(t)
  /\ rows' = rows \cup {t}
  /\ belongs' = [belongs EXCEPT ![t] = a]
  /\ activeRows' = activeRows \cup {t}
  /\ UNCHANGED <<activation, disturbed>>

CreateTemplate(t, a) ==
  /\ Fresh(t)
  /\ rows' = rows \cup {t}
  /\ belongs' = [belongs EXCEPT ![t] = a]
  /\ UNCHANGED <<activeRows, activation, disturbed>>

\* update keeps isActive and writes the assessmentId of the form.
UpdateTemplate(t, a) ==
  /\ t \in rows /\ Free(t)
  /\ belongs[t] # a
  /\ belongs' = [belongs EXCEPT ![t] = a]
  /\ disturbed' = IF t \in activeRows \/ \E w \in Editors : Activating(w) /\ activation[w].id = t
                  THEN disturbed \cup {a} ELSE disturbed
  /\ UNCHANGED <<rows, activeRows, activation>>

SetInactive(t) ==
  /\ t \in activeRows /\ Free(t)
  /\ activeRows' = activeRows \ {t}
  /\ UNCHANGED <<belongs, rows, activation, disturbed>>

RemoveTemplate(t) ==
  /\ t \in rows /\ Free(t)
  /\ rows' = rows \ {t}
  /\ activeRows' = activeRows \ {t}
  /\ belongs' = [belongs EXCEPT ![t] = <<>>]
  /\ UNCHANGED <<activation, disturbed>>

\* setActive of the service reads the row: it must have a test.
ReadTemplate(w, t) ==
  /\ ~Activating(w)
  /\ t \in rows /\ belongs[t] # <<>>
  /\ activation' = [activation EXCEPT ![w] = [at |-> "begin", id |-> t, test |-> belongs[t], new |-> FALSE]]
  /\ UNCHANGED <<belongs, rows, activeRows, disturbed>>

\* importTemplate with activate: the row is inserted, others do not see it.
InsertTemplate(w, t, a) ==
  /\ ~Activating(w) /\ Fresh(t)
  /\ activation' = [activation EXCEPT ![w] = [at |-> "begin", id |-> t, test |-> a, new |-> TRUE]]
  /\ UNCHANGED <<belongs, rows, activeRows, disturbed>>

\* The first statement begins.
BeginClear(w) ==
  /\ activation[w].at = "begin"
  /\ activation' = [activation EXCEPT ![w] =
       [at |-> "clear", id |-> @.id, test |-> @.test, new |-> @.new,
        seen |-> {t \in rows : belongs[t] = @.test}]]
  /\ UNCHANGED <<belongs, rows, activeRows, disturbed>>

\* It has the rows it waited for: those that still are of the test it clears.
ClearTest(w) ==
  /\ activation[w].at = "clear"
  /\ \A t \in activation[w].seen : Free(t)
  /\ activation' = [activation EXCEPT ![w] =
       [at |-> "mark", id |-> @.id, test |-> @.test, new |-> @.new,
        seen |-> {t \in @.seen \cap rows : belongs[t] = @.test}]]
  /\ UNCHANGED <<belongs, rows, activeRows, disturbed>>

\* The second statement, for which a row just removed is no row, and the
\* commit.
CommitActive(w) ==
  LET t == activation[w].id
      a == activation[w].test
      late == {v \in Editors \ {w} : activation[v].at \in {"clear", "mark"}}
  IN /\ activation[w].at = "mark"
     /\ \A v \in Editors \ {w} : t \notin LockedBy(v)
     /\ rows' = IF activation[w].new THEN rows \cup {t} ELSE rows
     /\ belongs' = IF activation[w].new THEN [belongs EXCEPT ![t] = a] ELSE belongs
     /\ activeRows' = (activeRows \ activation[w].seen) \cup ({t} \cap rows')
     /\ disturbed' = disturbed \cup
          {b \in Tests : b = belongs'[t] /\ \E v \in late : activation[v].test = b /\ t \notin activation[v].seen}
     /\ activation' = [activation EXCEPT ![w] = NoActivation]

\* An error, a deadlock or the end of the process undoes the transaction.
Rollback(w) ==
  /\ Activating(w)
  /\ activation' = [activation EXCEPT ![w] = NoActivation]
  /\ UNCHANGED <<belongs, rows, activeRows, disturbed>>

TemplatesNext ==
  \/ \E t \in TemplateIds :
       \/ \E a \in Tests \cup {<<>>} : CreateTemplate(t, a) \/ UpdateTemplate(t, a)
       \/ SetInactive(t) \/ RemoveTemplate(t)
       \/ \E w \in Editors : ReadTemplate(w, t) \/ \E a \in Tests : InsertTemplate(w, t, a)
  \/ \E w \in Editors : BeginClear(w) \/ ClearTest(w) \/ CommitActive(w) \/ Rollback(w)

TemplatesSpec == TemplatesInit /\ [][TemplatesNext]_templateVars

-----------------------------------------------------------------------------
(* What the studio promises                                                *)

ActiveOf(a) == {t \in activeRows : belongs[t] = a}

\* A test has at most one active template, unless an active one was moved to
\* it or a row was activated that another activation's clearing had not seen.
OneActive == \A a \in Tests \ disturbed : Cardinality(ActiveOf(a)) <= 1

\* The same without exception, as the entity's comment says.
AlwaysOneActive == \A a \in Tests : Cardinality(ActiveOf(a)) <= 1
=============================================================================

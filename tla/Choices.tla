------------------------------ MODULE Choices ------------------------------
(***************************************************************************)
(* An administrator saves the answers of a matrix question: each row of    *)
(* the form, and then its cell, is looked up and updated, or inserted when *)
(* it has no id yet, one statement at a time and in no transaction.  The   *)
(* save is cut off anywhere and sent again from the same form, another     *)
(* administrator saves the question too, and rows and cells are deleted    *)
(* meanwhile.  Rows and cells of the database are records with an id, the  *)
(* line of the form they come from and the version of it last written.     *)
(***************************************************************************)
EXTENDS Naturals, FiniteSets

CONSTANTS
  Authors,      \* administrators with the question open
  MaxIds,       \* bound: rows and cells ever inserted
  MaxCuts,      \* bound: saves broken off
  MaxDeletes    \* bound: rows and cells deleted by hand

ASSUME ChoicesAssumption ==
  /\ IsFiniteSet(Authors)
  /\ {MaxIds, MaxCuts, MaxDeletes} \subseteq Nat

VARIABLES
  answers,      \* questionAnswer: [id, line, val]
  cells,        \* questionAnswerMatrix: [id, line, answer, val]
  fresh,        \* the next id
  form,         \* what each editor's page sends: [line, val, answer, cell], ids or None
  save,         \* where the save of each editor is
  cuts,         \* history: saves each editor had cut off
  deletes,      \* history: deletions
  alone         \* history: saves during which nobody else wrote

choiceVars == <<answers, cells, fresh, form, save, cuts, deletes, alone>>

None == 0
Kept == "kept"
NotSaving == [at |-> "page"]
Lines == {Kept} \cup Authors

\* The question has one row with one cell; every line has one of each.
ChoicesInit ==
  /\ answers = {[id |-> 1, line |-> Kept, val |-> Kept]}
  /\ cells = {[id |-> 2, line |-> Kept, answer |-> 1, val |-> Kept]}
  /\ fresh = 3 /\ form = [e \in Authors |-> {}] /\ save = [e \in Authors |-> NotSaving]
  /\ cuts = [e \in Authors |-> 0] /\ deletes = 0 /\ alone = {}

SaveAt(e, at) == save[e].at = at
AnswerAt(i) == {a \in answers : a.id = i}
CellAt(i) == {c \in cells : c.id = i}

\* The last cell of a row.  A row whose save was cut off shows up without a cell.
LastCells(a) == {c \in cells : c.answer = a.id /\ \A d \in cells : d.answer = a.id => d.id <= c.id}
CellOf(a) == IF LastCells(a) = {} THEN None ELSE (CHOOSE c \in LastCells(a) : TRUE).id
Shown(a, val) == [line |-> a.line, val |-> val, answer |-> a.id, cell |-> CellOf(a)]
NewLine(e) == [line |-> e, val |-> e, answer |-> None, cell |-> None]

\* Each editor opens the page once, changes all of its lines or none, and adds
\* a line.
OpenPage(e) ==
  /\ SaveAt(e, "page") /\ form[e] = {}
  /\ \E changed \in BOOLEAN :
       form' = [form EXCEPT ![e] =
         {Shown(a, IF changed THEN e ELSE a.val) : a \in answers} \cup {NewLine(e)}]
  /\ UNCHANGED <<answers, cells, fresh, save, cuts, deletes, alone>>

\* Lines are saved in the order of their rows, a new one last.
First(line, lines) ==
  \A other \in lines : other.answer = None \/ (line.answer # None /\ line.answer <= other.answer)
Takes(e, lines) ==
  \E line \in lines :
    /\ First(line, lines)
    /\ save' = [save EXCEPT ![e] = [at |-> "answer", line |-> line, left |-> lines \ {line}, to |-> None]]

\* updateAll sends the lines of the page; it may be sent again after a failure.
StartSave(e) ==
  /\ SaveAt(e, "page") /\ Takes(e, form[e])
  /\ alone' = IF \A d \in Authors \ {e} : SaveAt(d, "page") \/ SaveAt(d, "saved") THEN alone \cup {e} ELSE alone \ {e}
  /\ UNCHANGED <<answers, cells, fresh, form, cuts, deletes>>

\* Another save, or a deletion, ends the quiet of a save.
Disturb(who) == alone' = alone \ {e \in Authors \ who : ~SaveAt(e, "page")}

-----------------------------------------------------------------------------
(* The answer of a line                                                    *)

Line(e) == save[e].line
Step(e, at, to) ==
  save' = [save EXCEPT ![e] = [at |-> at, line |-> Line(e), left |-> @.left, to |-> to]]

\* A slip: an unchanged order is taken for an unchanged row.
UnchangedOrder(found, line) == TRUE

\* updateOne writes nothing when the row is as the form has it.
Unchanged(found, line) == found.val = line.val

CreateAnswer(e) ==
  /\ SaveAt(e, "answer") /\ Line(e).answer = None /\ fresh < MaxIds
  /\ answers' = answers \cup {[id |-> fresh, line |-> Line(e).line, val |-> Line(e).val]}
  /\ fresh' = fresh + 1 /\ Step(e, "cell", fresh) /\ Disturb({e})
  /\ UNCHANGED <<cells, form, cuts, deletes>>

\* A row that has gone is an error that is only logged: the answer is undefined.
FindAnswer(e) ==
  LET found == AnswerAt(Line(e).answer)
  IN /\ SaveAt(e, "answer") /\ Line(e).answer # None
     /\ \/ found = {} /\ Step(e, "cell", None)
        \/ \E a \in found : Step(e, IF Unchanged(a, Line(e)) THEN "cell" ELSE "update", a.id)
     /\ UNCHANGED <<answers, cells, fresh, form, cuts, deletes, alone>>

\* The update of a row deleted since touches nothing and is not noticed.
UpdateAnswer(e) ==
  /\ SaveAt(e, "update") /\ Step(e, "cell", save[e].to) /\ Disturb({e})
  /\ answers' = {IF a.id = save[e].to THEN [a EXCEPT !.val = Line(e).val] ELSE a : a \in answers}
  /\ UNCHANGED <<cells, fresh, form, cuts, deletes>>

-----------------------------------------------------------------------------
(* Its cell                                                                *)

NextLine(e) ==
  \/ save[e].left = {} /\ save' = [save EXCEPT ![e] = [at |-> "saved"]]
  \/ Takes(e, save[e].left)

\* The foreign key refuses a row that has gone, and takes none at all.
CreateCell(e) ==
  /\ SaveAt(e, "cell") /\ Line(e).cell = None /\ fresh < MaxIds
  /\ save[e].to = None \/ AnswerAt(save[e].to) # {}
  /\ cells' = cells \cup
       {[id |-> fresh, line |-> Line(e).line, answer |-> save[e].to, val |-> Line(e).val]}
  /\ fresh' = fresh + 1 /\ NextLine(e) /\ Disturb({e})
  /\ UNCHANGED <<answers, form, cuts, deletes>>

FindCell(e) ==
  /\ SaveAt(e, "cell") /\ Line(e).cell # None
  /\ \E c \in CellAt(Line(e).cell) :
       IF Unchanged(c, Line(e)) THEN NextLine(e) ELSE Step(e, "updateCell", save[e].to)
  /\ UNCHANGED <<answers, cells, fresh, form, cuts, deletes, alone>>

UpdateCell(e) ==
  /\ SaveAt(e, "updateCell") /\ NextLine(e) /\ Disturb({e})
  /\ CellAt(Line(e).cell) # {} => AnswerAt(save[e].to) # {}
  /\ cells' = {IF c.id = Line(e).cell
               THEN [c EXCEPT !.val = Line(e).val, !.answer = save[e].to] ELSE c : c \in cells}
  /\ UNCHANGED <<answers, fresh, form, cuts, deletes>>

\* A statement fails (a cell that has gone, a foreign key), the process ends or
\* the reply is lost: what is written stays, and the page still has its lines.
CutOff(e) ==
  /\ ~SaveAt(e, "page") /\ ~SaveAt(e, "saved") /\ cuts[e] < MaxCuts
  /\ cuts' = [cuts EXCEPT ![e] = @ + 1] /\ save' = [save EXCEPT ![e] = NotSaving]
  /\ alone' = alone \ {e}
  /\ UNCHANGED <<answers, cells, fresh, form, deletes>>

-----------------------------------------------------------------------------
(* deleteAnswer: one row with its cells, or cells                          *)

DeleteAnswer ==
  /\ deletes < MaxDeletes /\ deletes' = deletes + 1 /\ Disturb({})
  /\ \E a \in answers : /\ answers' = answers \ {a}
                        /\ cells' = {c \in cells : c.answer # a.id}
  /\ UNCHANGED <<fresh, form, save, cuts>>
DeleteCell ==
  /\ deletes < MaxDeletes /\ deletes' = deletes + 1 /\ Disturb({})
  /\ \E c \in cells : cells' = cells \ {c}
  /\ UNCHANGED <<answers, fresh, form, save, cuts>>

ChoicesNext ==
  \/ \E e \in Authors :
       \/ OpenPage(e) \/ StartSave(e) \/ CreateAnswer(e) \/ FindAnswer(e) \/ UpdateAnswer(e)
       \/ CreateCell(e) \/ FindCell(e) \/ UpdateCell(e) \/ CutOff(e)
  \/ DeleteAnswer \/ DeleteCell

ChoicesSpec == ChoicesInit /\ [][ChoicesNext]_choiceVars

-----------------------------------------------------------------------------
\* The times pages that do not know the id of a line were sent to store it:
\* a save is sent again after it was cut off.
Sendings(l, id) ==
  {s \in Authors \X (0..MaxIds) \X (0..MaxCuts) :
     s[3] <= cuts[s[1]] /\ \E x \in form[s[1]] : x.line = l /\ x.answer = s[2] /\ x[id] = None}

\* A line is stored once for each time it was sent without an id: twice only when
\* its save was cut off, or a page was opened between a row and its cell.
FirstOf(l) == IF l = Kept THEN 1 ELSE 0
AnswersOf(l) == {a \in answers : a.line = l}
CellsOf(l) == {c \in cells : c.line = l}
StoredOnce ==
  \A l \in Lines :
    /\ Cardinality(AnswersOf(l)) <= FirstOf(l) + Cardinality(Sendings(l, "answer"))
    /\ Cardinality(CellsOf(l)) <= FirstOf(l) + Cardinality(Sendings(l, "cell"))

\* A save that reports success, with nobody else writing, has stored every line
\* as it was sent, the cell under its own row: unless the page is older than the
\* deletion of the row, whose loss the save does not report.
SavedAsSent ==
  \A e \in alone : SaveAt(e, "saved") =>
    \A sent \in form[e] :
      sent.answer = None \/ AnswerAt(sent.answer) # {} =>
        \E a \in answers, c \in cells :
          /\ a.line = sent.line /\ a.val = sent.val
          /\ c.line = sent.line /\ c.val = sent.val /\ c.answer = a.id

\* A cell belongs to a stored row of its own line.  Cells of no row, which no
\* page shows, are left only by a page older than the deletion of the row.
CellsInPlace ==
  \A c \in cells :
    \/ \E a \in answers : a.id = c.answer /\ a.line = c.line
    \/ c.answer = None /\ deletes > 0

ChoicesSafe == StoredOnce /\ SavedAsSent /\ CellsInPlace
=============================================================================

------------------------------- MODULE Answers -------------------------------
(***************************************************************************)
(* The answers of one exam: the rows of userAnswer with its code, and the  *)
(* requests that submit the answers of a section.                          *)
(*                                                                         *)
(* create reads the rows once, decides from them what to delete, to insert *)
(* and to update, and then makes the three calls one after the other: each *)
(* is atomic (bulkInsert and bulkUpdatePoints are transactions), together  *)
(* they are not.  No index keeps two rows of one answer apart.             *)
(***************************************************************************)
EXTENDS Naturals, FiniteSets

CONSTANTS
  Tabs,       \* browser tabs, each with one submission at a time
  Sections,   \* a partition of the questions
  Options,    \* the answers and matrix cells of a question
  None,       \* the answer of a row without an option: a text, or nothing
  Values,     \* points, or texts
  Null,       \* no value: the question was left without an answer
  Blank,      \* an empty value, which create passes over in a scored section
  MaxCalls    \* bound: submissions of a behaviour

Questions == UNION Sections
Keys == Options \cup {None}
MaxRows == MaxCalls * Cardinality(Questions) * Cardinality(Keys)

ASSUME AnswersAssumption ==
  /\ \A S, T \in Sections : S # T => S \cap T = {}
  /\ IsFiniteSet(Questions) /\ IsFiniteSet(Options) /\ None \notin Options
  /\ {Null, Blank} \cap Values = {} /\ Null # Blank
  /\ MaxCalls \in Nat

\* What a submission selects in a question: options with their points, or none.
Selections ==
  (UNION {[O -> Values] : O \in (SUBSET Options) \ {{}}}) \cup [{None} -> Values \cup {Null, Blank}]

VARIABLES
  rows,       \* the rows of the exam
  nextId,     \* the sequence of their ids
  pc,         \* where each tab's submission is
  section,    \* the section whose form it submits
  sent,       \* the selection of each question it writes
  seen,       \* the rows it read
  calls,      \* submissions so far
  last,       \* history: what the last submission of a question selected
  mixed       \* history: questions that two submissions wrote at a time

vars == <<rows, nextId, pc, section, sent, seen, calls, last, mixed>>
request == <<section, sent, seen>>

Row == [id: 1..MaxRows, q: Questions, key: Keys, val: Values \cup {Null}]

\* No submission of the question has completed since one failed, or at all.
Unknown == [k \in {} |-> Null]

Payload == UNION {[D -> Selections] : D \in SUBSET Questions}

TypeOK ==
  /\ rows \subseteq Row
  /\ nextId \in 1..(MaxRows + 1)
  /\ pc \in [Tabs -> {"idle", "delete", "insert", "update"}]
  /\ section \in [Tabs -> Sections]
  /\ \A t \in Tabs : sent[t] \in Payload /\ seen[t] \subseteq Row
  /\ calls \in 0..MaxCalls
  /\ \A q \in Questions : last[q] \in Selections \cup {Unknown}
  /\ mixed \subseteq Questions

Init ==
  /\ rows = {}
  /\ nextId = 1
  /\ pc = [t \in Tabs |-> "idle"]
  /\ section \in {[t \in Tabs |-> S] : S \in Sections}
  /\ sent = [t \in Tabs |-> [q \in {} |-> Unknown]]
  /\ seen = [t \in Tabs |-> {}]
  /\ calls = 0
  /\ last = [q \in Questions |-> Unknown]
  /\ mixed = {}

-----------------------------------------------------------------------------
(* What a submission does to the rows it read                              *)

\* A slip: the answers of other sections are taken too.
KeptAll(payload, S) == payload

\* Answers sent again under another section's name are dropped.
Kept(payload, S) == [q \in DOMAIN payload \cap S |-> payload[q]]

Written(t) == {w \in (DOMAIN sent[t]) \X Keys :
                 w[2] \in DOMAIN sent[t][w[1]] /\ sent[t][w[1]][w[2]] # Blank}

\* obsoleteIds: rows of a submitted question whose answer is not selected now.
\* An empty value selects the answer None.
Obsolete(t) == {r \in seen[t] : r.q \in DOMAIN sent[t] /\ r.key \notin DOMAIN sent[t][r.q]}

\* A slip: rows are matched by their question and their value.
StandsSame(t, q, k) == {r \in seen[t] : r.q = q /\ r.key = k /\ r.val = sent[t][q][k]}

\* existByWriteKey: the last row of an answer stands for it.
Stands(t, q, k) == {r \in seen[t] : r.q = q /\ r.key = k}
Updated(t, q, k) == CHOOSE r \in Stands(t, q, k) : \A s \in Stands(t, q, k) : s.id <= r.id

-----------------------------------------------------------------------------
Goto(t, from, step) ==
  /\ pc[t] = from
  /\ pc' = [pc EXCEPT ![t] = step]

Shared(t, payload) ==
  UNION {DOMAIN payload \cap DOMAIN sent[u] : u \in {u \in Tabs \ {t} : pc[u] # "idle"}}

\* The whole form of section S arrives; an old client also repeats, without
\* their types, the answers of other sections.
Submit(t, S) ==
  /\ calls < MaxCalls
  /\ calls' = calls + 1
  /\ Goto(t, "idle", "delete")
  /\ \E D \in (SUBSET S) \ {{}}, sel \in Selections, old \in SUBSET (Questions \ S) :
       LET payload == [q \in D \cup old |-> IF q \in D THEN sel ELSE [k \in {None} |-> Null]]
       IN /\ sent' = [sent EXCEPT ![t] = Kept(payload, S)]
          /\ mixed' = mixed \cup Shared(t, Kept(payload, S))
  /\ section' = [section EXCEPT ![t] = S]
  /\ seen' = [seen EXCEPT ![t] = rows]
  /\ UNCHANGED <<rows, nextId, last>>

\* deleteByIds
Delete(t) ==
  /\ Goto(t, "delete", "insert")
  /\ rows' = {r \in rows : r.id \notin {o.id : o \in Obsolete(t)}}
  /\ last' = [q \in Questions |-> IF q \in DOMAIN sent[t] THEN Unknown ELSE last[q]]
  /\ UNCHANGED <<nextId, request, calls, mixed>>

\* bulkInsert
Insert(t) ==
  /\ Goto(t, "insert", "update")
  /\ LET new == {w \in Written(t) : Stands(t, w[1], w[2]) = {}}
     IN \E ids \in [new -> nextId..(nextId + Cardinality(new) - 1)] :
          /\ \A v, w \in new : v # w => ids[v] # ids[w]
          /\ rows' = rows \cup {[id |-> ids[w], q |-> w[1], key |-> w[2],
                                 val |-> sent[t][w[1]][w[2]]] : w \in new}
          /\ nextId' = nextId + Cardinality(new)
  /\ UNCHANGED <<request, calls, last, mixed>>

\* bulkUpdatePoints: an undefined value leaves the text that is there.
Update(t) ==
  /\ Goto(t, "update", "idle")
  /\ LET new(r) == sent[t][r.q][r.key]
         hit(r) == /\ <<r.q, r.key>> \in Written(t)
                   /\ Stands(t, r.q, r.key) # {}
                   /\ r.id = Updated(t, r.q, r.key).id
     IN rows' = {IF hit(r) /\ new(r) # Null THEN [r EXCEPT !.val = new(r)] ELSE r : r \in rows}
  /\ last' = [q \in Questions |-> IF q \in DOMAIN sent[t] THEN sent[t][q] ELSE last[q]]
  /\ UNCHANGED <<nextId, request, calls, mixed>>

\* A call throws, or the replica goes down: what was done stays.
Abort(t) ==
  /\ pc[t] # "idle"
  /\ pc' = [pc EXCEPT ![t] = "idle"]
  /\ UNCHANGED <<rows, nextId, request, calls, last, mixed>>

Next ==
  \E t \in Tabs :
    \/ \E S \in Sections : Submit(t, S)
    \/ Delete(t) \/ Insert(t) \/ Update(t) \/ Abort(t)

Spec == Init /\ [][Next]_vars

-----------------------------------------------------------------------------
(* What the submissions guarantee                                          *)

RowsOf(q) == {r \in rows : r.q = q}
Busy(q) == \E t \in Tabs : pc[t] # "idle" /\ q \in DOMAIN sent[t]

\* One answer has one row, as long as no two submissions wrote the question at
\* a time: whatever was deleted, failed half-way or was sent again.
OneRowEach ==
  \A q \in Questions \ mixed :
    \A r, s \in RowsOf(q) : r.key = s.key => r = s

\* When the last submission of a question completed, and no other ever wrote
\* the question at the same time, the rows are its selection: no answer chosen
\* before it remains and none of its own is missing.  (An emptied text or
\* number may be left as it was: create passes over it.)
LastAnswerStands ==
  \A q \in Questions \ mixed :
    ~Busy(q) /\ last[q] # Unknown =>
      /\ \A r \in RowsOf(q) :
           /\ r.key \in DOMAIN last[q]
           /\ last[q][r.key] \in Values => r.val = last[q][r.key]
      /\ \A k \in DOMAIN last[q] : last[q][k] # Blank => \E r \in RowsOf(q) : r.key = k

\* The answers of other sections that an old client repeats, without their
\* types, never touch the rows of those sections.
OtherSectionsUntouched ==
  [][\A t \in Tabs : pc'[t] # pc[t] =>
       \A q \in Questions \ section'[t] : RowsOf(q)' = RowsOf(q)]_vars

\* What create leaves for an answer: one row, and the last selection.
AnswersStand == OneRowEach /\ LastAnswerStands
=============================================================================

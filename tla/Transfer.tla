------------------------------ MODULE Transfer ------------------------------
(***************************************************************************)
(* The copy of a test: its rows are read with one query per kind of rows,  *)
(* while other people edit them, and written in one transaction as rows of *)
(* a new test.  An export and its import into the same server go the same  *)
(* way.                                                                    *)
(*                                                                         *)
(* Modelled are the questions, their answers, the groups the answers are   *)
(* scored in, which are a forest and may belong to other tests, and the    *)
(* rules between questions.  A row of the copy is <<"new", the row it was  *)
(* made of>>.                                                              *)
(***************************************************************************)
EXTENDS Naturals

CONSTANTS
  Items,        \* questions
  Choices,      \* answers
  Groups,       \* groups of answers
  MaxEdits,     \* bound: edits of a behaviour
  Gone          \* no row

ASSUME TransferAssumption ==
  /\ Gone \notin Items \cup Choices \cup Groups /\ Gone \notin {"own", "other"}
  /\ Gone \notin {<<"new", g>> : g \in Groups}

VARIABLES
  home,         \* the test of each question: "own" is the one to copy
  choiceOf,     \* the question of each answer
  groupOf,      \* its group
  groupHome,    \* the test of each group
  parentOf,     \* the parent of each group
  links,        \* rules
  stage,        \* how far the copier is
  got,          \* what it has read
  copies,       \* the test it made last
  editsDone,
  fresh         \* history: nothing was edited since the copier began

testRows == <<home, choiceOf, groupOf, groupHome, parentOf, links>>
transferVars == <<testRows, stage, got, copies, editsDone, fresh>>

\* A rule hides a question, or one of its answers, if another was answered, or
\* answered so.
Links == {r \in [target : Items, dep : Items, answer : Choices \cup {Gone}, hides : Choices \cup {Gone}] :
            r.target # r.dep}

Nothing == [items |-> {}, choices |-> {}, of |-> <<>>, in |-> <<>>, groups |-> {}, asked |-> {},
            up |-> [g \in Groups |-> Gone], links |-> {}]

TransferInit ==
  /\ home \in [Items -> {"own", "other"}]
  /\ choiceOf \in [Choices -> Items]
  /\ groupOf \in [Choices -> Groups \cup {Gone}]
  /\ groupHome \in [Groups -> {"own", "other"}]
  /\ parentOf \in [Groups -> Groups \cup {Gone}] /\ \A g \in Groups : parentOf[g] # g
  /\ links \in {{}} \cup {{r} : r \in Links}
  /\ \A r \in links : (r.answer # Gone => choiceOf[r.answer] = r.dep)
                   /\ (r.hides # Gone => choiceOf[r.hides] = r.target)
  /\ stage = "idle" /\ got = Nothing /\ copies = {} /\ editsDone = 0 /\ fresh = TRUE

-----------------------------------------------------------------------------
(* What others do meanwhile *)

Edits == editsDone < MaxEdits /\ editsDone' = editsDone + 1 /\ fresh' = FALSE
copier == <<stage, got, copies>>

MoveItem(q) ==
  /\ Edits /\ home[q] # Gone
  /\ home' = [home EXCEPT ![q] = IF @ = "own" THEN "other" ELSE "own"]
  /\ UNCHANGED <<choiceOf, groupOf, groupHome, parentOf, links, copier>>

\* Its answers go with it, its rules stay.
DeleteItem(q) ==
  /\ Edits /\ home[q] # Gone
  /\ home' = [home EXCEPT ![q] = Gone]
  /\ choiceOf' = [c \in Choices |-> IF choiceOf[c] = q THEN Gone ELSE choiceOf[c]]
  /\ UNCHANGED <<groupOf, groupHome, parentOf, links, copier>>

DeleteChoice(c) ==
  /\ Edits /\ choiceOf[c] # Gone
  /\ choiceOf' = [choiceOf EXCEPT ![c] = Gone]
  /\ UNCHANGED <<home, groupOf, groupHome, parentOf, links, copier>>

Regroup(c, g) ==
  /\ Edits /\ choiceOf[c] # Gone /\ groupHome[g] # Gone
  /\ groupOf' = [groupOf EXCEPT ![c] = g]
  /\ UNCHANGED <<home, choiceOf, groupHome, parentOf, links, copier>>

\* A group with children is kept by their foreign key; its answers lose it.
DeleteGroup(g) ==
  /\ Edits /\ groupHome[g] # Gone /\ \A h \in Groups : parentOf[h] # g
  /\ groupHome' = [groupHome EXCEPT ![g] = Gone]
  /\ parentOf' = [parentOf EXCEPT ![g] = Gone]
  /\ groupOf' = [c \in Choices |-> IF groupOf[c] = g THEN Gone ELSE groupOf[c]]
  /\ UNCHANGED <<home, choiceOf, links, copier>>

SetParent(g, h) ==
  /\ Edits /\ g # h /\ groupHome[g] # Gone /\ groupHome[h] # Gone
  /\ parentOf' = [parentOf EXCEPT ![g] = h]
  /\ UNCHANGED <<home, choiceOf, groupOf, groupHome, links, copier>>

AddLink(r) ==
  /\ Edits /\ home[r.target] # Gone /\ home[r.dep] # Gone
  /\ r.answer # Gone => choiceOf[r.answer] = r.dep
  /\ r.hides # Gone => choiceOf[r.hides] = r.target
  /\ links' = links \cup {r}
  /\ UNCHANGED <<home, choiceOf, groupOf, groupHome, parentOf, copier>>

-----------------------------------------------------------------------------
(* exportBundle *)

Reads(from, to, what) ==
  /\ stage = from /\ stage' = to /\ got' = what
  /\ UNCHANGED <<testRows, editsDone>>

ReadItems ==
  /\ Reads("idle", "choices", [Nothing EXCEPT !.items = {q \in Items : home[q] = "own"}])
  /\ fresh' = TRUE /\ copies' = {}

ReadChoices ==
  /\ LET there == {c \in Choices : choiceOf[c] \in got.items}
     IN Reads("choices", "groups", [got EXCEPT !.choices = there,
                                               !.of = [c \in there |-> choiceOf[c]],
                                               !.in = [c \in there |-> groupOf[c]]])
  /\ UNCHANGED <<copies, fresh>>

\* The groups that are read next: of the answers, and the parents of those read.
Missing ==
  (({got.in[c] : c \in got.choices} \cup {got.up[g] : g \in got.groups}) \ {Gone}) \ got.asked

Load(S) ==
  LET there == {g \in S : groupHome[g] # Gone}
  IN [got EXCEPT !.groups = @ \cup there, !.asked = @ \cup S,
                 !.up = [g \in Groups |-> IF g \in there THEN parentOf[g] ELSE got.up[g]]]

ReadGroups ==
  /\ Reads("groups", "parents", Load({g \in Groups : groupHome[g] = "own"}))
  /\ UNCHANGED <<copies, fresh>>

\* A query for each generation; a group that was deleted is not asked for again.
ReadParents ==
  /\ IF Missing = {} THEN Reads("parents", "links", got)
     ELSE Reads("parents", "parents", Load(Missing))
  /\ UNCHANGED <<copies, fresh>>

ReadLinks ==
  /\ Reads("links", "check", [got EXCEPT !.links = {r \in links : r.target \in got.items}])
  /\ UNCHANGED <<copies, fresh>>

-----------------------------------------------------------------------------
(* importBundle *)

\* acRef
GroupRef(g) == IF g \in got.groups THEN g ELSE Gone

\* orderByParent throws when a group is its own ancestor.
Forest ==
  \A S \in (SUBSET got.groups) \ {{}} : \E g \in S : GroupRef(got.up[g]) \notin S

\* assertBundle: the whole copy is refused for an answer to hide that is not there.
Check ==
  /\ stage = "check"
  /\ IF Forest /\ \A r \in got.links : r.hides \in got.choices \cup {Gone}
     THEN stage' = "commit" /\ UNCHANGED got
     ELSE stage' = "idle" /\ got' = Nothing
  /\ UNCHANGED <<testRows, copies, editsDone, fresh>>

\* A slip: only the other question is looked for.
KeptLinkByQuestion(r) == r.dep \in got.items

\* A rule on a question or an answer that was not read is left out.
KeptLink(r) == r.dep \in got.items /\ r.answer \in got.choices \cup {Gone}

New(x) == IF x = Gone THEN Gone ELSE <<"new", x>>

CopiedRows ==
  [items |-> {New(q) : q \in got.items},
   choices |-> {<<New(c), New(got.of[c]), New(GroupRef(got.in[c]))>> : c \in got.choices},
   groups |-> {<<New(g), New(GroupRef(got.up[g]))>> : g \in got.groups},
   links |-> {<<New(r.target), New(r.dep), New(r.answer), New(r.hides)>> : r \in {r \in got.links : KeptLink(r)}}]

\* One transaction: all of it, or nothing when a query fails.
Commit ==
  /\ stage = "commit" /\ stage' = "idle" /\ got' = Nothing
  /\ copies' \in {copies, {CopiedRows}}
  /\ UNCHANGED <<testRows, editsDone, fresh>>

TransferNext ==
  \/ \E q \in Items : MoveItem(q) \/ DeleteItem(q)
  \/ \E c \in Choices : DeleteChoice(c) \/ \E g \in Groups : Regroup(c, g)
  \/ \E g \in Groups : DeleteGroup(g) \/ \E h \in Groups : SetParent(g, h)
  \/ \E r \in Links : AddLink(r)
  \/ ReadItems \/ ReadChoices \/ ReadGroups \/ ReadParents \/ ReadLinks
  \/ Check \/ Commit

TransferSpec == TransferInit /\ [][TransferNext]_transferVars

-----------------------------------------------------------------------------
OwnItems == {q \in Items : home[q] = "own"}
OwnChoices == {c \in Choices : choiceOf[c] \in OwnItems}
OwnLinks == {r \in links : {r.target, r.dep} \subseteq OwnItems /\ r.answer \in OwnChoices \cup {Gone}}

\* Groups the own answers are scored in, and the ancestors of all.
Ancestry ==
  CHOOSE S \in SUBSET Groups :
    LET closed(T) == /\ \A g \in Groups : groupHome[g] = "own" => g \in T
                     /\ \A c \in OwnChoices : groupOf[c] # Gone => groupOf[c] \in T
                     /\ \A g \in T : parentOf[g] # Gone => parentOf[g] \in T
    IN closed(S) /\ \A T \in SUBSET Groups : closed(T) => S \subseteq T

Faithful(t) ==
  /\ t.items = {New(q) : q \in OwnItems}
  /\ t.choices = {<<New(c), New(choiceOf[c]), New(groupOf[c])>> : c \in OwnChoices}
  /\ t.groups = {<<New(g), New(parentOf[g])>> : g \in Ancestry}
  /\ t.links = {<<New(r.target), New(r.dep), New(r.answer), New(r.hides)>> : r \in OwnLinks}

\* Whatever is edited while a test is read: the copy refers to rows of its own
\* only, and its groups are a forest.  When nothing was edited meanwhile the
\* copy is the whole test, with the groups of other tests its answers are
\* scored in, but without the rules on questions of other tests.
CopyStandsAlone ==
  \A t \in copies :
    LET choices == {c[1] : c \in t.choices}
        groups == {g[1] : g \in t.groups}
    IN /\ \A c \in t.choices : c[2] \in t.items /\ c[3] \in groups \cup {Gone}
       /\ \A r \in t.links : r[1] \in t.items /\ r[2] \in t.items /\ {r[3], r[4]} \subseteq choices \cup {Gone}
       /\ \A S \in (SUBSET t.groups) \ {{}} : \E g \in S : g[2] \notin {h[1] : h \in S}
       /\ \A g \in t.groups : g[2] \in groups \cup {Gone}
       /\ fresh => Faithful(t)
=============================================================================

------------------------------ MODULE Matching ------------------------------
(***************************************************************************)
(* A template is exported from the studio of one environment and imported  *)
(* into another, where the same test has other ids.  The questions its     *)
(* tokens name are matched with those of the test there: by group and      *)
(* text, by text, by position.  The axes of its wheels are matched by the  *)
(* name of the answer category.  Between, the test over there was edited.  *)
(***************************************************************************)
EXTENDS Naturals, Sequences, FiniteSets

Seqs == INSTANCE SequencesExt

CONSTANTS
  Texts,        \* normalised texts of questions and names of groups
  Originals,    \* tests: sequences of groups [title, questions], a question is [id, name, type]
  Shift,        \* the copy of question i has the id i + Shift over there
  NewId,        \* questions added over there are numbered from here on
  MaxRewrites   \* bound: edits of the test over there

Types == {"choice", "text"}
Tests == Seq([title : Texts, questions : Seq([id : Nat, name : Texts, type : Types])])

\* The questions of a test by group and place in it.
Places(test) == UNION {{g} \X DOMAIN test[g].questions : g \in DOMAIN test}
IdAt(test, p) == test[p[1]].questions[p[2]].id

ASSUME MatchingAssumption ==
  /\ {Shift, NewId, MaxRewrites} \subseteq Nat
  /\ Originals \subseteq Tests
  /\ \A test \in Originals : \A p, r \in Places(test) :
       /\ IdAt(test, p) = IdAt(test, r) => p = r
       /\ IdAt(test, p) + Shift < NewId

VARIABLES
  here,         \* the test the template comes from: its groups, the questions with ids
  there,        \* the test it is imported into
  rewrites,     \* edits of it so far
  tokens,       \* questions the template names
  imported,     \* the template is imported
  found         \* the pairs of questions matched: [from, to, how]

matchingVars == <<here, there, rewrites, tokens, imported, found>>

Untitled == "" \* a question without a text, or with nothing but a picture

Shifted(test) ==
  [g \in DOMAIN test |->
     [title |-> test[g].title,
      questions |-> [k \in DOMAIN test[g].questions |->
        [id |-> test[g].questions[k].id + Shift,
         name |-> test[g].questions[k].name, type |-> test[g].questions[k].type]]]]

MatchingInit ==
  /\ here \in Originals /\ there = Shifted(here)
  /\ rewrites = 0 /\ tokens = {} /\ imported = FALSE /\ found = {}

\* Signatures: groups without a question are not counted.
Filled(test, g) == {h \in 1..g : test[h].questions # <<>>}
SigAt(test, p) ==
  LET q == test[p[1]].questions[p[2]]
  IN [id |-> q.id, type |-> q.type, name |-> q.name, categoryName |-> test[p[1]].title,
      categoryIndex |-> Cardinality(Filled(test, p[1])), questionIndex |-> p[2]]
QuestionSigs(test) == {SigAt(test, p) : p \in Places(test)}

-----------------------------------------------------------------------------
(* matchQuestions                                                          *)

Candidates(how, s, target) ==
  {q \in target :
     \/ how = "name" /\ s.name # Untitled /\ q.name = s.name /\ q.categoryName = s.categoryName
     \/ how = "text" /\ s.name # Untitled /\ q.name = s.name
     \/ how = "position" /\ q.categoryIndex = s.categoryIndex /\ q.questionIndex = s.questionIndex}

\* A slip: a question over there may be found several times.
UnmatchedOrNot(matched, how, s, q) == how = "position" => s.type = q.type

Unmatched(matched, how, s, q) ==
  /\ \A m \in matched : m.to # q.id
  /\ how = "position" => s.type = q.type

\* The candidate must be the only one, free or not.
Wants(matched, how, s, q, target) ==
  /\ \A m \in matched : m.from # s.id
  /\ Candidates(how, s, target) = {q} /\ Unmatched(matched, how, s, q)

\* A pass goes through the questions from the last to the first: of those that
\* want the same question over there, the last one takes it.
Before(s, r) ==
  \/ s.categoryIndex < r.categoryIndex
  \/ s.categoryIndex = r.categoryIndex /\ s.questionIndex < r.questionIndex
Takes(matched, how, s, q, src, target) ==
  /\ Wants(matched, how, s, q, target)
  /\ \A r \in src : Before(s, r) => ~Wants(matched, how, r, q, target)
Pass(matched, how, src, target) ==
  matched \cup {[from |-> p[1].id, to |-> p[2].id, how |-> how] :
                   p \in {r \in src \X target : Takes(matched, how, r[1], r[2], src, target)}}

MatchQuestions(src, target) ==
  Pass(Pass(Pass({}, "name", src, target), "text", src, target), "position", src, target)

\* remapQuestionTokens leaves a token it does not know as it is.
Remapped(token) ==
  IF \E m \in found : m.from = token
  THEN (CHOOSE m \in found : m.from = token).to ELSE token

-----------------------------------------------------------------------------
(* The test over there is edited, and the template imported                *)

Rewrite(test) ==
  /\ ~imported /\ rewrites < MaxRewrites /\ rewrites' = rewrites + 1
  /\ there' = test /\ there' # there /\ UNCHANGED <<here, tokens, imported, found>>
EditQuestion ==
  \E g \in DOMAIN there : \E k \in DOMAIN there[g].questions :
    \/ \E t \in Texts : Rewrite([there EXCEPT ![g].questions[k].name = t])
    \/ \E y \in Types : Rewrite([there EXCEPT ![g].questions[k].type = y])
    \/ Rewrite([there EXCEPT ![g].questions = Seqs!RemoveAt(@, k)])
AddQuestion ==
  \E g \in DOMAIN there, t \in Texts :
    \E k \in 1..Len(there[g].questions) + 1 :
      Rewrite([there EXCEPT ![g].questions = Seqs!InsertAt(@, k,
                 [id |-> NewId + rewrites, name |-> t, type |-> "choice"])])
EditGroups ==
  \/ \E g \in DOMAIN there, t \in Texts : Rewrite([there EXCEPT ![g].title = t])
  \/ Rewrite(Seqs!Reverse(there))

\* Only the questions the template and its variables name are in the bundle.
ImportMatched ==
  /\ ~imported /\ imported' = TRUE
  /\ \E ids \in SUBSET {s.id : s \in QuestionSigs(here)} :
       /\ tokens' = ids /\ ids # {}
       /\ found' = MatchQuestions({s \in QuestionSigs(here) : s.id \in ids}, QuestionSigs(there))
  /\ UNCHANGED <<here, there, rewrites>>

MatchingNext == EditQuestion \/ AddQuestion \/ EditGroups \/ ImportMatched

MatchingSpec == MatchingInit /\ [][MatchingNext]_matchingVars

-----------------------------------------------------------------------------
Sig(test, id) == CHOOSE s \in QuestionSigs(test) : s.id = id

\* No two tokens of an imported template mean the same question.
OneEach == imported => \A m, n \in found : m.to = n.to => m = n

\* In a test nobody edited, whatever its texts and groups repeat, every token
\* means the copy of the question it meant.
CopyExact ==
  imported /\ rewrites = 0 =>
    \A id \in tokens : Remapped(id) = id + Shift

\* A question that is the only one with its text in its group, in both tests,
\* is found wherever it stands now.
TextWins ==
  imported =>
    \A id \in tokens, q \in QuestionSigs(there) :
      LET s == Sig(here, id)
          alike(t) == {r \in QuestionSigs(t) : r.name = s.name /\ r.categoryName = s.categoryName}
      IN s.name # Untitled /\ alike(there) = {q} /\ alike(here) = {s} => Remapped(id) = q.id

\* What the warning of an import says of the tokens of a question it missed:
\* they come out empty.  (The token keeps its id, which may be that of another
\* question over there: see the README.)
MissedIsEmpty ==
  imported =>
    \A id \in tokens : (\A m \in found : m.from # id) =>
      \A q \in QuestionSigs(there) : q.id # Remapped(id)

MatchingSafe == OneEach /\ CopyExact /\ TextWins
=============================================================================

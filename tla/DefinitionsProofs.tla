-------------------------- MODULE DefinitionsProofs --------------------------
(***************************************************************************)
(* The rules between questions, the active template of a test, the rows    *)
(* that recounts save and the messages an organisation schedules, for any  *)
(* number of rules, questions, templates, tests, categories,               *)
(* administrators, invitations and replicas.                               *)
(*                                                                         *)
(* Rules: until another rule is written a check stays good, since rules    *)
(* can only go (StillValid). The rule it lets through starts from a        *)
(* question outside a set that is closed under the other rules and holds   *)
(* the question it leads to, so that a circle with the new rule would have *)
(* been one, within that set or without the rule, before. Templates: the   *)
(* rows a clearing statement has seen hold every active row of its test    *)
(* (ClearsAll). Points: whoever is about to save a category has read every *)
(* question that is in it (ReadAll), and a total is right or a request is  *)
(* still to save it (RightUnlessDue). Schedules: one replica has a row     *)
(* that is being sent (OneHolder), and nothing was mailed for a row before *)
(* its one run (MailedOnce).                                               *)
(***************************************************************************)
EXTENDS SkipRules, Templates, Points, Schedules, FiniteSetTheorems, TLAPS

StillValid ==
  \A w \in Admins : ruleEdit[w][1] = "checked" => Valid(ruleEdit[w][3], ruleEdit[w][2])

SkipInv == SkipTypeOK /\ RulesSound /\ StillValid

-----------------------------------------------------------------------------
\* What a request under way is about.
LEMMA EditShape ==
  ASSUME SkipTypeOK, NEW w \in Admins
  PROVE  \/ ruleEdit[w] = NoEdit /\ ruleEdit[w][1] = "idle"
         \/ /\ ruleEdit[w][1] \in {"read", "checked", "late"}
            /\ ruleEdit[w][2] \in RuleIds /\ ruleEdit[w][3] \in Rule
            /\ ruleEdit[w][4] \in {"create", "update"}
<1>1. ruleEdit[w] \in Edits
  BY DEF SkipTypeOK
<1>2. QED
  BY <1>1 DEF Edits, NoEdit

LEMMA SkipInitInv == SkipInit => SkipInv
<1> SUFFICES ASSUME SkipInit PROVE SkipInv
  OBVIOUS
<1>1. SkipTypeOK
  BY DEF SkipInit, SkipTypeOK, Edits, Stored
<1>2. Checked = {}
  BY DEF SkipInit, Checked
<1>3. RulesSound
  BY <1>2 DEF RulesSound, NoCircle, NoTwin
<1>4. StillValid
  BY DEF SkipInit, StillValid, NoEdit
<1>5. QED
  BY <1>1, <1>3, <1>4 DEF SkipInv

\* Fewer rules leave a rule valid, and the checked ones sound.
LEMMA FewerRules ==
  ASSUME NEW i \in RuleIds, NEW r, Valid(r, i), Stored' \subseteq Stored,
         \A j \in Stored' : rules'[j] = rules[j]
  PROVE  Valid(r, i)'
<1>1. PICK seen \in SUBSET Questions :
        /\ r.dep \in seen /\ r.target \notin seen
        /\ \A j \in Stored \ {i} : rules[j].target \in seen => rules[j].dep \in seen
  BY DEF Valid, NoCycle
<1>2. \A j \in Stored' \ {i} : rules'[j].target \in seen => rules'[j].dep \in seen
  BY <1>1
<1>3. \A j \in Stored' \ {i} : ~Same(rules'[j], r)
  BY DEF Valid
<1>4. QED
  BY <1>1, <1>2, <1>3 DEF Valid, NoCycle

LEMMA FewerChecked ==
  ASSUME RulesSound, Checked' \subseteq Checked, \A j \in Checked' : rules'[j] = rules[j]
  PROVE  RulesSound'
<1>1. NoCircle'
  <2> SUFFICES ASSUME NEW circle \in SUBSET Questions, circle # {}
               PROVE  \E q \in circle : \A j \in Checked' :
                        rules'[j].target = q => rules'[j].dep \notin circle
    BY DEF NoCircle
  <2>1. PICK q \in circle : \A j \in Checked : rules[j].target = q => rules[j].dep \notin circle
    BY DEF RulesSound, NoCircle
  <2>2. QED
    BY <2>1
<1>2. NoTwin'
  BY DEF RulesSound, NoTwin
<1>3. QED
  BY <1>1, <1>2 DEF RulesSound

-----------------------------------------------------------------------------
\* A rule that passed its check closes no circle.
LEMMA NoNewCircle ==
  ASSUME NoCircle, NEW i \in RuleIds, NEW r \in Rule, NoCycle(r, Stored \ {i}),
         rules'[i] = r, Checked' \subseteq Checked \cup {i},
         \A j \in Checked' \ {i} : rules'[j] = rules[j]
  PROVE  NoCircle'
<1> SUFFICES ASSUME NEW circle \in SUBSET Questions, circle # {}
             PROVE  \E q \in circle : \A j \in Checked' :
                      rules'[j].target = q => rules'[j].dep \notin circle
  BY DEF NoCircle
<1>1. PICK seen \in SUBSET Questions :
        /\ r.dep \in seen /\ r.target \notin seen
        /\ \A j \in Stored \ {i} : rules[j].target \in seen => rules[j].dep \in seen
  BY DEF NoCycle
<1>2. CASE circle \cap seen = {}
  <2>1. PICK q \in circle : \A j \in Checked : rules[j].target = q => rules[j].dep \notin circle
    BY DEF NoCircle
  <2>2. r.dep \notin circle
    BY <1>1, <1>2
  <2>3. QED
    BY <2>1, <2>2
<1>3. CASE circle \cap seen # {}
  <2>1. PICK q \in circle \cap seen :
          \A j \in Checked : rules[j].target = q => rules[j].dep \notin circle \cap seen
    BY <1>3 DEF NoCircle
  <2>2. ASSUME NEW j \in Checked', rules'[j].target = q PROVE rules'[j].dep \notin circle
    <3>1. j # i
      BY <1>1, <2>2
    <3>2. rules[j].dep \in seen
      BY <1>1, <2>2, <3>1 DEF Checked
    <3>3. QED
      BY <2>1, <2>2, <3>1, <3>2
  <2>3. QED
    BY <2>1, <2>2
<1>4. QED
  BY <1>2, <1>3

\* To write a checked rule keeps the rules sound.
LEMMA WriteChecked ==
  ASSUME SkipInv, NEW w \in Admins, ruleEdit[w][1] = "checked", SkipTypeOK',
         rules' = [rules EXCEPT ![ruleEdit[w][2]] = ruleEdit[w][3]],
         unchecked' = unchecked \ {ruleEdit[w][2]}
  PROVE  RulesSound'
<1> DEFINE i == ruleEdit[w][2]
           r == ruleEdit[w][3]
<1>1. i \in RuleIds /\ r \in Rule /\ Valid(r, i)
  BY EditShape DEF SkipInv, StillValid
<1>2. rules'[i] = r /\ \A j \in RuleIds \ {i} : rules'[j] = rules[j]
  BY <1>1 DEF SkipInv, SkipTypeOK
<1>3. Checked' \subseteq Checked \cup {i} /\ Checked' \subseteq RuleIds
  BY <1>2 DEF Checked, Stored
<1> HIDE DEF i, r
<1>4. NoCircle'
  BY <1>1, <1>2, <1>3, NoNewCircle DEF SkipInv, RulesSound, Valid
<1>5. NoTwin'
  <2>1. \A j \in Checked' \ {i} : ~Same(rules'[j], r)
    BY <1>1, <1>2, <1>3 DEF Valid, Checked
  <2>2. \A j \in Checked' \ {i} : ~Same(r, rules'[j])
    BY <2>1 DEF Same
  <2>3. \A j, k \in Checked' \ {i} : j # k => ~Same(rules'[j], rules'[k])
    BY <1>2, <1>3 DEF SkipInv, RulesSound, NoTwin
  <2>4. QED
    BY <1>2, <2>1, <2>2, <2>3 DEF NoTwin
<1>6. QED
  BY <1>4, <1>5 DEF RulesSound

-----------------------------------------------------------------------------
LEMMA SkipTypeStep == SkipTypeOK /\ [SkipNext]_skipVars => SkipTypeOK'
<1> SUFFICES ASSUME SkipTypeOK, [SkipNext]_skipVars PROVE SkipTypeOK'
  OBVIOUS
<1>1. ASSUME NEW w \in Admins, NEW i \in RuleIds, NEW r \in Rule,
             AskCreate(w, i, r) \/ AskUpdate(w, i, r)
      PROVE SkipTypeOK'
  BY <1>1 DEF AskCreate, AskUpdate, SkipTypeOK, Edits
<1>2. ASSUME NEW w \in Admins, CheckUpdate(w) PROVE SkipTypeOK'
  <2>1. <<"checked", ruleEdit[w][2], ruleEdit[w][3], ruleEdit[w][4]>> \in Edits
    BY <1>2, EditShape DEF CheckUpdate, Edits
  <2>2. QED
    BY <1>2, <2>1 DEF CheckUpdate, SkipTypeOK
<1>3. ASSUME NEW w \in Admins, Refuse(w) PROVE SkipTypeOK'
  BY <1>3 DEF Refuse, SkipTypeOK, Edits
<1>4. ASSUME NEW w \in Admins, WriteRule(w) PROVE SkipTypeOK'
  <2>1. ruleEdit[w][2] \in RuleIds /\ ruleEdit[w][3] \in Rule
    BY <1>4, EditShape DEF WriteRule
  <2>2. NoEdit \in Edits
    BY DEF Edits
  <2>3. \A v \in Admins : ruleEdit[v][1] = "checked" =>
          <<"late", ruleEdit[v][2], ruleEdit[v][3], ruleEdit[v][4]>> \in Edits
    BY EditShape DEF Edits
  <2>4. ruleEdit' \in [Admins -> Edits]
    BY <1>4, <2>2, <2>3 DEF WriteRule, Overtake, SkipTypeOK
  <2>5. QED
    BY <1>4, <2>1, <2>4 DEF WriteRule, SkipTypeOK
<1>5. ASSUME NEW i \in RuleIds, DeleteRule(i) PROVE SkipTypeOK'
  BY <1>5 DEF DeleteRule, SkipTypeOK
<1>6. CASE UNCHANGED skipVars
  BY <1>6 DEF skipVars, SkipTypeOK
<1>7. QED
  BY <1>1, <1>2, <1>3, <1>4, <1>5, <1>6 DEF SkipNext

\* A step that only moves requests keeps the rest.
LEMMA OnlyEdits ==
  ASSUME SkipInv, SkipTypeOK', UNCHANGED <<rules, unchecked>>,
         \A w \in Admins : ruleEdit'[w][1] = "checked" => Valid(ruleEdit'[w][3], ruleEdit'[w][2])
  PROVE  SkipInv'
<1>1. RulesSound'
  BY DEF SkipInv, RulesSound, NoCircle, NoTwin, Checked, Stored
<1>2. StillValid'
  BY DEF StillValid, Valid, NoCycle, Stored
<1>3. QED
  BY <1>1, <1>2 DEF SkipInv

LEMMA SkipStep == SkipInv /\ [SkipNext]_skipVars => SkipInv'
<1> SUFFICES ASSUME SkipInv, [SkipNext]_skipVars PROVE SkipInv'
  OBVIOUS
<1>t. SkipTypeOK /\ SkipTypeOK'
  BY SkipTypeStep DEF SkipInv
<1>1. ASSUME NEW w \in Admins, NEW i \in RuleIds, NEW r \in Rule,
             AskCreate(w, i, r) \/ AskUpdate(w, i, r)
      PROVE SkipInv'
  <2>1. \A v \in Admins : ruleEdit'[v][1] = "checked" => Valid(ruleEdit'[v][3], ruleEdit'[v][2])
    BY <1>1, <1>t DEF AskCreate, AskUpdate, SkipInv, StillValid, SkipTypeOK
  <2>2. QED
    BY <1>1, <1>t, <2>1, OnlyEdits DEF AskCreate, AskUpdate
<1>2. ASSUME NEW w \in Admins, CheckUpdate(w) \/ Refuse(w) PROVE SkipInv'
  <2>1. \A v \in Admins : ruleEdit'[v][1] = "checked" => Valid(ruleEdit'[v][3], ruleEdit'[v][2])
    BY <1>2, <1>t DEF CheckUpdate, Refuse, SkipInv, StillValid, SkipTypeOK, NoEdit
  <2>2. QED
    BY <1>2, <1>t, <2>1, OnlyEdits DEF CheckUpdate, Refuse
<1>3. ASSUME NEW w \in Admins, WriteRule(w) PROVE SkipInv'
  <2>1. CASE UNCHANGED <<rules, unchecked>> /\ ruleEdit' = [ruleEdit EXCEPT ![w] = NoEdit]
    <3>1. \A v \in Admins : ruleEdit'[v][1] = "checked" => Valid(ruleEdit'[v][3], ruleEdit'[v][2])
      BY <2>1, <1>t DEF SkipInv, StillValid, SkipTypeOK, NoEdit
    <3>2. QED
      BY <2>1, <1>t, <3>1, OnlyEdits
  <2>2. CASE /\ rules' = [rules EXCEPT ![ruleEdit[w][2]] = ruleEdit[w][3]]
             /\ unchecked' = IF ruleEdit[w][1] = "late" THEN unchecked \cup {ruleEdit[w][2]}
                             ELSE unchecked \ {ruleEdit[w][2]}
             /\ Overtake(w)
    <3>1. StillValid'
      <4>1. \A v \in Admins : ruleEdit'[v][1] # "checked"
        BY <2>2, <1>t, EditShape DEF Overtake, NoEdit
      <4>2. QED
        BY <4>1 DEF StillValid
    <3>2. CASE ruleEdit[w][1] = "late"
      <4>1. ruleEdit[w][2] \in RuleIds
        BY <3>2, <1>t, EditShape
      <4>2. Checked' \subseteq Checked /\ \A j \in Checked' : rules'[j] = rules[j]
        BY <2>2, <3>2, <4>1, <1>t DEF Checked, Stored, SkipTypeOK
      <4>3. QED
        BY <4>2, <3>1, <1>t, FewerChecked DEF SkipInv
    <3>3. CASE ruleEdit[w][1] = "checked"
      BY <2>2, <3>1, <3>3, <1>t, WriteChecked DEF SkipInv
    <3>4. QED
      BY <1>3, <3>2, <3>3 DEF WriteRule
  <2>3. QED
    BY <1>3, <2>1, <2>2 DEF WriteRule
<1>4. ASSUME NEW i \in RuleIds, DeleteRule(i) PROVE SkipInv'
  <2>1. Stored' \subseteq Stored /\ \A j \in Stored' : rules'[j] = rules[j]
    BY <1>4, <1>t DEF DeleteRule, Stored, SkipTypeOK
  <2>2. RulesSound'
    BY <1>4, <2>1, FewerChecked DEF DeleteRule, Checked, SkipInv
  <2>3. ASSUME NEW w \in Admins, ruleEdit[w][1] = "checked"
        PROVE Valid(ruleEdit[w][3], ruleEdit[w][2])'
    <3>1. PICK j \in RuleIds, r \in Rule : j = ruleEdit[w][2] /\ r = ruleEdit[w][3]
      BY <2>3, <1>t, EditShape
    <3>2. Valid(r, j)
      BY <2>3, <3>1 DEF SkipInv, StillValid
    <3>3. Valid(r, j)'
      BY <2>1, <3>2, FewerRules
    <3>4. ruleEdit' = ruleEdit
      BY <1>4 DEF DeleteRule
    <3>5. QED
      BY <3>1, <3>3, <3>4
  <2>4. StillValid'
    BY <1>4, <2>3 DEF StillValid, DeleteRule
  <2>5. QED
    BY <1>t, <2>2, <2>4 DEF SkipInv
<1>5. CASE UNCHANGED skipVars
  <2>1. \A w \in Admins : ruleEdit'[w][1] = "checked" => Valid(ruleEdit'[w][3], ruleEdit'[w][2])
    BY <1>5 DEF skipVars, SkipInv, StillValid
  <2>2. QED
    BY <1>5, <1>t, <2>1, OnlyEdits DEF skipVars
<1>6. QED
  BY <1>1, <1>2, <1>3, <1>4, <1>5 DEF SkipNext

\* The variables of SkipRules keep their types.
THEOREM SkipTypeCorrect == SkipSpec => []SkipTypeOK
<1>1. SkipInv => SkipTypeOK
  BY DEF SkipInv
<1>2. QED
  BY SkipInitInv, SkipStep, <1>1, PTL DEF SkipSpec

\* However administrators create, change and delete rules at a time: the rules
\* written without a write in between form no circle, and none is there twice.
THEOREM RulesStaySound == SkipSpec => []RulesSound
<1>1. SkipInv => RulesSound
  BY DEF SkipInv
<1>2. QED
  BY SkipInitInv, SkipStep, <1>1, PTL DEF SkipSpec

-----------------------------------------------------------------------------
(* The active template *)

Activations ==
  \A w \in Editors : Activating(w) =>
    /\ activation[w].at \in {"begin", "clear", "mark"}
    /\ activation[w].id \in TemplateIds /\ activation[w].test \in Tests

RowsShape ==
  /\ DOMAIN activation = Editors
  /\ belongs \in [TemplateIds -> Tests \cup {<<>>}]
  /\ activeRows \subseteq rows /\ rows \subseteq TemplateIds
  /\ Activations

\* A row that is being activated is of the test it was read with.
SameTest ==
  \A w \in Editors : Activating(w) /\ activation[w].id \in rows =>
    belongs[activation[w].id] \in {activation[w].test} \cup disturbed

ClearsAll ==
  \A w \in Editors : activation[w].at \in {"clear", "mark"} /\ activation[w].test \notin disturbed =>
    ActiveOf(activation[w].test) \subseteq activation[w].seen

\* A row that is being inserted is nobody else's.
NewAlone ==
  \A w \in Editors : Activating(w) /\ activation[w].new =>
    /\ activation[w].id \notin rows
    /\ \A v \in Editors \ {w} : Activating(v) => activation[v].id # activation[w].id

AtMostOne == \A a \in Tests \ disturbed : \A s, t \in ActiveOf(a) : s = t

TemplateInv == RowsShape /\ SameTest /\ NewAlone /\ ClearsAll /\ AtMostOne

LEMMA TemplateInitInv == TemplatesInit => TemplateInv
BY DEF TemplatesInit, TemplateInv, RowsShape, Activations, Activating, NoActivation, SameTest,
       NewAlone, ClearsAll, AtMostOne, ActiveOf

LEMMA RowStep ==
  ASSUME TemplateInv, NEW t \in TemplateIds, NEW a \in Tests \cup {<<>>},
         CreateTemplate(t, a) \/ UpdateTemplate(t, a) \/ SetInactive(t) \/ RemoveTemplate(t)
  PROVE  TemplateInv'
<1> USE DEF TemplateInv, RowsShape, Activations, Activating, NoActivation, SameTest, NewAlone,
            ClearsAll, AtMostOne, ActiveOf
<1>1. CASE CreateTemplate(t, a)
  BY <1>1 DEF CreateTemplate, Fresh
<1>2. CASE UpdateTemplate(t, a)
  BY <1>2 DEF UpdateTemplate
<1>3. CASE SetInactive(t)
  BY <1>3 DEF SetInactive
<1>4. CASE RemoveTemplate(t)
  BY <1>4 DEF RemoveTemplate
<1>5. QED
  BY <1>1, <1>2, <1>3, <1>4

LEMMA BeginStep ==
  ASSUME TemplateInv, NEW w \in Editors, NEW t \in TemplateIds, NEW a \in Tests,
         ReadTemplate(w, t) \/ InsertTemplate(w, t, a) \/ BeginClear(w) \/ ClearTest(w) \/ Rollback(w)
  PROVE  TemplateInv'
<1> USE DEF TemplateInv, RowsShape, Activations, Activating, NoActivation, SameTest, NewAlone,
            ClearsAll, AtMostOne, ActiveOf
<1>1. CASE ReadTemplate(w, t)
  BY <1>1 DEF ReadTemplate
<1>2. CASE InsertTemplate(w, t, a)
  BY <1>2 DEF InsertTemplate, Fresh
<1>3. CASE BeginClear(w)
  BY <1>3 DEF BeginClear
<1>4. CASE ClearTest(w)
  BY <1>4 DEF ClearTest
<1>5. CASE Rollback(w)
  BY <1>5 DEF Rollback
<1>6. QED
  BY <1>1, <1>2, <1>3, <1>4, <1>5

\* The commit: every other active row of the test was seen and is cleared.
LEMMA CommitStep ==
  ASSUME TemplateInv, NEW w \in Editors, CommitActive(w)
  PROVE  TemplateInv'
<1> DEFINE t == activation[w].id
           a == activation[w].test
<1>1. Activating(w) /\ t \in TemplateIds /\ a \in Tests
  BY DEF CommitActive, Activating, NoActivation, TemplateInv, RowsShape, Activations
<1>2. RowsShape'
  <2>1. belongs' \in [TemplateIds -> Tests \cup {<<>>}]
    BY <1>1 DEF CommitActive, TemplateInv, RowsShape
  <2>2. activeRows' \subseteq rows' /\ rows' \subseteq TemplateIds
    BY <1>1 DEF CommitActive, TemplateInv, RowsShape
  <2>3. DOMAIN activation' = Editors /\ Activations'
    BY DEF CommitActive, TemplateInv, RowsShape, Activations, Activating
  <2>4. QED
    BY <2>1, <2>2, <2>3 DEF RowsShape
<1>3. /\ \A v \in Editors : Activating(v)' => v # w /\ Activating(v) /\ activation'[v] = activation[v]
      /\ \A v \in Editors : activation'[v].at \in {"clear", "mark"} =>
           v # w /\ activation[v].at \in {"clear", "mark"} /\ activation'[v] = activation[v]
  BY DEF CommitActive, TemplateInv, RowsShape, Activating, NoActivation
<1>4. /\ disturbed \subseteq disturbed'
      /\ \A s \in TemplateIds \ {t} : belongs'[s] = belongs[s]
      /\ activeRows' \subseteq (activeRows \ activation[w].seen) \cup {t}
  BY <1>1 DEF CommitActive, TemplateInv, RowsShape
<1>5. t \in rows' => belongs'[t] \in {a} \cup disturbed
  BY <1>1 DEF CommitActive, TemplateInv, RowsShape, SameTest
<1>6. \A v \in Editors \ {w} : activation[v].at \in {"clear", "mark"} =>
        activation[v].test # belongs'[t] \/ t \in activation[v].seen
          \/ activation[v].test \in disturbed'
  <2>1. \A v \in Editors \ {w} : activation[v].at \in {"clear", "mark"} => activation[v].test \in Tests
    BY DEF TemplateInv, RowsShape, Activations, Activating, NoActivation
  <2>2. QED
    BY <2>1 DEF CommitActive
<1>7. SameTest'
  <2> SUFFICES ASSUME NEW v \in Editors, Activating(v)', activation'[v].id \in rows'
               PROVE  belongs'[activation'[v].id] \in {activation'[v].test} \cup disturbed'
    BY DEF SameTest
  <2>1. v # w /\ Activating(v) /\ activation'[v] = activation[v] /\ activation[v].id \in TemplateIds
    BY <1>2, <1>3 DEF TemplateInv, RowsShape, Activations
  <2>2. CASE activation[v].id = t
    <3>1. ~activation[w].new
      BY <1>1, <2>1, <2>2 DEF TemplateInv, NewAlone
    <3>2. rows' = rows /\ belongs' = belongs
      BY <3>1 DEF CommitActive
    <3>3. QED
      BY <2>1, <3>2, <1>4 DEF TemplateInv, SameTest
  <2>3. CASE activation[v].id # t
    <3>1. activation[v].id \in rows
      BY <2>1, <2>3 DEF CommitActive
    <3>2. QED
      BY <2>1, <2>3, <3>1, <1>4 DEF TemplateInv, SameTest
  <2>4. QED
    BY <2>2, <2>3
<1>8. NewAlone'
  <2> SUFFICES ASSUME NEW v \in Editors, Activating(v)', activation'[v].new
               PROVE  /\ activation'[v].id \notin rows'
                      /\ \A u \in Editors \ {v} : Activating(u)' => activation'[u].id # activation'[v].id
    BY DEF NewAlone
  <2>1. v # w /\ Activating(v) /\ activation'[v] = activation[v]
    BY <1>3
  <2>2. activation[v].id \notin rows /\ activation[v].id # t
    BY <1>1, <2>1 DEF TemplateInv, NewAlone
  <2>3. rows' \subseteq rows \cup {t}
    BY DEF CommitActive
  <2>4. QED
    BY <2>1, <2>2, <2>3, <1>3 DEF TemplateInv, NewAlone
<1>9. ClearsAll'
  <2> SUFFICES ASSUME NEW v \in Editors, activation'[v].at \in {"clear", "mark"},
                      activation'[v].test \notin disturbed',
                      NEW s \in activeRows', belongs'[s] = activation'[v].test
               PROVE  s \in activation'[v].seen
    BY DEF ClearsAll, ActiveOf
  <2>1. v # w /\ activation[v].at \in {"clear", "mark"} /\ activation'[v] = activation[v]
    BY <1>3
  <2>2. CASE s = t
    BY <1>6, <2>1, <2>2
  <2>3. CASE s # t
    <3>1. s \in activeRows /\ s \in TemplateIds /\ belongs[s] = activation[v].test
      BY <1>4, <2>1, <2>3 DEF TemplateInv, RowsShape
    <3>2. QED
      BY <2>1, <3>1, <1>4 DEF TemplateInv, ClearsAll, ActiveOf
  <2>4. QED
    BY <2>2, <2>3
<1>10. AtMostOne'
  <2> SUFFICES ASSUME NEW b \in Tests \ disturbed', NEW s \in ActiveOf(b)', NEW u \in ActiveOf(b)'
               PROVE  s = u
    BY DEF AtMostOne
  <2>1. b \in Tests \ disturbed
    BY <1>4
  <2>2. ASSUME NEW x \in ActiveOf(b)', x # t PROVE x \in ActiveOf(b) \ activation[w].seen
    BY <2>2, <1>4 DEF ActiveOf, TemplateInv, RowsShape
  <2>3. CASE b = a
    <3>1. activation[w].at = "mark"
      BY DEF CommitActive
    <3>2. ActiveOf(b) \subseteq activation[w].seen
      BY <2>1, <2>3, <3>1 DEF TemplateInv, ClearsAll
    <3>3. QED
      BY <2>2, <3>2
  <2>4. CASE b # a
    <3>1. t \notin ActiveOf(b)'
      BY <1>2, <1>4, <1>5, <2>4 DEF ActiveOf, RowsShape
    <3>2. s \in ActiveOf(b) /\ u \in ActiveOf(b)
      BY <2>2, <3>1
    <3>3. QED
      BY <2>1, <3>2 DEF TemplateInv, AtMostOne
  <2>5. QED
    BY <2>3, <2>4
<1>11. QED
  BY <1>2, <1>7, <1>8, <1>9, <1>10 DEF TemplateInv

LEMMA TemplateStep == TemplateInv /\ [TemplatesNext]_templateVars => TemplateInv'
<1> SUFFICES ASSUME TemplateInv, [TemplatesNext]_templateVars PROVE TemplateInv'
  OBVIOUS
<1>1. ASSUME NEW w \in Editors, NEW t \in TemplateIds, ReadTemplate(w, t) PROVE TemplateInv'
  <2>1. belongs[t] \in Tests
    BY <1>1 DEF ReadTemplate, TemplateInv, RowsShape
  <2>2. QED
    BY <1>1, <2>1, BeginStep
<1>2. ASSUME NEW w \in Editors, BeginClear(w) \/ ClearTest(w) \/ Rollback(w) PROVE TemplateInv'
  <2>1. Activating(w)
    BY <1>2 DEF BeginClear, ClearTest, Rollback, Activating, NoActivation
  <2>2. activation[w].id \in TemplateIds /\ activation[w].test \in Tests
    BY <2>1 DEF TemplateInv, RowsShape, Activations
  <2>3. QED
    BY <1>2, <2>2, BeginStep
<1>3. CASE UNCHANGED templateVars
  BY <1>3 DEF templateVars, TemplateInv, RowsShape, Activations, Activating, SameTest, NewAlone,
              ClearsAll, AtMostOne, ActiveOf
<1>4. QED
  BY <1>1, <1>2, <1>3, RowStep, BeginStep, CommitStep DEF TemplatesNext

\* A test has at most one active template, however activations, imports and
\* edits overlap, unless an active one was moved to it or an activation's
\* clearing statement had not seen a row that was activated meanwhile.
THEOREM OneTemplateActive == TemplatesSpec => []OneActive
<1>1. TemplateInv => OneActive
  <2> SUFFICES ASSUME TemplateInv, NEW a \in Tests \ disturbed
               PROVE  Cardinality(ActiveOf(a)) <= 1
    BY DEF OneActive
  <2>1. CASE ActiveOf(a) = {}
    BY <2>1, FS_EmptySet
  <2>2. CASE ActiveOf(a) # {}
    <3>1. PICK t : t \in ActiveOf(a)
      BY <2>2
    <3>2. ActiveOf(a) = {t}
      BY <3>1 DEF TemplateInv, AtMostOne
    <3>3. Cardinality({t}) = 1
      BY FS_Singleton, Zenon
    <3>4. QED
      BY <3>2, <3>3
  <2>3. QED
    BY <2>1, <2>2
<1>2. QED
  BY TemplateInitInv, TemplateStep, <1>1, PTL DEF TemplatesSpec

-----------------------------------------------------------------------------
(* What recounts save *)

ReadOf(r) == {p[1] : p \in recount[r].row.children}

PointShape ==
  /\ place \in [QuestionIds -> {NoRow, Nowhere} \cup Blocks]
  /\ block \in [Blocks -> {NoRow, Nowhere, InTest}]
  /\ DOMAIN recount = Recounts
  /\ \A r \in Recounts : recount[r].at = "delete" => recount[r].block \in {Nowhere} \cup Blocks
  /\ \A r \in Recounts : recount[r].at \in {"readBlock", "saveBlock"} => recount[r].block \in Blocks

ReadAll ==
  /\ \A r \in Recounts, q \in QuestionIds :
       recount[r].at = "saveBlock" /\ place[q] = recount[r].block => q \in ReadOf(r) \cup astray
  /\ \A r \in Recounts, c \in Blocks :
       recount[r].at = "saveTest" /\ block[c] = InTest => c \in recount[r].blocks \cup astray

PointInv == PointShape /\ ReadAll /\ NothingLost

LEMMA PointInitInv == PointsInit => PointInv
BY PointsAssumption DEF PointsInit, PointInv, PointShape, ReadAll, ReadOf, NothingLost, NoRow,
   Nowhere, InTest, NoRecount

LEMMA QuestionStep ==
  ASSUME PointInv, NEW r \in Recounts, NEW q \in QuestionIds, NEW c \in Blocks, NEW n,
         SaveQuestion(r, q, c, n)
  PROVE  PointInv'
BY PointsAssumption
   DEF PointInv, PointShape, ReadAll, ReadOf, NothingLost, Go, Idle, NoRecount, NoRow, Nowhere, InTest,
       SaveQuestion, Saving

LEMMA AskStep ==
  ASSUME PointInv, NEW r \in Recounts, NEW q \in QuestionIds, AskDelete(r, q)
  PROVE  PointInv'
BY PointsAssumption
   DEF PointInv, PointShape, ReadAll, ReadOf, NothingLost, Go, Idle, NoRecount, NoRow, Nowhere, InTest,
       AskDelete

LEMMA SaveCategoryStep ==
  ASSUME PointInv, NEW c \in Blocks, NEW n, SaveCategory(c, n)
  PROVE  PointInv'
BY PointsAssumption
   DEF PointInv, PointShape, ReadAll, ReadOf, NothingLost, NoRow, Nowhere, InTest, SaveCategory, SavingTest

LEMMA DeleteCategoryStep ==
  ASSUME PointInv, NEW c \in Blocks, DeleteCategory(c)
  PROVE  PointInv'
BY PointsAssumption
   DEF PointInv, PointShape, ReadAll, ReadOf, NothingLost, NoRow, Nowhere, InTest, DeleteCategory

LEMMA DropStep ==
  ASSUME PointInv, NEW r \in Recounts, DeleteQuestion(r) \/ FailRecount(r)
  PROVE  PointInv'
<1> USE PointsAssumption DEF PointInv, PointShape, ReadAll, ReadOf, NothingLost, Go, Idle,
                             NoRecount, NoRow, Nowhere, InTest
<1>1. CASE DeleteQuestion(r)
  BY <1>1 DEF DeleteQuestion, Removed
<1>2. CASE FailRecount(r)
  BY <1>2 DEF FailRecount
<1>3. QED
  BY <1>1, <1>2

\* The row a recount reads names every question of the category.
LEMMA RowHolds ==
  ASSUME NEW c, NEW q \in QuestionIds, place[q] = c
  PROVE  q \in {p[1] : p \in CategoryRow(c).children}
<1> DEFINE kids == {<<x, weight[x]>> : x \in ChildrenOf(c)}
<1>1. CategoryRow(c).children = kids
  BY DEF CategoryRow
<1>2. q \in ChildrenOf(c)
  BY DEF ChildrenOf
<1>3. <<q, weight[q]>> \in kids
  BY <1>2
<1>4. <<q, weight[q]>>[1] = q
  OBVIOUS
<1> HIDE DEF kids
<1>5. q \in {p[1] : p \in kids}
  BY <1>3, <1>4
<1>6. QED
  BY <1>1, <1>5

LEMMA ReadStep ==
  ASSUME PointInv, NEW r \in Recounts, ReadBlock(r) \/ ReadTest(r)
  PROVE  PointInv'
<1> USE PointsAssumption DEF PointInv, PointShape, ReadAll, ReadOf, NothingLost, Go,
                             NoRow, Nowhere, InTest
<1>1. CASE ReadBlock(r)
  <2>1. CASE block[recount[r].block] = NoRow
    BY <1>1, <2>1 DEF ReadBlock
  <2>2. CASE block[recount[r].block] # NoRow
    <3>1. \A q \in QuestionIds : place[q] = recount[r].block =>
            q \in {p[1] : p \in CategoryRow(recount[r].block).children}
      BY RowHolds
    <3>2. recount' = [recount EXCEPT ![r] =
            [at |-> "saveBlock", block |-> recount[r].block, row |-> CategoryRow(recount[r].block)]]
      BY <1>1, <2>2 DEF ReadBlock
    <3>3. UNCHANGED <<place, block, astray>>
      BY <1>1 DEF ReadBlock
    <3>4. recount[r].block \in Blocks
      BY <1>1 DEF ReadBlock
    <3>5. PointShape' /\ NothingLost'
      BY <3>2, <3>3, <3>4
    <3>6. ASSUME NEW s \in Recounts, NEW q \in QuestionIds,
                 recount'[s].at = "saveBlock", place'[q] = recount'[s].block
          PROVE  q \in {p[1] : p \in recount'[s].row.children} \cup astray'
      <4>1. CASE s = r
        BY <3>1, <3>2, <3>3, <3>6, <4>1
      <4>2. CASE s # r
        BY <3>2, <3>3, <3>6, <4>2
      <4>3. QED
        BY <4>1, <4>2
    <3>7. \A s \in Recounts, d \in Blocks :
            recount'[s].at = "saveTest" /\ block'[d] = InTest => d \in recount'[s].blocks \cup astray'
      BY <3>2, <3>3
    <3>8. QED
      BY <3>5, <3>6, <3>7
  <2>3. QED
    BY <2>1, <2>2
<1>2. CASE ReadTest(r)
  BY <1>2 DEF ReadTest, BlocksOfTest
<1>3. QED
  BY <1>1, <1>2

LEMMA SaveBlockStep ==
  ASSUME PointInv, NEW r \in Recounts, SaveBlock(r)
  PROVE  PointInv'
<1> USE PointsAssumption DEF PointInv, PointShape, ReadOf, Go
<1> DEFINE c == recount[r].block
<1>1. c \in Blocks /\ c # NoRow /\ c # Nowhere
  BY DEF SaveBlock
<1>2. /\ recount' = [recount EXCEPT ![r] = [at |-> "readTest"]]
      /\ block' = [block EXCEPT ![c] = IF @ = NoRow THEN Nowhere ELSE @]
      /\ place' = [q \in QuestionIds |->
           IF place[q] = NoRow THEN NoRow
           ELSE IF q \in ReadOf(r) THEN c
           ELSE IF place[q] = c THEN Nowhere ELSE place[q]]
      /\ astray \subseteq astray'
      /\ block[c] = NoRow => c \in astray'
      /\ Saving(c, {r}) => \A q \in ReadOf(r) : place[q] # c => q \in astray'
  BY DEF SaveBlock
<1>3. PointShape'
  BY <1>1, <1>2 DEF NoRow, Nowhere, InTest
<1>4. ASSUME NEW s \in Recounts, NEW q \in QuestionIds,
             recount'[s].at = "saveBlock", place'[q] = recount'[s].block
      PROVE  q \in ReadOf(s)' \cup astray'
  <2>1. s # r /\ recount'[s] = recount[s] /\ recount[s].at = "saveBlock" /\ recount[s].block \in Blocks
    BY <1>2, <1>4
  <2>2. CASE place[q] = recount[s].block
    BY <1>2, <2>1, <2>2 DEF ReadAll
  <2>3. CASE place[q] # recount[s].block
    <3>1. q \in ReadOf(r) /\ recount[s].block = c /\ place[q] # c
      BY <1>2, <1>4, <2>1, <2>3
    <3>2. Saving(c, {r})
      BY <2>1, <3>1 DEF Saving
    <3>3. QED
      BY <1>2, <3>1, <3>2
  <2>4. QED
    BY <2>2, <2>3
<1>5. ASSUME NEW s \in Recounts, NEW d \in Blocks, recount'[s].at = "saveTest", block'[d] = InTest
      PROVE  d \in recount'[s].blocks \cup astray'
  <2>1. s # r /\ recount'[s] = recount[s] /\ block[d] = InTest
    BY <1>1, <1>2, <1>5 DEF InTest, Nowhere
  <2>2. QED
    BY <1>2, <1>5, <2>1 DEF ReadAll
<1>6. NothingLost'
  <2>1. ASSUME NEW q \in QuestionIds, place'[q] = Nowhere PROVE q \in astray'
    <3>1. place[q] = Nowhere \/ (place[q] = c /\ q \notin ReadOf(r))
      BY <1>1, <1>2, <2>1 DEF NoRow, Nowhere
    <3>2. QED
      BY <1>2, <3>1 DEF ReadAll, NothingLost, SaveBlock
  <2>2. ASSUME NEW d \in Blocks, block'[d] = Nowhere PROVE d \in astray'
    BY <1>1, <1>2, <2>2 DEF NothingLost
  <2>3. QED
    BY <2>1, <2>2 DEF NothingLost
<1>7. QED
  BY <1>3, <1>4, <1>5, <1>6 DEF ReadAll

LEMMA SaveTestStep ==
  ASSUME PointInv, NEW r \in Recounts, SaveTest(r)
  PROVE  PointInv'
<1> USE PointsAssumption DEF PointInv, PointShape, Go
<1>1. PointShape'
  BY DEF SaveTest, NoRecount, NoRow, Nowhere, InTest
<1>2. ReadAll'
  <2>1. ASSUME NEW s \in Recounts, NEW c \in Blocks, recount'[s].at = "saveTest", block'[c] = InTest
        PROVE  c \in recount'[s].blocks \cup astray'
    <3>1. s # r /\ recount'[s] = recount[s] /\ SavingTest({r})
      BY <2>1 DEF SaveTest, NoRecount, SavingTest
    <3>2. CASE block[c] = InTest
      BY <3>1, <3>2, <2>1 DEF SaveTest, ReadAll
    <3>3. CASE block[c] # InTest
      BY <3>1, <3>3, <2>1 DEF SaveTest, BlocksOfTest, InTest, Nowhere, NoRow
    <3>4. QED
      BY <3>2, <3>3
  <2>2. ASSUME NEW s \in Recounts, NEW q \in QuestionIds,
               recount'[s].at = "saveBlock", place'[q] = recount'[s].block
        PROVE  q \in ReadOf(s)' \cup astray'
    <3>1. recount'[s] = recount[s]
      BY <2>2 DEF SaveTest, NoRecount
    <3>2. QED
      BY <3>1, <2>2 DEF SaveTest, ReadAll, ReadOf
  <2>3. QED
    BY <2>1, <2>2 DEF ReadAll
<1>3. NothingLost'
  BY DEF SaveTest, NothingLost, ReadAll, InTest, NoRow, Nowhere
<1>4. QED
  BY <1>1, <1>2, <1>3

LEMMA PointStep == PointInv /\ [PointsNext]_pointVars => PointInv'
<1> SUFFICES ASSUME PointInv, [PointsNext]_pointVars PROVE PointInv'
  OBVIOUS
<1>1. CASE UNCHANGED pointVars
  BY <1>1 DEF pointVars, PointInv, PointShape, ReadAll, ReadOf, NothingLost
<1>2. ASSUME NEW r \in Recounts, NEW q \in QuestionIds, NEW c \in Blocks, NEW w \in 0..MaxPoint,
             SaveQuestion(r, q, c, w)
      PROVE  PointInv'
  BY <1>2, QuestionStep
<1>3. ASSUME NEW r \in Recounts, NEW q \in QuestionIds, AskDelete(r, q)
      PROVE  PointInv'
  BY <1>3, AskStep
<1>4. ASSUME NEW r \in Recounts,
             \/ DeleteQuestion(r) \/ ReadBlock(r) \/ SaveBlock(r)
             \/ ReadTest(r) \/ SaveTest(r) \/ FailRecount(r)
      PROVE  PointInv'
  BY <1>4, DropStep, ReadStep, SaveBlockStep, SaveTestStep
<1>5. ASSUME NEW c \in Blocks, NEW n \in 1..MaxCount, SaveCategory(c, n)
      PROVE  PointInv'
  BY <1>5, SaveCategoryStep
<1>6. ASSUME NEW c \in Blocks, DeleteCategory(c)
      PROVE  PointInv'
  BY <1>6, DeleteCategoryStep
<1>7. QED
  BY <1>1, <1>2, <1>3, <1>4, <1>5, <1>6 DEF PointsNext

\* A question or category is without its parent only if it came while another
\* request was between reading that parent and saving it, or its row had been
\* deleted meanwhile.
THEOREM NoQuestionLost == PointsSpec => []NothingLost
<1>1. PointInv => NothingLost
  BY DEF PointInv
<1>2. QED
  BY PointInitInv, PointStep, <1>1, PTL DEF PointsSpec

-----------------------------------------------------------------------------
(* What the totals say *)

TotalShape ==
  /\ weight \in [QuestionIds -> Nat] /\ blockCount \in [Blocks -> Nat] /\ DOMAIN blockPoint = Blocks
  /\ \A r \in Recounts : recount[r].at = "saveBlock" => recount[r].row.count \in Nat

\* A request is still to save the total of category c, or of the test.
RecountDue(c) == \E r \in Recounts :
  recount[r].at \in {"readBlock", "saveBlock"} /\ recount[r].block = c
TestDue == \E r \in Recounts :
  recount[r].at \in {"readBlock", "saveBlock", "readTest", "saveTest"}

RightOrDue(c) ==
  block[c] # NoRow /\ c \notin behind => RightPoint(c, blockPoint[c]) \/ RecountDue(c)
TestRightOrDue ==
  "test" \notin behind => testTotal = TotalsOfTest(BlocksOfTest) \/ TestDue

RightUnlessDue == (\A c \in Blocks : RightOrDue(c)) /\ TestRightOrDue

TotalInv == PointInv /\ TotalShape /\ RightUnlessDue

\* The total of what a category has now is right.
LEMMA RightTotal ==
  ASSUME TotalShape, NEW c \in Blocks,
         NEW total \in CategoryPoints(CategoryRow(c).children, CategoryRow(c).count)
  PROVE  RightPoint(c, total)
<1> DEFINE children == {<<q, weight[q]>> : q \in ChildrenOf(c)}
<1>1. total \in CategoryPoints(children, blockCount[c])
  BY DEF CategoryRow
<1>2. \A q \in ChildrenOf(c) : <<q, weight[q]>> \in children /\ weight[q] \in Nat
  BY DEF TotalShape, ChildrenOf
<1>3. \A p \in children : \E q \in ChildrenOf(c) : p = <<q, weight[q]>> /\ p[2] = weight[q] /\ weight[q] \in Nat
  BY DEF TotalShape, ChildrenOf
<1> HIDE DEF children
<1>4. CASE \A p \in children : p[2] = 0
  <2>1. total = 0
    BY <1>1, <1>4 DEF CategoryPoints
  <2>2. \A q \in ChildrenOf(c) : weight[q] = 0
    BY <1>2, <1>4
  <2> QED BY <2>1, <2>2 DEF RightPoint
<1>5. CASE ~(\A p \in children : p[2] = 0)
  <2>1. PICK p \in children : p[2] > 0 /\ total = p[2] * blockCount[c]
    BY <1>1, <1>5 DEF CategoryPoints
  <2>2. PICK q \in ChildrenOf(c) : p[2] = weight[q] /\ weight[q] \in Nat
    BY <1>3
  <2>3. blockCount[c] \in Nat
    BY DEF TotalShape
  <2>4. weight[q] # 0 /\ total = blockCount[c] * weight[q]
    BY <2>1, <2>2, <2>3
  <2> QED BY <2>2, <2>4 DEF RightPoint
<1> QED BY <1>4, <1>5

\* A total stays right, or due, while nothing it counts changes.
LEMMA BlockKept ==
  ASSUME NEW c \in Blocks, RightOrDue(c),
         block'[c] # NoRow => block[c] # NoRow,
         \A q \in QuestionIds : place'[q] = c <=> place[q] = c,
         \A q \in ChildrenOf(c) : weight'[q] = weight[q],
         blockCount'[c] = blockCount[c], blockPoint'[c] = blockPoint[c],
         c \in behind => c \in behind',
         RecountDue(c) => RecountDue(c)' \/ c \in behind'
  PROVE  RightOrDue(c)'
<1>1. ChildrenOf(c)' = ChildrenOf(c)
  BY DEF ChildrenOf
<1>2. RightPoint(c, blockPoint[c]) => RightPoint(c, blockPoint[c])'
  BY <1>1 DEF RightPoint
<1> QED BY <1>2 DEF RightOrDue

LEMMA TestKept ==
  ASSUME TestRightOrDue, UNCHANGED <<block, blockPoint, blockCount, testTotal>>,
         "test" \in behind => "test" \in behind',
         TestDue => TestDue' \/ "test" \in behind'
  PROVE  TestRightOrDue'
<1>1. TotalsOfTest(BlocksOfTest)' = TotalsOfTest(BlocksOfTest)
  BY DEF TotalsOfTest, BlocksOfTest
<1> QED BY <1>1 DEF TestRightOrDue

LEMMA EmptyTotal == ASSUME NEW f PROVE Total(f, {}) = 0
<1> DEFINE Step(g) == [s \in SUBSET {} |->
             IF s = {} THEN 0
             ELSE LET x == CHOOSE x \in s : TRUE IN f[x] + g[s \ {x}]]
           zero == [s \in SUBSET {} |-> 0]
           fold == CHOOSE g : g = Step(g)
<1>1. zero = Step(zero)
  OBVIOUS
<1>2. fold = Step(fold)
  <2> HIDE DEF Step, zero
  <2> QED BY <1>1
<1>3. fold[{}] = 0
  <2> HIDE DEF fold
  <2> QED BY <1>2
<1>4. Total(f, {}) = fold[{}]
  BY DEF Total, MapThenSumSet, MapThenFoldSet
<1> QED BY <1>3, <1>4

LEMMA TotalInit == PointsInit => TotalInv
<1> SUFFICES ASSUME PointsInit PROVE TotalInv
  OBVIOUS
<1>1. PointInv
  BY PointInitInv
<1>2. BlocksOfTest = {}
  BY PointsAssumption DEF PointsInit, BlocksOfTest, InTest, NoRow
<1>3. TotalsOfTest(BlocksOfTest) = <<0, 0>>
  BY <1>2, EmptyTotal DEF TotalsOfTest
<1>4. TotalShape
  BY DEF PointsInit, TotalShape, NoRecount
<1>5. RightUnlessDue
  BY <1>3 DEF PointsInit, RightUnlessDue, RightOrDue, TestRightOrDue
<1> QED BY <1>1, <1>4, <1>5 DEF TotalInv

LEMMA ShapeKept ==
  ASSUME TotalInv, [PointsNext]_pointVars
  PROVE  TotalShape'
<1> USE PointsAssumption DEF TotalInv, PointInv, PointShape, TotalShape, Go
<1>1. CASE UNCHANGED pointVars
  BY <1>1 DEF pointVars
<1>2. ASSUME NEW r \in Recounts, NEW q \in QuestionIds, NEW c \in Blocks, NEW w \in 0..MaxPoint,
             SaveQuestion(r, q, c, w)
      PROVE  TotalShape'
  BY <1>2 DEF SaveQuestion
<1>3. ASSUME NEW r \in Recounts, NEW q \in QuestionIds, AskDelete(r, q)
      PROVE  TotalShape'
  BY <1>3 DEF AskDelete
<1>4. ASSUME NEW r \in Recounts, DeleteQuestion(r) \/ FailRecount(r)
      PROVE  TotalShape'
  BY <1>4 DEF DeleteQuestion, Removed, FailRecount, NoRecount
<1>5. ASSUME NEW r \in Recounts, ReadBlock(r)
      PROVE  TotalShape'
  BY <1>5 DEF ReadBlock, CategoryRow
<1>6. ASSUME NEW r \in Recounts, SaveBlock(r)
      PROVE  TotalShape'
  BY <1>6 DEF SaveBlock
<1>7. ASSUME NEW r \in Recounts, ReadTest(r) \/ SaveTest(r)
      PROVE  TotalShape'
  BY <1>7 DEF ReadTest, SaveTest, NoRecount
<1>8. ASSUME NEW c \in Blocks, NEW n \in 1..MaxCount, SaveCategory(c, n)
      PROVE  TotalShape'
  BY <1>8 DEF SaveCategory
<1>9. ASSUME NEW c \in Blocks, DeleteCategory(c)
      PROVE  TotalShape'
  BY <1>9 DEF DeleteCategory
<1> QED BY <1>1, <1>2, <1>3, <1>4, <1>5, <1>6, <1>7, <1>8, <1>9 DEF PointsNext

LEMMA QuestionTotals ==
  ASSUME TotalInv, NEW r \in Recounts, NEW q \in QuestionIds, NEW c \in Blocks, NEW w \in 0..MaxPoint,
         SaveQuestion(r, q, c, w)
  PROVE  RightUnlessDue'
<1> USE PointsAssumption DEF TotalInv, PointInv, PointShape, TotalShape, Go
<1>1. /\ recount[r] = NoRecount
      /\ recount' = [recount EXCEPT ![r] = [at |-> "readBlock", block |-> c]]
      /\ behind \subseteq behind'
      /\ place[q] \in Blocks \ {c} => place[q] \in behind'
      /\ UNCHANGED <<block, blockPoint, blockCount, testTotal>>
  BY DEF SaveQuestion, Idle
<1>2. \A x \in QuestionIds \ {q} : place'[x] = place[x] /\ weight'[x] = weight[x]
  BY DEF SaveQuestion
<1>3. place'[q] = c
  BY DEF SaveQuestion
<1>4. recount'[r].at = "readBlock" /\ recount'[r].block = c
  BY <1>1
<1>5. \A s \in Recounts \ {r} : recount'[s] = recount[s]
  BY <1>1
<1>6. recount[r].at = "idle"
  BY <1>1 DEF NoRecount
<1>7. ASSUME NEW d \in Blocks PROVE RightOrDue(d)'
  <2>1. CASE d = c
    BY <1>4, <2>1 DEF RightOrDue, RecountDue
  <2>2. CASE d # c /\ d = place[q]
    BY <1>1, <2>2 DEF RightOrDue
  <2>3. CASE d # c /\ d # place[q]
    <3>1. RecountDue(d) => RecountDue(d)'
      BY <1>5, <1>6 DEF RecountDue
    <3>2. \A x \in QuestionIds : place'[x] = d <=> place[x] = d
      BY <1>2, <1>3, <2>3
    <3>3. \A x \in ChildrenOf(d) : weight'[x] = weight[x]
      BY <1>2, <2>3 DEF ChildrenOf
    <3>4. RightOrDue(d)
      BY DEF RightUnlessDue
    <3> QED BY <1>1, <3>1, <3>2, <3>3, <3>4, BlockKept
  <2> QED BY <2>1, <2>2, <2>3
<1>8. TestRightOrDue'
  BY <1>4 DEF TestRightOrDue, TestDue
<1> QED BY <1>7, <1>8 DEF RightUnlessDue

\* A step that leaves questions, categories and totals alone and drops no
\* recount that is due without leaving its totals behind.
LEMMA OnlyRecounts ==
  ASSUME TotalInv, UNCHANGED <<place, weight, block, blockPoint, blockCount, testTotal>>,
         behind \subseteq behind',
         \A c \in Blocks : RecountDue(c) => RecountDue(c)' \/ c \in behind',
         TestDue => TestDue' \/ "test" \in behind'
  PROVE  RightUnlessDue'
<1>1. ASSUME NEW d \in Blocks PROVE RightOrDue(d)'
  <2>1. RightOrDue(d)
    BY DEF TotalInv, RightUnlessDue
  <2> QED BY <2>1, BlockKept
<1>2. TestRightOrDue
  BY DEF TotalInv, RightUnlessDue
<1>3. TestRightOrDue'
  BY <1>2, TestKept
<1> QED BY <1>1, <1>3 DEF RightUnlessDue

LEMMA AskTotals ==
  ASSUME TotalInv, NEW r \in Recounts, NEW q \in QuestionIds, AskDelete(r, q)
  PROVE  RightUnlessDue'
<1> USE DEF TotalInv, PointInv, PointShape, Go
<1>1. /\ recount[r].at = "idle"
      /\ \A s \in Recounts \ {r} : recount'[s] = recount[s]
      /\ UNCHANGED <<place, weight, block, blockPoint, blockCount, testTotal, behind>>
  BY DEF AskDelete, Idle, NoRecount
<1>2. \A c \in Blocks : RecountDue(c) => RecountDue(c)'
  BY <1>1 DEF RecountDue
<1>3. TestDue => TestDue'
  BY <1>1 DEF TestDue
<1> QED BY <1>1, <1>2, <1>3, OnlyRecounts

LEMMA FailTotals ==
  ASSUME TotalInv, NEW r \in Recounts, FailRecount(r)
  PROVE  RightUnlessDue'
<1> USE DEF TotalInv, PointInv, PointShape, Go
<1>1. /\ \A s \in Recounts \ {r} : recount'[s] = recount[s]
      /\ UNCHANGED <<place, weight, block, blockPoint, blockCount, testTotal>>
      /\ behind \subseteq behind'
      /\ recount[r].at # "delete" => "test" \in behind'
      /\ recount[r].at \in {"readBlock", "saveBlock"} => recount[r].block \in behind'
  BY DEF FailRecount
<1>2. \A c \in Blocks : RecountDue(c) => RecountDue(c)' \/ c \in behind'
  BY <1>1 DEF RecountDue
<1>3. TestDue => TestDue' \/ "test" \in behind'
  BY <1>1 DEF TestDue
<1> QED BY <1>1, <1>2, <1>3, OnlyRecounts

LEMMA ReadTotals ==
  ASSUME TotalInv, NEW r \in Recounts, ReadBlock(r) \/ ReadTest(r)
  PROVE  RightUnlessDue'
<1> USE DEF TotalInv, PointInv, PointShape, Go
<1>1. /\ \A s \in Recounts \ {r} : recount'[s] = recount[s]
      /\ UNCHANGED <<place, weight, block, blockPoint, blockCount, testTotal, behind>>
  BY DEF ReadBlock, ReadTest
<1>2. CASE ReadBlock(r) /\ block[recount[r].block] # NoRow
  <2>1. recount'[r].at = "saveBlock" /\ recount'[r].block = recount[r].block
    BY <1>2 DEF ReadBlock
  <2>2. \A c \in Blocks : RecountDue(c) => RecountDue(c)'
    BY <1>1, <2>1 DEF RecountDue
  <2>3. TestDue'
    BY <2>1 DEF TestDue
  <2> QED BY <1>1, <2>2, <2>3, OnlyRecounts
<1>3. CASE ReadBlock(r) /\ block[recount[r].block] = NoRow
  <2>1. recount'[r].at = "readTest" /\ recount[r].at = "readBlock"
    BY <1>3 DEF ReadBlock
  <2>2. TestDue'
    BY <2>1 DEF TestDue
  <2>3. TestRightOrDue'
    BY <2>2 DEF TestRightOrDue
  <2>4. ASSUME NEW d \in Blocks PROVE RightOrDue(d)'
    <3>1. RightOrDue(d)
      BY DEF RightUnlessDue
    <3>2. CASE d = recount[r].block
      BY <1>1, <1>3, <3>2 DEF RightOrDue
    <3>3. CASE d # recount[r].block
      <4>1. RecountDue(d) => RecountDue(d)'
        BY <1>1, <3>3 DEF RecountDue
      <4> QED BY <1>1, <3>1, <4>1, BlockKept
    <3> QED BY <3>2, <3>3
  <2> QED BY <2>3, <2>4 DEF RightUnlessDue
<1>4. CASE ReadTest(r)
  <2>1. recount'[r].at = "saveTest" /\ recount[r].at = "readTest"
    BY <1>4 DEF ReadTest
  <2>2. \A c \in Blocks : RecountDue(c) => RecountDue(c)'
    BY <1>1, <2>1 DEF RecountDue
  <2>3. TestDue'
    BY <2>1 DEF TestDue
  <2> QED BY <1>1, <2>2, <2>3, OnlyRecounts
<1> QED BY <1>2, <1>3, <1>4

LEMMA DeleteTotals ==
  ASSUME TotalInv, NEW r \in Recounts, DeleteQuestion(r)
  PROVE  RightUnlessDue'
<1> USE PointsAssumption DEF TotalInv, PointInv, PointShape, TotalShape, Go
<1> DEFINE q == recount[r].question
           b == recount[r].block
<1>1. /\ recount[r].at = "delete" /\ b \in {Nowhere} \cup Blocks
      /\ \A s \in Recounts \ {r} : recount'[s] = recount[s]
      /\ behind \subseteq behind'
      /\ place[q] \in Blocks \ {b} => place[q] \in behind'
      /\ UNCHANGED <<block, blockPoint, blockCount, testTotal>>
  BY DEF DeleteQuestion
<1>2. \A x \in QuestionIds \ {q} : place'[x] = place[x] /\ weight'[x] = weight[x]
  BY DEF DeleteQuestion, Removed
<1>3. q \in QuestionIds => place'[q] = NoRow
  BY DEF DeleteQuestion, Removed
<1>4. b # Nowhere => recount'[r].at = "readBlock" /\ recount'[r].block = b
  BY DEF DeleteQuestion
<1> HIDE DEF q, b
<1>5. \A d \in Blocks : RecountDue(d) => RecountDue(d)'
  BY <1>1 DEF RecountDue
<1>6. TestDue => TestDue'
  BY <1>1 DEF TestDue
<1>7. ASSUME NEW d \in Blocks PROVE RightOrDue(d)'
  <2>1. CASE d = b
    BY <1>4, <2>1 DEF RightOrDue, RecountDue
  <2>2. CASE d # b /\ d = place[q]
    BY <1>1, <2>2 DEF RightOrDue
  <2>3. CASE d # b /\ d # place[q]
    <3>1. \A x \in QuestionIds : place'[x] = d <=> place[x] = d
      BY <1>2, <1>3, <2>3
    <3>2. \A x \in ChildrenOf(d) : weight'[x] = weight[x]
      BY <1>2, <2>3 DEF ChildrenOf
    <3>3. RightOrDue(d)
      BY DEF RightUnlessDue
    <3> QED BY <1>1, <1>5, <3>1, <3>2, <3>3, BlockKept
  <2> QED BY <2>1, <2>2, <2>3
<1>8. TestRightOrDue'
  <2>1. TestRightOrDue
    BY DEF RightUnlessDue
  <2> QED BY <1>1, <1>6, <2>1, TestKept
<1> QED BY <1>7, <1>8 DEF RightUnlessDue

LEMMA CategoryTotals ==
  ASSUME TotalInv, NEW c \in Blocks, NEW n, SaveCategory(c, n) \/ DeleteCategory(c)
  PROVE  RightUnlessDue'
<1> USE PointsAssumption DEF TotalInv, PointInv, PointShape, TotalShape
<1>1. /\ recount' = recount /\ "test" \in behind'
      /\ behind \ {c} \subseteq behind'
      /\ block'[c] = NoRow \/ c \in behind'
  BY DEF SaveCategory, DeleteCategory
<1>2. \A d \in Blocks \ {c} :
        block'[d] = block[d] /\ blockPoint'[d] = blockPoint[d] /\ blockCount'[d] = blockCount[d]
  BY DEF SaveCategory, DeleteCategory
<1>3. \A x \in QuestionIds : \/ place'[x] = place[x] /\ weight'[x] = weight[x]
                             \/ place[x] = c /\ place'[x] = NoRow
  BY DEF SaveCategory, DeleteCategory
<1>4. ASSUME NEW d \in Blocks PROVE RightOrDue(d)'
  <2>1. CASE d = c
    BY <1>1, <2>1 DEF RightOrDue
  <2>2. CASE d # c
    <3>1. RightOrDue(d)
      BY DEF RightUnlessDue
    <3>2. RecountDue(d) => RecountDue(d)'
      BY <1>1 DEF RecountDue
    <3>3. \A x \in QuestionIds : place'[x] = d <=> place[x] = d
      BY <1>3, <2>2
    <3>4. \A x \in ChildrenOf(d) : weight'[x] = weight[x]
      BY <1>3, <2>2 DEF ChildrenOf
    <3> QED BY <1>1, <1>2, <2>2, <3>1, <3>2, <3>3, <3>4, BlockKept
  <2> QED BY <2>1, <2>2
<1>5. TestRightOrDue'
  BY <1>1 DEF TestRightOrDue
<1> QED BY <1>4, <1>5 DEF RightUnlessDue

\* Whose row a save finds unchanged, its questions are the ones read.
LEMMA ReadNow ==
  ASSUME NEW r \in Recounts, recount[r].row = CategoryRow(recount[r].block)
  PROVE  /\ ReadOf(r) = ChildrenOf(recount[r].block)
         /\ recount[r].row.count = blockCount[recount[r].block]
<1> DEFINE kids == {<<x, weight[x]>> : x \in ChildrenOf(recount[r].block)}
<1>1. recount[r].row.children = kids /\ recount[r].row.count = blockCount[recount[r].block]
  BY DEF CategoryRow
<1>2. {p[1] : p \in kids} = ChildrenOf(recount[r].block)
  <2>1. \A p \in kids : \E x \in ChildrenOf(recount[r].block) : p[1] = x
    OBVIOUS
  <2>2. \A x \in ChildrenOf(recount[r].block) : <<x, weight[x]>> \in kids /\ <<x, weight[x]>>[1] = x
    OBVIOUS
  <2>3. \A p \in kids : p[1] \in ChildrenOf(recount[r].block)
    BY <2>1
  <2> HIDE DEF kids
  <2> QED BY <2>2, <2>3
<1> HIDE DEF kids
<1> QED BY <1>1, <1>2 DEF ReadOf

LEMMA SaveBlockTotals ==
  ASSUME TotalInv, NEW r \in Recounts, SaveBlock(r)
  PROVE  RightUnlessDue'
<1> USE PointsAssumption DEF TotalInv, PointInv, PointShape, TotalShape, Go
<1> DEFINE row == recount[r].row
<1>0. PICK c : c = recount[r].block
  OBVIOUS
<1>1. c \in Blocks /\ c # NoRow /\ c # Nowhere /\ recount[r].at = "saveBlock"
  BY <1>0 DEF SaveBlock
<1>2. PICK total \in CategoryPoints(row.children, row.count) :
        blockPoint' = [blockPoint EXCEPT ![c] = total]
  BY <1>0 DEF SaveBlock
<1>3. /\ blockCount' = [blockCount EXCEPT ![c] = row.count]
      /\ \A d \in Blocks \ {c} : block'[d] = block[d]
      /\ weight' = weight
      /\ \A s \in Recounts \ {r} : recount'[s] = recount[s]
      /\ recount'[r].at = "readTest"
  BY <1>0 DEF SaveBlock
<1>4. place' = [q \in QuestionIds |->
        IF place[q] = NoRow THEN NoRow
        ELSE IF q \in ReadOf(r) THEN c
        ELSE IF place[q] = c THEN Nowhere ELSE place[q]]
  BY <1>0 DEF SaveBlock, ReadOf
<1>5. /\ behind \ {c} \subseteq behind'
      /\ \A q \in ReadOf(r) : place[q] \in Blocks \ {c} => place[q] \in behind'
      /\ (row = CategoryRow(c) /\ block[c] # NoRow) \/ c \in behind'
  BY <1>0 DEF SaveBlock, ReadOf
<1>6. RightOrDue(c)'
  <2>1. CASE row = CategoryRow(c) /\ block[c] # NoRow
    <3>1. ReadOf(r) = ChildrenOf(c) /\ row.count = blockCount[c]
      BY <1>0, <2>1, ReadNow
    <3>2. RightPoint(c, total)
      BY <1>1, <1>2, <2>1, RightTotal
    <3>3. blockCount'[c] = blockCount[c] /\ blockPoint'[c] = total
      BY <1>1, <1>2, <1>3, <3>1
    <3>4. \A q \in QuestionIds : place'[q] = c <=> place[q] = c
      BY <1>1, <1>4, <3>1 DEF ChildrenOf
    <3>5. ChildrenOf(c)' = ChildrenOf(c)
      BY <3>4 DEF ChildrenOf
    <3>6. RightPoint(c, blockPoint[c])'
      BY <1>3, <3>2, <3>3, <3>5 DEF RightPoint
    <3> QED BY <3>6 DEF RightOrDue
  <2> QED BY <1>5, <2>1 DEF RightOrDue
<1>7. ASSUME NEW d \in Blocks, d # c PROVE RightOrDue(d)'
  <2>1. CASE \E q \in ReadOf(r) : place[q] = d
    BY <1>5, <1>7, <2>1 DEF RightOrDue
  <2>2. CASE \A q \in ReadOf(r) : place[q] # d
    <3>1. RightOrDue(d)
      BY DEF RightUnlessDue
    <3>2. RecountDue(d) => RecountDue(d)'
      BY <1>0, <1>3, <1>7 DEF RecountDue
    <3>3. \A x \in QuestionIds : place'[x] = d <=> place[x] = d
      BY <1>4, <1>7, <2>2
    <3> QED BY <1>1, <1>2, <1>3, <1>5, <1>7, <3>1, <3>2, <3>3, BlockKept
  <2> QED BY <2>1, <2>2
<1>8. TestRightOrDue'
  BY <1>3 DEF TestRightOrDue, TestDue
<1> QED BY <1>6, <1>7, <1>8 DEF RightUnlessDue

LEMMA SaveTestTotals ==
  ASSUME TotalInv, NEW r \in Recounts, SaveTest(r)
  PROVE  RightUnlessDue'
<1> USE PointsAssumption DEF TotalInv, PointInv, PointShape, TotalShape, Go
<1>1. /\ recount[r].at = "saveTest" /\ testTotal' = recount[r].totals
      /\ \A d \in Blocks : block'[d] = NoRow <=> block[d] = NoRow
      /\ behind \ {"test"} \subseteq behind'
      /\ \A s \in Recounts \ {r} : recount'[s] = recount[s]
      /\ UNCHANGED <<place, weight, blockPoint, blockCount>>
  BY DEF SaveTest, NoRow, InTest, Nowhere
<1>2. ASSUME NEW d \in Blocks PROVE RightOrDue(d)'
  <2>1. RightOrDue(d)
    BY DEF RightUnlessDue
  <2>2. RecountDue(d) => RecountDue(d)'
    BY <1>1 DEF RecountDue
  <2>3. d \in behind => d \in behind'
    BY <1>1
  <2> QED BY <1>1, <2>1, <2>2, <2>3, BlockKept
<1>3. TestRightOrDue'
  <2>1. CASE recount[r].blocks = BlocksOfTest /\ recount[r].totals = TotalsOfTest(BlocksOfTest)
    <3>1. BlocksOfTest' = BlocksOfTest
      BY <2>1 DEF SaveTest, BlocksOfTest, NoRow, InTest, Nowhere
    <3>2. TotalsOfTest(BlocksOfTest)' = TotalsOfTest(BlocksOfTest)
      BY <1>1, <3>1 DEF TotalsOfTest
    <3> QED BY <1>1, <2>1, <3>2 DEF TestRightOrDue
  <2>2. CASE ~(recount[r].blocks = BlocksOfTest /\ recount[r].totals = TotalsOfTest(BlocksOfTest))
    BY <2>2 DEF SaveTest, TestRightOrDue
  <2> QED BY <2>1, <2>2
<1> QED BY <1>2, <1>3 DEF RightUnlessDue

LEMMA TotalStep == TotalInv /\ [PointsNext]_pointVars => TotalInv'
<1> SUFFICES ASSUME TotalInv, [PointsNext]_pointVars PROVE TotalInv'
  OBVIOUS
<1>1. PointInv'
  BY PointStep DEF TotalInv
<1>2. TotalShape'
  BY ShapeKept
<1>3. ASSUME UNCHANGED pointVars PROVE RightUnlessDue'
  <2>1. \A c \in Blocks : RecountDue(c) => RecountDue(c)'
    BY <1>3 DEF pointVars, RecountDue
  <2>2. TestDue => TestDue'
    BY <1>3 DEF pointVars, TestDue
  <2> QED BY <1>3, <2>1, <2>2, OnlyRecounts DEF pointVars
<1>4. ASSUME NEW r \in Recounts, NEW q \in QuestionIds, NEW c \in Blocks, NEW w \in 0..MaxPoint,
             SaveQuestion(r, q, c, w)
      PROVE  RightUnlessDue'
  BY <1>4, QuestionTotals
<1>5. ASSUME NEW r \in Recounts, NEW q \in QuestionIds, AskDelete(r, q)
      PROVE  RightUnlessDue'
  BY <1>5, AskTotals
<1>6. ASSUME NEW r \in Recounts,
             \/ DeleteQuestion(r) \/ ReadBlock(r) \/ SaveBlock(r)
             \/ ReadTest(r) \/ SaveTest(r) \/ FailRecount(r)
      PROVE  RightUnlessDue'
  BY <1>6, DeleteTotals, ReadTotals, SaveBlockTotals, SaveTestTotals, FailTotals
<1>7. ASSUME NEW c \in Blocks, NEW n \in 1..MaxCount, SaveCategory(c, n)
      PROVE  RightUnlessDue'
  BY <1>7, CategoryTotals
<1>8. ASSUME NEW c \in Blocks, DeleteCategory(c)
      PROVE  RightUnlessDue'
  BY <1>8, CategoryTotals
<1>9. RightUnlessDue'
  BY <1>3, <1>4, <1>5, <1>6, <1>7, <1>8 DEF PointsNext
<1> QED BY <1>1, <1>2, <1>9 DEF TotalInv

\* When no recount is under way, the total of a category and of the test is
\* that of the questions and categories there are, unless one was edited or
\* left, a recount failed, or one saved what it had read before a change.
THEOREM TotalsAreRight == PointsSpec => []TotalsRight
<1>1. TotalInv => TotalsRight
  <2> SUFFICES ASSUME TotalInv, \A r \in Recounts : Idle(r)
               PROVE  /\ \A c \in BlocksOfTest \ behind : RightPoint(c, blockPoint[c])
                      /\ "test" \notin behind => testTotal = TotalsOfTest(BlocksOfTest)
    BY DEF TotalsRight
  <2>1. ~TestDue /\ \A c \in Blocks : ~RecountDue(c)
    BY DEF TestDue, RecountDue, Idle, NoRecount
  <2> QED BY <2>1 DEF TotalInv, RightUnlessDue, RightOrDue, TestRightOrDue, BlocksOfTest, InTest, NoRow
<1>2. QED
  BY TotalInit, TotalStep, <1>1, PTL DEF PointsSpec

-----------------------------------------------------------------------------
(* Scheduled messages                                                      *)

StepNames == {"todo", "add", "mail", "sent", "failed", "skipped"}

ScheduleShape ==
  /\ status \in [Rows -> {"none", "pending", "sending", "done", "failed", "cancelled"}]
  /\ held \in [Replicas -> SUBSET Rows] /\ run \in [Replicas -> Rows \cup {Nobody}]
  /\ step \in [Rows -> [Addresses -> StepNames]] /\ mails \in [Rows -> [Addresses -> Nat]]

\* One replica has a row, and a reminder follows its invitation.
OneHolder ==
  /\ \A p \in Replicas : \A r \in held[p] : status[r] = "sending"
  /\ \A p, q \in Replicas : p # q => held[p] \cap held[q] = {}
  /\ \A p \in Replicas : run[p] # Nobody => run[p] \in held[p]
  /\ \A s \in Invites : status[<<s, "remind">>] # "none" => status[<<s, "invite">>] = "done"

\* Nothing was mailed for a row before its one run, and in it what is "sent".
MailedOnce ==
  /\ SentOnce
  /\ \A r \in Rows, i \in Addresses : status[r] \in {"none", "pending", "cancelled"} => mails[r][i] = 0
  /\ \A p \in Replicas : \A r \in held[p] : \A i \in Addresses :
       mails[r][i] = 0 \/ (r = run[p] /\ step[r][i] = "sent")

ScheduleInv == ScheduleShape /\ OneHolder /\ MailedOnce

LEMMA ScheduleInitInv == Init => ScheduleInv
<1> SUFFICES ASSUME Init PROVE ScheduleInv
  OBVIOUS
<1>1. ScheduleShape
  BY DEF Init, ScheduleShape, StepNames
<1>2. OneHolder
  BY DEF Init, OneHolder, Rows
<1>3. MailedOnce
  BY DEF Init, MailedOnce, SentOnce
<1> QED BY <1>1, <1>2, <1>3 DEF ScheduleInv

\* The message of a running row to an address goes on.
LEMMA AddressStep ==
  ASSUME ScheduleInv, NEW p \in Replicas, NEW i \in Addresses, NEW s \in StepNames,
         run[p] # Nobody, step[run[p]][i] # "sent", step' = [step EXCEPT ![run[p]][i] = s],
         mails' = mails \/ (s = "sent" /\ mails' = [mails EXCEPT ![run[p]][i] = @ + 1]),
         UNCHANGED <<status, held, run>>
  PROVE  ScheduleInv'
<1>1. PICK r \in Rows : r = run[p] /\ r \in held[p] /\ status[r] = "sending"
  BY DEF ScheduleInv, ScheduleShape, OneHolder
<1>2. mails[r][i] = 0
  BY <1>1 DEF ScheduleInv, MailedOnce
<1>3. /\ step' = [step EXCEPT ![r][i] = s] /\ mails' \in [Rows -> [Addresses -> Nat]]
      /\ mails' = mails \/ (s = "sent" /\ mails' = [mails EXCEPT ![r][i] = @ + 1])
  <2>1. step' = [step EXCEPT ![r][i] = s]
    BY <1>1
  <2>2. mails' = mails \/ (s = "sent" /\ mails' = [mails EXCEPT ![r][i] = @ + 1])
    BY <1>1
  <2>3. mails \in [Rows -> [Addresses -> Nat]]
    BY DEF ScheduleInv, ScheduleShape
  <2>4. [mails EXCEPT ![r][i] = @ + 1] \in [Rows -> [Addresses -> Nat]]
    BY <2>3
  <2> QED BY <2>1, <2>2, <2>3, <2>4
<1>4. step' \in [Rows -> [Addresses -> StepNames]]
  BY <1>3 DEF ScheduleInv, ScheduleShape
<1>5. /\ \A q \in Rows, j \in Addresses : q # r \/ j # i => mails'[q][j] = mails[q][j] /\ step'[q][j] = step[q][j]
      /\ mails'[r][i] = 0 \/ (mails'[r][i] = 1 /\ step'[r][i] = "sent")
  <2>1. mails \in [Rows -> [Addresses -> Nat]] /\ step \in [Rows -> [Addresses -> StepNames]]
    BY DEF ScheduleInv, ScheduleShape
  <2>2. \A q \in Rows, j \in Addresses : q # r \/ j # i => step'[q][j] = step[q][j]
    BY <1>3, <2>1
  <2>3. step'[r][i] = s
    BY <1>3, <2>1
  <2>4. CASE mails' = mails
    BY <1>2, <2>2, <2>4
  <2>5. CASE s = "sent" /\ mails' = [mails EXCEPT ![r][i] = @ + 1]
    <3>1. \A q \in Rows, j \in Addresses : q # r \/ j # i => mails'[q][j] = mails[q][j]
      BY <2>1, <2>5
    <3>2. mails'[r][i] = mails[r][i] + 1
      BY <2>1, <2>5
    <3> QED BY <1>2, <2>2, <2>3, <2>5, <3>1, <3>2
  <2> QED BY <1>3, <2>4, <2>5
<1>6. ScheduleShape' /\ OneHolder'
  BY <1>3, <1>4 DEF ScheduleInv, ScheduleShape, OneHolder
<1>7. SentOnce'
  BY <1>5 DEF ScheduleInv, MailedOnce, SentOnce
<1>8. ASSUME NEW q \in Rows, NEW j \in Addresses, status'[q] \in {"none", "pending", "cancelled"}
      PROVE  mails'[q][j] = 0
  BY <1>1, <1>5, <1>8 DEF ScheduleInv, MailedOnce
<1>9. ASSUME NEW o \in Replicas, NEW q \in held'[o], NEW j \in Addresses
      PROVE  mails'[q][j] = 0 \/ (q = run'[o] /\ step'[q][j] = "sent")
  <2>1. q \in held[o] /\ q \in Rows
    BY DEF ScheduleInv, ScheduleShape
  <2>2. mails[q][j] = 0 \/ (q = run[o] /\ step[q][j] = "sent")
    BY <2>1 DEF ScheduleInv, MailedOnce
  <2>3. q = r => o = p
    BY <1>1, <2>1 DEF ScheduleInv, OneHolder
  <2> QED BY <1>1, <1>5, <2>1, <2>2, <2>3
<1> QED BY <1>6, <1>7, <1>8, <1>9 DEF ScheduleInv, MailedOnce

LEMMA ClaimStep == ASSUME ScheduleInv, NEW p \in Replicas, Claim(p) PROVE ScheduleInv'
<1>1. PICK R \in SUBSET Due :
        /\ held' = [held EXCEPT ![p] = R]
        /\ status' = [r \in Rows |-> IF r \in R THEN "sending" ELSE status[r]]
  BY DEF Claim
<1>2. held[p] = {} /\ UNCHANGED <<run, step, mails>>
  BY DEF Claim, work
<1>3. R \subseteq Rows /\ \A r \in R : status[r] = "pending"
  BY DEF Due
<1>4. run[p] = Nobody
  BY <1>2 DEF ScheduleInv, OneHolder
<1>5. ScheduleShape'
  BY <1>1, <1>2, <1>3 DEF ScheduleInv, ScheduleShape
<1>6. held'[p] = R /\ \A q \in Replicas \ {p} : held'[q] = held[q]
  BY <1>1 DEF ScheduleInv, ScheduleShape
<1>7. /\ \A r \in R : status'[r] = "sending" /\ \A q \in Replicas : r \notin held[q]
      /\ \A r \in Rows \ R : status'[r] = status[r]
  BY <1>1, <1>3 DEF ScheduleInv, OneHolder
<1>8. OneHolder'
  <2>1. \A q \in Replicas : \A r \in held'[q] : status'[r] = "sending"
    BY <1>6, <1>7 DEF ScheduleInv, OneHolder, ScheduleShape
  <2>2. \A q, o \in Replicas : q # o => held'[q] \cap held'[o] = {}
    BY <1>6, <1>7 DEF ScheduleInv, OneHolder
  <2>3. \A q \in Replicas : run'[q] # Nobody => run'[q] \in held'[q]
    BY <1>2, <1>4, <1>6 DEF ScheduleInv, OneHolder
  <2>4. ASSUME NEW s \in Invites, status'[<<s, "remind">>] # "none" PROVE status'[<<s, "invite">>] = "done"
    <3>1. <<s, "remind">> \in Rows /\ <<s, "invite">> \in Rows
      BY DEF Rows
    <3>2. status[<<s, "remind">>] # "none"
      BY <1>3, <1>7, <2>4, <3>1
    <3> QED BY <1>3, <1>7, <3>1, <3>2 DEF ScheduleInv, OneHolder
  <2> QED BY <2>1, <2>2, <2>3, <2>4 DEF OneHolder
<1>9. \A r \in R, i \in Addresses : mails[r][i] = 0
  BY <1>3 DEF ScheduleInv, MailedOnce
<1>10. MailedOnce'
  BY <1>2, <1>3, <1>6, <1>7, <1>9 DEF ScheduleInv, MailedOnce, SentOnce
<1> QED BY <1>5, <1>8, <1>10 DEF ScheduleInv

LEMMA StartStep == ASSUME ScheduleInv, NEW p \in Replicas, Start(p) PROVE ScheduleInv'
<1>1. PICK r \in held[p] :
        /\ run' = [run EXCEPT ![p] = r]
        /\ step' = [step EXCEPT ![r] = [i \in Addresses |-> "todo"]]
  BY DEF Start
<1>2. run[p] = Nobody /\ UNCHANGED <<status, held, mails>> /\ r \in Rows /\ r # Nobody
  BY SchedulesAssumption DEF Start, ScheduleInv, ScheduleShape, Rows
<1>3. ScheduleShape'
  <2>1. [i \in Addresses |-> "todo"] \in [Addresses -> StepNames]
    BY DEF StepNames
  <2> QED BY <1>1, <1>2, <2>1 DEF ScheduleInv, ScheduleShape
<1>4. run'[p] = r /\ (\A q \in Replicas \ {p} : run'[q] = run[q]) /\ \A x \in Rows \ {r} : step'[x] = step[x]
  BY <1>1 DEF ScheduleInv, ScheduleShape
<1>5. OneHolder'
  BY <1>1, <1>2, <1>4 DEF ScheduleInv, OneHolder
<1>6. ASSUME NEW q \in Replicas, NEW x \in held[q], NEW i \in Addresses
      PROVE  mails[x][i] = 0 \/ (x = run'[q] /\ step'[x][i] = "sent")
  <2>1. x \in Rows /\ (mails[x][i] = 0 \/ (x = run[q] /\ step[x][i] = "sent"))
    BY DEF ScheduleInv, ScheduleShape, MailedOnce
  <2>2. CASE q = p
    <3>1. x # Nobody
      BY <2>1, SchedulesAssumption DEF Rows
    <3> QED BY <1>2, <2>1, <2>2, <3>1
  <2>3. CASE q # p
    <3>1. x # r
      BY <2>3 DEF ScheduleInv, OneHolder
    <3> QED BY <1>4, <2>1, <2>3, <3>1
  <2> QED BY <2>2, <2>3
<1>7. MailedOnce'
  BY <1>2, <1>6 DEF ScheduleInv, MailedOnce, SentOnce
<1> QED BY <1>3, <1>5, <1>7 DEF ScheduleInv

LEMMA CancelStep == ASSUME ScheduleInv, NEW r \in Rows, Cancel(r) PROVE ScheduleInv'
<1>1. status[r] = "pending" /\ status' = [status EXCEPT ![r] = "cancelled"] /\ UNCHANGED <<held, run, step, mails>>
  BY DEF Cancel, work
<1>2. status'[r] = "cancelled" /\ \A q \in Rows \ {r} : status'[q] = status[q]
  BY <1>1 DEF ScheduleInv, ScheduleShape
<1>3. ScheduleShape'
  BY <1>1 DEF ScheduleInv, ScheduleShape
<1>4. \A p \in Replicas : r \notin held[p] /\ held[p] \subseteq Rows
  BY <1>1 DEF ScheduleInv, OneHolder, ScheduleShape
<1>5. ASSUME NEW s \in Invites, status'[<<s, "remind">>] # "none" PROVE status'[<<s, "invite">>] = "done"
  <2>1. <<s, "remind">> \in Rows /\ <<s, "invite">> \in Rows
    BY DEF Rows
  <2>2. status[<<s, "remind">>] # "none"
    BY <1>1, <1>2, <1>5, <2>1
  <2> QED BY <1>1, <1>2, <2>1, <2>2 DEF ScheduleInv, OneHolder
<1>6. OneHolder'
  BY <1>1, <1>2, <1>4, <1>5 DEF ScheduleInv, OneHolder
<1>7. MailedOnce'
  <2>1. \A i \in Addresses : mails[r][i] = 0
    BY <1>1 DEF ScheduleInv, MailedOnce
  <2> QED BY <1>1, <1>2, <2>1 DEF ScheduleInv, MailedOnce, SentOnce
<1> QED BY <1>3, <1>6, <1>7 DEF ScheduleInv

\* A replica leaves the row it ran, and its reminder may come to wait.
LEMMA LeaveStep ==
  ASSUME ScheduleInv, NEW p \in Replicas, NEW outcome \in {"done", "failed"}, run[p] # Nobody,
         Leave(p, outcome)
  PROVE  ScheduleInv'
<1>1. PICK r \in Rows : r = run[p] /\ r \in held[p] /\ status[r] = "sending"
  BY DEF ScheduleInv, ScheduleShape, OneHolder
<1>2. PICK s \in Invites, k \in {"invite", "remind"} : r = <<s, k>>
  BY <1>1 DEF Rows
<1>3. <<s, "remind">> \in Rows /\ <<s, "invite">> \in Rows
  BY DEF Rows
<1>4. /\ status' = [x \in Rows |-> IF x = r THEN outcome
         ELSE IF outcome = "done" /\ x = <<s, "remind">> /\ codes[x[1]] > 0 THEN "pending" ELSE status[x]]
      /\ held' = [held EXCEPT ![p] = @ \ {r}] /\ run' = [run EXCEPT ![p] = Nobody]
      /\ UNCHANGED <<step, mails>>
  BY <1>1, <1>2 DEF Leave, Rest
<1>5. status'[r] = outcome /\ \A x \in Rows \ {r, <<s, "remind">>} : status'[x] = status[x]
  BY <1>4
<1>6. r = <<s, "remind">> \/ (r = <<s, "invite">> /\ status[<<s, "remind">>] = "none")
  BY <1>1, <1>2 DEF ScheduleInv, OneHolder
<1>7. r # <<s, "remind">> =>
        \/ status'[<<s, "remind">>] = status[<<s, "remind">>]
        \/ outcome = "done" /\ status'[<<s, "remind">>] = "pending"
  BY <1>3, <1>4
<1>8. /\ held'[p] = held[p] \ {r} /\ (\A q \in Replicas \ {p} : held'[q] = held[q])
      /\ run'[p] = Nobody /\ (\A q \in Replicas \ {p} : run'[q] = run[q])
  BY <1>4 DEF ScheduleInv, ScheduleShape
<1>9. \A q \in Replicas : held'[q] \subseteq held[q] /\ held[q] \subseteq Rows /\ r \notin held'[q]
  BY <1>1, <1>8 DEF ScheduleInv, ScheduleShape, OneHolder
<1>10. \A q \in Replicas : \A x \in held'[q] : x # r /\ status'[x] = status[x]
  <2> SUFFICES ASSUME NEW q \in Replicas, NEW x \in held'[q] PROVE x # r /\ status'[x] = status[x]
    OBVIOUS
  <2>1. x # r /\ x \in Rows /\ status[x] = "sending"
    BY <1>9 DEF ScheduleInv, OneHolder
  <2>2. x # <<s, "remind">>
    BY <1>6, <2>1
  <2> QED BY <1>5, <2>1, <2>2
<1>11. ScheduleShape'
  <2>1. status' \in [Rows -> {"none", "pending", "sending", "done", "failed", "cancelled"}]
    BY <1>4 DEF ScheduleInv, ScheduleShape
  <2>2. held' \in [Replicas -> SUBSET Rows] /\ run' \in [Replicas -> Rows \cup {Nobody}]
    BY <1>4 DEF ScheduleInv, ScheduleShape
  <2> QED BY <1>4, <2>1, <2>2 DEF ScheduleInv, ScheduleShape
<1>12. ASSUME NEW v \in Invites, status'[<<v, "remind">>] # "none" PROVE status'[<<v, "invite">>] = "done"
  <2>1. <<v, "remind">> \in Rows /\ <<v, "invite">> \in Rows
    BY DEF Rows
  <2>2. CASE v = s
    <3>1. CASE r = <<s, "remind">>
      BY <1>1, <1>5, <2>1, <2>2, <3>1 DEF ScheduleInv, OneHolder
    <3>2. CASE r = <<s, "invite">>
      BY <1>5, <1>6, <1>7, <1>12, <2>2, <3>2
    <3> QED BY <1>6, <3>1, <3>2
  <2>3. CASE v # s
    <3>1. status'[<<v, "remind">>] = status[<<v, "remind">>] /\ status'[<<v, "invite">>] = status[<<v, "invite">>]
      BY <1>2, <1>5, <2>1, <2>3
    <3> QED BY <1>12, <3>1 DEF ScheduleInv, OneHolder
  <2> QED BY <2>2, <2>3
<1>13. OneHolder'
  <2>1. \A q \in Replicas : \A x \in held'[q] : status'[x] = "sending"
    BY <1>9, <1>10 DEF ScheduleInv, OneHolder
  <2>2. \A q, o \in Replicas : q # o => held'[q] \cap held'[o] = {}
    BY <1>9 DEF ScheduleInv, OneHolder
  <2>3. \A q \in Replicas : run'[q] # Nobody => run'[q] \in held'[q]
    BY <1>8 DEF ScheduleInv, OneHolder
  <2> QED BY <1>12, <2>1, <2>2, <2>3 DEF OneHolder
<1>14. MailedOnce'
  <2>1. SentOnce'
    BY <1>4 DEF ScheduleInv, MailedOnce, SentOnce
  <2>2. ASSUME NEW x \in Rows, NEW i \in Addresses, status'[x] \in {"none", "pending", "cancelled"}
        PROVE  mails'[x][i] = 0
    <3>1. x # r
      BY <1>5, <2>2
    <3>2. CASE x = <<s, "remind">>
      BY <1>4, <1>6, <3>1, <3>2 DEF ScheduleInv, MailedOnce
    <3>3. CASE x # <<s, "remind">>
      BY <1>4, <1>5, <2>2, <3>1, <3>3 DEF ScheduleInv, MailedOnce
    <3> QED BY <3>2, <3>3
  <2>3. ASSUME NEW q \in Replicas, NEW x \in held'[q], NEW i \in Addresses
        PROVE  mails'[x][i] = 0 \/ (x = run'[q] /\ step'[x][i] = "sent")
    <3>1. x \in held[q] /\ x # r
      BY <1>9
    <3>2. mails[x][i] = 0 \/ (x = run[q] /\ step[x][i] = "sent")
      BY <3>1 DEF ScheduleInv, MailedOnce
    <3>3. x = run[q] => q # p
      BY <1>1, <3>1
    <3> QED BY <1>4, <1>8, <3>2, <3>3
  <2> QED BY <2>1, <2>2, <2>3 DEF MailedOnce
<1> QED BY <1>11, <1>13, <1>14 DEF ScheduleInv

LEMMA ScheduleCrashStep == ASSUME ScheduleInv, NEW p \in Replicas, Crash(p) PROVE ScheduleInv'
<1>1. /\ held' = [held EXCEPT ![p] = {}] /\ run' = [run EXCEPT ![p] = Nobody]
      /\ UNCHANGED <<status, step, mails>>
  BY DEF Crash, Rest
<1>2. /\ held'[p] = {} /\ (\A q \in Replicas \ {p} : held'[q] = held[q])
      /\ run'[p] = Nobody /\ (\A q \in Replicas \ {p} : run'[q] = run[q])
  BY <1>1 DEF ScheduleInv, ScheduleShape
<1>3. ScheduleShape'
  BY <1>1 DEF ScheduleInv, ScheduleShape
<1>4. OneHolder'
  BY <1>1, <1>2 DEF ScheduleInv, OneHolder
<1>5. MailedOnce'
  <2>1. ASSUME NEW q \in Replicas, NEW x \in held'[q], NEW i \in Addresses
        PROVE  mails'[x][i] = 0 \/ (x = run'[q] /\ step'[x][i] = "sent")
    BY <1>1, <1>2 DEF ScheduleInv, MailedOnce
  <2> QED BY <1>1, <2>1 DEF ScheduleInv, MailedOnce, SentOnce
<1> QED BY <1>3, <1>4, <1>5 DEF ScheduleInv

\* Whatever leaves the rows, their holders and their mails alone.
LEMMA ScheduleFrame ==
  ASSUME ScheduleInv, UNCHANGED <<status, held, run, step, mails>> PROVE ScheduleInv'
BY DEF ScheduleInv, ScheduleShape, OneHolder, MailedOnce, SentOnce

LEMMA ScheduleStep == ScheduleInv /\ [Next]_vars => ScheduleInv'
<1> SUFFICES ASSUME ScheduleInv, [Next]_vars PROVE ScheduleInv'
  OBVIOUS
<1>1. CASE UNCHANGED vars
  BY <1>1, ScheduleFrame DEF vars, work
<1>2. ASSUME NEW r \in Rows, Cancel(r) PROVE ScheduleInv'
  BY <1>2, CancelStep
<1>3. ASSUME NEW p \in Replicas, Claim(p) PROVE ScheduleInv'
  BY <1>3, ClaimStep
<1>4. ASSUME NEW p \in Replicas, Start(p) PROVE ScheduleInv'
  BY <1>4, StartStep
<1>5. ASSUME NEW p \in Replicas, Look(p) \/ Take(p) PROVE ScheduleInv'
  BY <1>5, ScheduleFrame DEF Look, Take
<1>6. ASSUME NEW p \in Replicas, Invited(p) PROVE ScheduleInv'
  BY <1>6, LeaveStep DEF Invited, Inviting
<1>7. ASSUME NEW p \in Replicas, Reminded(p) PROVE ScheduleInv'
  BY <1>7, LeaveStep DEF Reminded
<1>8. ASSUME NEW p \in Replicas, Throw(p) PROVE ScheduleInv'
  BY <1>8, LeaveStep DEF Throw
<1>9. ASSUME NEW p \in Replicas, NEW i \in Addresses, FindUser(p, i) PROVE ScheduleInv'
  <2>1. PICK s \in StepNames : step' = [step EXCEPT ![run[p]][i] = s]
    BY <1>9 DEF FindUser, Set, StepNames
  <2> QED BY <1>9, <2>1, AddressStep DEF FindUser, At, Inviting, work
<1>10. ASSUME NEW p \in Replicas, NEW i \in Addresses, AddUser(p, i) PROVE ScheduleInv'
  <2>1. "mail" \in StepNames
    BY DEF StepNames
  <2> QED BY <1>10, <2>1, AddressStep DEF AddUser, At, Inviting, work, Set
<1>11. ASSUME NEW p \in Replicas, NEW i \in Addresses, Mail(p, i) PROVE ScheduleInv'
  <2>1. "sent" \in StepNames
    BY DEF StepNames
  <2> QED BY <1>11, <2>1, AddressStep DEF Mail, At, Inviting, work, Set
<1>12. ASSUME NEW p \in Replicas, NEW i \in Addresses, Fail(p, i) PROVE ScheduleInv'
  <2>1. "failed" \in StepNames
    BY DEF StepNames
  <2>2. run[p] # Nobody /\ step[run[p]][i] # "sent"
    BY <1>12 DEF Fail, At, Inviting
  <2> QED BY <1>12, <2>1, <2>2, AddressStep DEF Fail, work, Set
<1>13. ASSUME NEW p \in Replicas, NEW i \in Addresses, Remind(p, i) PROVE ScheduleInv'
  <2>1. run[p] # Nobody /\ step[run[p]][i] = "todo" /\ UNCHANGED <<status, held, run>>
    BY <1>13 DEF Remind, work
  <2>2. PICK r \in Rows : r = run[p]
    BY <2>1 DEF ScheduleInv, ScheduleShape
  <2>3. CASE step' = [step EXCEPT ![run[p]][i] = "skipped"] /\ UNCHANGED mails
    <3>1. "skipped" \in StepNames
      BY DEF StepNames
    <3> QED BY <2>1, <2>3, <3>1, AddressStep
  <2>4. ASSUME NEW s \in {"sent", "failed"}, step' = [step EXCEPT ![run[p]][i] = s],
               mails' = IF step'[run[p]][i] = "sent" THEN [mails EXCEPT ![run[p]][i] = @ + 1] ELSE mails
        PROVE  ScheduleInv'
    <3>1. s \in StepNames
      BY DEF StepNames
    <3>2. step'[run[p]][i] = s
      BY <2>2, <2>4 DEF ScheduleInv, ScheduleShape
    <3> QED BY <2>1, <2>4, <3>1, <3>2, AddressStep
  <2>5. \/ step' = [step EXCEPT ![run[p]][i] = "skipped"] /\ UNCHANGED mails
        \/ \E s \in {"sent", "failed"} :
             /\ step' = [step EXCEPT ![run[p]][i] = s]
             /\ mails' = IF step'[run[p]][i] = "sent" THEN [mails EXCEPT ![run[p]][i] = @ + 1] ELSE mails
    BY <1>13 DEF Remind, Set
  <2> QED BY <2>3, <2>4, <2>5
<1>14. ASSUME NEW p \in Replicas, Crash(p) PROVE ScheduleInv'
  BY <1>14, ScheduleCrashStep
<1>15. ASSUME NEW v \in 1..Services, TakeOther(v) PROVE ScheduleInv'
  BY <1>15, ScheduleFrame DEF TakeOther, work
<1>16. ASSUME NEW s \in Invites, NEW i \in Addresses, EndExam(s, i) PROVE ScheduleInv'
  BY <1>16, ScheduleFrame DEF EndExam, work
<1> QED
  BY <1>1, <1>2, <1>3, <1>4, <1>5, <1>6, <1>7, <1>8, <1>9, <1>10, <1>11, <1>12, <1>13, <1>14,
     <1>15, <1>16 DEF Next, Inviter, Reminder

\* What a schedule sends: no address gets the message of a row twice, though any
\* replica may claim it and go down, and a cancelled row has sent nothing.
THEOREM SchedulesSendRight == Spec => []SentRight
<1>1. ScheduleInv => SentRight
  BY DEF ScheduleInv, MailedOnce, SentRight, CancelledSilent
<1>2. QED
  BY ScheduleInitInv, ScheduleStep, <1>1, PTL DEF Spec

-----------------------------------------------------------------------------
(* The seats of scheduled invitations                                      *)

\* Who asks for seats asks them of a purchase.
PaidInv ==
  /\ codes \in [Invites -> Nat] /\ seats \in [1..Services -> 0..Seats]
  /\ run \in [Replicas -> Rows \cup {Nobody}] /\ held \in [Replicas -> SUBSET Rows]
  /\ at \in [Replicas -> 1..(Services + 1)] /\ want \in [Replicas -> Int]
  /\ \A p \in Replicas : want[p] # 0 => at[p] \in 1..Services
  /\ IsFiniteSet(Reserved) /\ CodesPaid

LEMMA InReserved ==
  ASSUME NEW f \in [Invites -> Nat], NEW s, NEW i
  PROVE  <<s, i>> \in UNION {{t} \X (1..f[t]) : t \in Invites} <=> s \in Invites /\ i \in 1..f[s]
OBVIOUS

LEMMA InLeft ==
  ASSUME NEW f \in [1..Services -> Int], NEW v, NEW i
  PROVE  <<v, i>> \in UNION {{w} \X (1..f[w]) : w \in 1..Services} <=> v \in 1..Services /\ i \in 1..f[v]
OBVIOUS

\* n further numbers of x.
Span(x, a, n) == {x} \X ((a + 1)..(a + n))

LEMMA SpanCount ==
  ASSUME NEW x, NEW a \in Int, NEW n \in Nat
  PROVE  IsFiniteSet(Span(x, a, n)) /\ Cardinality(Span(x, a, n)) = n
<1> DEFINE I == (a + 1)..(a + n)
<1>1. IsFiniteSet({x}) /\ Cardinality({x}) = 1
  BY FS_Singleton
<1>2. IsFiniteSet(I) /\ Cardinality(I) = n
  <2>1. a + 1 \in Int /\ a + n \in Int
    OBVIOUS
  <2>2. IsFiniteSet((a + 1)..(a + n))
        /\ Cardinality((a + 1)..(a + n)) = IF a + 1 > a + n THEN 0 ELSE (a + n) - (a + 1) + 1
    BY <2>1, FS_Interval
  <2> QED BY <2>2
<1>3. Span(x, a, n) = {x} \X I
  BY DEF Span
<1> HIDE DEF I
<1>4. IsFiniteSet({x} \X I) /\ Cardinality({x} \X I) = Cardinality({x}) * Cardinality(I)
  BY <1>1, <1>2, FS_Product
<1> QED BY <1>1, <1>2, <1>3, <1>4

\* To put them to a set that has none of them counts them.
LEMMA SpanAdded ==
  ASSUME NEW S, NEW x, NEW a \in Int, NEW n \in Nat, IsFiniteSet(S), S \cap Span(x, a, n) = {}
  PROVE  /\ IsFiniteSet(S \cup Span(x, a, n)) /\ Cardinality(S) \in Nat
         /\ Cardinality(S \cup Span(x, a, n)) = Cardinality(S) + n
<1>1. IsFiniteSet(Span(x, a, n)) /\ Cardinality(Span(x, a, n)) = n
  BY SpanCount
<1>2. Cardinality(S \cap Span(x, a, n)) = 0 /\ Cardinality(S) \in Nat
  BY FS_EmptySet, FS_CardinalityType
<1>3. /\ IsFiniteSet(S \cup Span(x, a, n))
      /\ Cardinality(S \cup Span(x, a, n))
           = Cardinality(S) + Cardinality(Span(x, a, n)) - Cardinality(S \cap Span(x, a, n))
  BY <1>1, FS_Union
<1> QED BY <1>1, <1>2, <1>3

\* The seats left are some of those there were.
LEMMA LeftFinite ==
  ASSUME NEW f \in [1..Services -> 0..Seats]
  PROVE  /\ IsFiniteSet(UNION {{w} \X (1..f[w]) : w \in 1..Services})
         /\ Cardinality(UNION {{w} \X (1..f[w]) : w \in 1..Services}) <= Services * Seats
<1> DEFINE L == UNION {{w} \X (1..f[w]) : w \in 1..Services}
<1>1. Services \in Nat /\ Seats \in Nat /\ 1 \in Int /\ Services \in Int /\ Seats \in Int
  BY SchedulesAssumption
<1>2. /\ IsFiniteSet(1..Services) /\ Cardinality(1..Services) = IF 1 > Services THEN 0 ELSE Services - 1 + 1
      /\ IsFiniteSet(1..Seats) /\ Cardinality(1..Seats) = IF 1 > Seats THEN 0 ELSE Seats - 1 + 1
  BY <1>1, FS_Interval
<1>3. Cardinality(1..Services) = Services /\ Cardinality(1..Seats) = Seats
  BY <1>1, <1>2
<1>4. /\ IsFiniteSet((1..Services) \X (1..Seats))
      /\ Cardinality((1..Services) \X (1..Seats)) = Cardinality(1..Services) * Cardinality(1..Seats)
  BY <1>2, FS_Product
<1>5. L \subseteq (1..Services) \X (1..Seats)
  BY <1>1
<1> HIDE DEF L
<1>6. IsFiniteSet(L) /\ Cardinality(L) <= Cardinality((1..Services) \X (1..Seats))
  BY <1>4, <1>5, FS_Subset
<1>7. Cardinality((1..Services) \X (1..Seats)) = Services * Seats
  BY <1>3, <1>4
<1> QED BY <1>6, <1>7 DEF L

LEMMA PaidInitInv == Init => PaidInv
<1> SUFFICES ASSUME Init PROVE PaidInv
  OBVIOUS
<1>1. codes \in [Invites -> Nat] /\ seats \in [1..Services -> 0..Seats]
  BY SchedulesAssumption DEF Init
<1>2. Reserved = {}
  BY DEF Init, Reserved
<1>3. IsFiniteSet(Reserved) /\ Cardinality(Reserved) = 0
  BY <1>2, FS_EmptySet
<1>4. Cardinality(Left) <= Services * Seats /\ Cardinality(Left) \in Nat
  BY <1>1, LeftFinite, FS_CardinalityType DEF Left
<1>5. CodesPaid
  BY <1>3, <1>4 DEF CodesPaid
<1>6. /\ run \in [Replicas -> Rows \cup {Nobody}] /\ held \in [Replicas -> SUBSET Rows]
      /\ at \in [Replicas -> 1..(Services + 1)] /\ want \in [Replicas -> Int]
      /\ \A p \in Replicas : want[p] = 0
  BY SchedulesAssumption DEF Init
<1> QED BY <1>1, <1>3, <1>5, <1>6 DEF PaidInv

LEMMA PaidTake == ASSUME PaidInv, NEW p \in Replicas, Take(p) PROVE PaidInv'
<1> DEFINE v == at[p]
           n == want[p]
<1>1. PICK s \in Invites : s = run[p][1]
  BY DEF PaidInv, Take, Inviting, Rows
<1>2. v \in 1..Services /\ n \in Nat /\ n > 0
  BY DEF PaidInv, Take
<1>3. /\ at' = [at EXCEPT ![p] = @ + 1] /\ want' = [want EXCEPT ![p] = 0] /\ UNCHANGED <<run, held>>
      /\ \/ UNCHANGED <<seats, codes>>
         \/ seats[v] >= n /\ seats' = [seats EXCEPT ![v] = @ - n] /\ codes' = [codes EXCEPT ![s] = @ + n]
  BY <1>1 DEF Take
<1>4. /\ at' \in [Replicas -> 1..(Services + 1)] /\ want' \in [Replicas -> Int]
      /\ \A q \in Replicas : want'[q] # 0 => at'[q] \in 1..Services
  BY <1>2, <1>3, SchedulesAssumption DEF PaidInv
<1>5. CASE UNCHANGED <<seats, codes>>
  BY <1>3, <1>4, <1>5 DEF PaidInv, Reserved, Left, CodesPaid
<1>6. CASE seats[v] >= n /\ seats' = [seats EXCEPT ![v] = @ - n] /\ codes' = [codes EXCEPT ![s] = @ + n]
  <2> HIDE DEF v, n
  <2>1. codes \in [Invites -> Nat] /\ seats \in [1..Services -> 0..Seats] /\ Seats \in Nat
    BY SchedulesAssumption DEF PaidInv
  <2>2. codes' \in [Invites -> Nat] /\ seats' \in [1..Services -> 0..Seats]
    BY <1>2, <1>6, <2>1
  <2>3. codes'[s] = codes[s] + n /\ \A t \in Invites \ {s} : codes'[t] = codes[t]
    BY <1>6, <2>1
  <2>4. seats[v] = seats'[v] + n /\ \A w \in (1..Services) \ {v} : seats'[w] = seats[w]
    BY <1>2, <1>6, <2>1
  <2>5. /\ \A t, i : <<t, i>> \in Reserved <=> t \in Invites /\ i \in 1..codes[t]
        /\ \A t, i : <<t, i>> \in Reserved' <=> t \in Invites /\ i \in 1..codes'[t]
    BY <2>1, <2>2, InReserved DEF Reserved
  <2>6. /\ \A t, i : <<t, i>> \in Left <=> t \in 1..Services /\ i \in 1..seats[t]
        /\ \A t, i : <<t, i>> \in Left' <=> t \in 1..Services /\ i \in 1..seats'[t]
    BY <2>1, <2>2, InLeft DEF Left
  <2>7. Reserved \subseteq Invites \X Nat /\ Reserved' \subseteq Invites \X Nat
    BY <2>1, <2>2 DEF Reserved
  <2>8. Left \subseteq (1..Services) \X Nat /\ Left' \subseteq (1..Services) \X Nat
    BY <2>1, <2>2 DEF Left
  <2>9. Reserved' = Reserved \cup Span(s, codes[s], n)
    <3>1. ASSUME NEW t \in Invites, NEW i \in Nat
          PROVE  <<t, i>> \in Reserved' <=> <<t, i>> \in Reserved \cup Span(s, codes[s], n)
      BY <1>2, <2>1, <2>3, <2>5 DEF Span
    <3>2. Span(s, codes[s], n) \subseteq Invites \X Nat
      BY <1>2, <2>1 DEF Span
    <3> QED BY <2>7, <3>1, <3>2
  <2>10. Reserved \cap Span(s, codes[s], n) = {}
    BY <1>2, <2>1, <2>5 DEF Span
  <2>11. Left = Left' \cup Span(v, seats'[v], n)
    <3>1. ASSUME NEW t \in 1..Services, NEW i \in Nat
          PROVE  <<t, i>> \in Left <=> <<t, i>> \in Left' \cup Span(v, seats'[v], n)
      BY <1>2, <2>1, <2>2, <2>4, <2>6 DEF Span
    <3>2. Span(v, seats'[v], n) \subseteq (1..Services) \X Nat
      BY <1>2, <2>2 DEF Span
    <3> QED BY <2>8, <3>1, <3>2
  <2>12. Left' \cap Span(v, seats'[v], n) = {}
    BY <1>2, <2>2, <2>6 DEF Span
  <2>13. codes[s] \in Int /\ seats'[v] \in Int /\ IsFiniteSet(Reserved) /\ IsFiniteSet(Left')
    <3>1. codes[s] \in Int /\ seats'[v] \in Int
      BY <1>2, <2>1, <2>2
    <3>2. IsFiniteSet(Reserved) /\ IsFiniteSet(Left')
      BY <2>2, LeftFinite DEF PaidInv, Left
    <3> QED BY <3>1, <3>2
  <2>14. IsFiniteSet(Reserved') /\ Cardinality(Reserved') = Cardinality(Reserved) + n /\ Cardinality(Reserved) \in Nat
    <3>1. codes[s] \in Int /\ n \in Nat /\ IsFiniteSet(Reserved)
      BY <1>2, <2>13
    <3>2. /\ IsFiniteSet(Reserved \cup Span(s, codes[s], n)) /\ Cardinality(Reserved) \in Nat
          /\ Cardinality(Reserved \cup Span(s, codes[s], n)) = Cardinality(Reserved) + n
      BY <2>10, <3>1, SpanAdded
    <3> QED BY <2>9, <3>2
  <2>15. Cardinality(Left) = Cardinality(Left') + n /\ Cardinality(Left') \in Nat
    <3>1. PICK k \in Int : k = seats'[v]
      BY <2>13
    <3>2. PICK S : S = Left'
      OBVIOUS
    <3>3. Left = S \cup Span(v, k, n) /\ S \cap Span(v, k, n) = {} /\ IsFiniteSet(S) /\ n \in Nat
      BY <1>2, <2>11, <2>12, <2>13, <3>1, <3>2
    <3>4. Cardinality(S \cup Span(v, k, n)) = Cardinality(S) + n /\ Cardinality(S) \in Nat
      BY <3>3, SpanAdded
    <3> QED BY <3>2, <3>3, <3>4
  <2>16. CodesPaid'
    BY <1>2, <2>14, <2>15, SchedulesAssumption DEF PaidInv, CodesPaid
  <2> QED BY <1>3, <1>4, <2>2, <2>14, <2>16 DEF PaidInv
<1> QED BY <1>3, <1>5, <1>6

\* Another batch takes a seat.
LEMMA PaidTakeOther == ASSUME PaidInv, NEW v \in 1..Services, TakeOther(v) PROVE PaidInv'
<1>1. /\ seats[v] > 0 /\ seats' = [seats EXCEPT ![v] = @ - 1]
      /\ UNCHANGED <<run, held, at, want, codes>> /\ seats \in [1..Services -> 0..Seats]
  BY DEF TakeOther, work, PaidInv
<1>2. seats' \in [1..Services -> 0..Seats] /\ \A w \in 1..Services : 1..seats'[w] \subseteq 1..seats[w]
  BY <1>1, SchedulesAssumption
<1>3. Left' \subseteq Left
  BY <1>2 DEF Left
<1>4. Reserved' = Reserved
  BY <1>1 DEF Reserved
<1>5. Cardinality(Left') <= Cardinality(Left) /\ Cardinality(Left') \in Nat /\ Cardinality(Left) \in Nat
  <2>1. IsFiniteSet(Left)
    BY <1>1, LeftFinite DEF Left
  <2> QED BY <1>3, <2>1, FS_Subset, FS_CardinalityType
<1>6. CodesPaid'
  BY <1>4, <1>5, FS_CardinalityType, SchedulesAssumption DEF PaidInv, CodesPaid
<1> QED BY <1>1, <1>2, <1>4, <1>6 DEF PaidInv

\* Whatever takes no seats and asks for none.
LEMMA PaidFrame ==
  ASSUME PaidInv, UNCHANGED <<codes, seats>>,
         run' \in [Replicas -> Rows \cup {Nobody}] /\ held' \in [Replicas -> SUBSET Rows],
         at' \in [Replicas -> 1..(Services + 1)] /\ want' \in [Replicas -> Int],
         \A p \in Replicas : want'[p] # 0 => at'[p] \in 1..Services
  PROVE  PaidInv'
BY DEF PaidInv, Reserved, Left, CodesPaid

\* Whatever does not run and stop either.
LEMMA PaidStutter == ASSUME PaidInv, UNCHANGED <<codes, seats, held, work>> PROVE PaidInv'
BY PaidFrame DEF PaidInv, work

LEMMA PaidRest ==
  ASSUME PaidInv, NEW p \in Replicas, Rest(p), NEW R \in SUBSET Rows, held' = [held EXCEPT ![p] = R],
         UNCHANGED <<codes, seats>>
  PROVE  PaidInv'
<1>1. /\ run' = [run EXCEPT ![p] = Nobody] /\ at' = [at EXCEPT ![p] = 1] /\ want' = [want EXCEPT ![p] = 0]
  BY DEF Rest
<1>2. 1 \in 1..(Services + 1)
  BY SchedulesAssumption
<1>3. \A q \in Replicas : want'[q] # 0 => at'[q] \in 1..Services
  BY <1>1 DEF PaidInv
<1> QED BY <1>1, <1>2, <1>3, PaidFrame DEF PaidInv

LEMMA PaidLook == ASSUME PaidInv, NEW p \in Replicas, Look(p) PROVE PaidInv'
<1> DEFINE n == Least(N - codes[run[p][1]], seats[at[p]])
<1>1. run[p][1] \in Invites /\ at[p] \in 1..Services /\ UNCHANGED <<run, held, codes, seats>>
  BY SchedulesAssumption DEF PaidInv, Look, Inviting, Rows
<1>2. n \in Int
  BY <1>1, SchedulesAssumption DEF PaidInv, Least
<1>3. (at' = [at EXCEPT ![p] = @ + 1] /\ UNCHANGED want) \/ (want' = [want EXCEPT ![p] = n] /\ UNCHANGED at)
  BY DEF Look
<1>4. want[p] = 0
  BY DEF Look
<1> HIDE DEF n
<1>5. at' \in [Replicas -> 1..(Services + 1)] /\ want' \in [Replicas -> Int]
  BY <1>1, <1>2, <1>3, SchedulesAssumption DEF PaidInv
<1>6. \A q \in Replicas : want'[q] # 0 => at'[q] \in 1..Services
  BY <1>1, <1>3, <1>4 DEF PaidInv
<1> QED BY <1>1, <1>5, <1>6, PaidFrame DEF PaidInv

LEMMA PaidStep == PaidInv /\ [Next]_vars => PaidInv'
<1> SUFFICES ASSUME PaidInv, [Next]_vars PROVE PaidInv'
  OBVIOUS
<1>1. CASE UNCHANGED vars
  BY <1>1, PaidStutter DEF vars
<1>2. ASSUME NEW r \in Rows, Cancel(r) PROVE PaidInv'
  BY <1>2, PaidStutter DEF Cancel
<1>3. ASSUME NEW p \in Replicas, Claim(p) PROVE PaidInv'
  <2>1. PICK R \in SUBSET Rows : held' = [held EXCEPT ![p] = R]
    BY <1>3 DEF Claim, Due
  <2> QED BY <1>3, <2>1, PaidFrame DEF Claim, work, PaidInv
<1>4. ASSUME NEW p \in Replicas, Start(p) PROVE PaidInv'
  <2>1. PICK r \in held[p] : run' = [run EXCEPT ![p] = r]
    BY <1>4 DEF Start
  <2>2. run' \in [Replicas -> Rows \cup {Nobody}]
    BY <2>1 DEF PaidInv
  <2> QED BY <1>4, <2>2, PaidFrame DEF Start, PaidInv
<1>5. ASSUME NEW p \in Replicas, Look(p) \/ Take(p) PROVE PaidInv'
  BY <1>5, PaidLook, PaidTake
<1>6. ASSUME NEW p \in Replicas, Invited(p) \/ Reminded(p) \/ Throw(p) PROVE PaidInv'
  <2>1. Rest(p) /\ held' = [held EXCEPT ![p] = @ \ {run[p]}] /\ UNCHANGED <<codes, seats>>
    BY <1>6 DEF Invited, Reminded, Throw, Leave
  <2>2. held[p] \ {run[p]} \in SUBSET Rows
    BY DEF PaidInv
  <2>3. held' = [held EXCEPT ![p] = held[p] \ {run[p]}]
    BY <2>1
  <2> QED BY <2>1, <2>2, <2>3, PaidRest
<1>7. ASSUME NEW p \in Replicas, NEW i \in Addresses,
             FindUser(p, i) \/ AddUser(p, i) \/ Mail(p, i) \/ Fail(p, i) \/ Remind(p, i)
      PROVE  PaidInv'
  BY <1>7, PaidStutter DEF FindUser, AddUser, Mail, Fail, Remind
<1>8. ASSUME NEW p \in Replicas, Crash(p) PROVE PaidInv'
  BY <1>8, PaidRest DEF Crash
<1>9. ASSUME NEW v \in 1..Services, TakeOther(v) PROVE PaidInv'
  BY <1>9, PaidTakeOther
<1>10. ASSUME NEW s \in Invites, NEW i \in Addresses, EndExam(s, i) PROVE PaidInv'
  BY <1>10, PaidStutter DEF EndExam
<1> QED
  BY <1>1, <1>2, <1>3, <1>4, <1>5, <1>6, <1>7, <1>8, <1>9, <1>10 DEF Next, Inviter, Reminder

\* Every code of a scheduled invitation was paid for with a seat, although each
\* invitation looks for seats and takes them in two steps, and other batches and
\* other replicas take theirs between the two.
THEOREM SchedulesPaid == Spec => []CodesPaid
<1>1. PaidInv => CodesPaid
  BY DEF PaidInv
<1>2. QED
  BY PaidInitInv, PaidStep, <1>1, PTL DEF Spec
=============================================================================

------------------------------ MODULE SkipRules ------------------------------
(***************************************************************************)
(* The rules that skip a question depending on the answer to another, as   *)
(* administrators create, change, switch off and delete them.              *)
(*                                                                         *)
(* A rule is checked against all others in one query and written in        *)
(* another, without a transaction.  The refusals that depend on the two    *)
(* questions (their kinds, tests and sections, the owner of an answer or a *)
(* cell) are nondeterministic; the answer, cell and row a rule names are   *)
(* one detail.  Whether a rule is active matters to no check and is left   *)
(* out, and with it the change of that flag alone to false.                *)
(***************************************************************************)
CONSTANTS
  RuleIds,      \* rows of questionRule, present and future
  Questions,
  Details,      \* combinations of answer, cell and row
  Admins        \* requests under way at a time

VARIABLES
  rules,        \* the rule in each row, or NoRule
  ruleEdit,     \* what each request does
  unchecked     \* history: rules written after another write they had not seen

skipVars == <<rules, ruleEdit, unchecked>>

NoRule == <<>>
Rule == [target : Questions, dep : Questions, detail : Details]
NoEdit == <<"idle">>
Edits == {NoEdit} \cup ({"read", "checked", "late"} \X RuleIds \X Rule \X {"create", "update"})

SkipTypeOK ==
  /\ rules \in [RuleIds -> Rule \cup {NoRule}]
  /\ ruleEdit \in [Admins -> Edits]
  /\ unchecked \subseteq RuleIds

Stored == {i \in RuleIds : rules[i] # NoRule}

\* Rules from before there was a check may be there.
SkipInit ==
  /\ rules \in [RuleIds -> Rule \cup {NoRule}]
  /\ ruleEdit = [w \in Admins |-> NoEdit]
  /\ unchecked = Stored

-----------------------------------------------------------------------------
Same(r, s) == r.target = s.target /\ r.dep = s.dep /\ r.detail = s.detail

\* A slip: only a rule the other way round is a cycle.
NoShortCycle(r, others) ==
  \A i \in others : ~(rules[i].target = r.dep /\ rules[i].dep = r.target)

\* The search of validate() from r.dep along the rules visits a set of
\* questions closed under them; it must not meet r.target.
NoCycle(r, others) ==
  \E seen \in SUBSET Questions :
    /\ r.dep \in seen /\ r.target \notin seen
    /\ \A i \in others : rules[i].target \in seen => rules[i].dep \in seen

\* validate() for row i: all other rows count.
Valid(r, i) ==
  /\ r.target # r.dep
  /\ \A j \in Stored \ {i} : ~Same(rules[j], r)
  /\ NoCycle(r, Stored \ {i})

\* create: a row nobody has yet.
AskCreate(w, i, r) ==
  /\ ruleEdit[w] = NoEdit
  /\ i \notin Stored /\ \A v \in Admins : ruleEdit[v] # NoEdit => ruleEdit[v][2] # i
  /\ Valid(r, i)
  /\ ruleEdit' = [ruleEdit EXCEPT ![w] = <<"checked", i, r, "create">>]
  /\ UNCHANGED <<rules, unchecked>>

\* update: the patch is merged into the row as it is read.
AskUpdate(w, i, r) ==
  /\ ruleEdit[w] = NoEdit
  /\ i \in Stored
  /\ ruleEdit' = [ruleEdit EXCEPT ![w] = <<"read", i, r, "update">>]
  /\ UNCHANGED <<rules, unchecked>>

CheckUpdate(w) ==
  /\ ruleEdit[w][1] = "read"
  /\ Valid(ruleEdit[w][3], ruleEdit[w][2])
  /\ ruleEdit' = [ruleEdit EXCEPT ![w] = <<"checked", @[2], @[3], @[4]>>]
  /\ UNCHANGED <<rules, unchecked>>

\* An error of any step.
Refuse(w) ==
  /\ ruleEdit[w] # NoEdit
  /\ ruleEdit' = [ruleEdit EXCEPT ![w] = NoEdit]
  /\ UNCHANGED <<rules, unchecked>>

\* The checks of the others do not see this write.
Overtake(w) ==
  ruleEdit' = [v \in Admins |->
    IF v = w THEN NoEdit
    ELSE IF ruleEdit[v][1] = "checked"
    THEN <<"late", ruleEdit[v][2], ruleEdit[v][3], ruleEdit[v][4]>>
    ELSE ruleEdit[v]]

\* create inserts; update writes the whole rule, or nothing if the row is gone.
WriteRule(w) ==
  LET i == ruleEdit[w][2]
      late == ruleEdit[w][1] = "late"
  IN /\ ruleEdit[w][1] \in {"checked", "late"}
     /\ \/ /\ ruleEdit[w][4] = "create" \/ i \in Stored
           /\ rules' = [rules EXCEPT ![i] = ruleEdit[w][3]]
           /\ unchecked' = IF late THEN unchecked \cup {i} ELSE unchecked \ {i}
           /\ Overtake(w)
        \/ /\ ruleEdit[w][4] = "update" /\ i \notin Stored
           /\ ruleEdit' = [ruleEdit EXCEPT ![w] = NoEdit]
           /\ UNCHANGED <<rules, unchecked>>

DeleteRule(i) ==
  /\ i \in Stored
  /\ rules' = [rules EXCEPT ![i] = NoRule]
  /\ UNCHANGED <<ruleEdit, unchecked>>

SkipNext ==
  \/ \E w \in Admins :
       \/ \E i \in RuleIds, r \in Rule : AskCreate(w, i, r) \/ AskUpdate(w, i, r)
       \/ CheckUpdate(w) \/ Refuse(w) \/ WriteRule(w)
  \/ \E i \in RuleIds : DeleteRule(i)

SkipSpec == SkipInit /\ [][SkipNext]_skipVars

-----------------------------------------------------------------------------
(* What the checks achieve                                                 *)

Checked == Stored \ unchecked

\* Leaving out the rules that were written after a write they had not been
\* checked against, no questions depend on each other in a circle, ...
NoCircle ==
  \A circle \in SUBSET Questions :
    circle # {} =>
      \E q \in circle : \A i \in Checked : rules[i].target = q => rules[i].dep \notin circle

\* ... and no rule is there twice.
NoTwin == \A i, j \in Checked : i # j => ~Same(rules[i], rules[j])

RulesSound == NoCircle /\ NoTwin
=============================================================================

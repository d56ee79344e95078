---------------------------- MODULE MCDefinitions ----------------------------
(***************************************************************************)
(* Three parts of the studio that share no state: the report templates,    *)
(* the rules between questions and the totals of points.  A behaviour is   *)
(* one of one part, the others stay as they begin.                         *)
(***************************************************************************)
EXTENDS Templates, SkipRules, Points, TLC

VARIABLE part

Parts == <<part, templateVars, skipVars, pointVars>>

\* The three parts use the same sets of people, of rows and of groups.
Symmetry == Permutations(Admins) \cup Permutations(RuleIds) \cup Permutations(Tests)

Init ==
  /\ part \in {"templates", "rules", "points"}
  /\ TemplatesInit /\ SkipInit /\ PointsInit
  /\ part # "templates" => rows = {}
  /\ part # "rules" => Stored = {}

Next ==
  /\ UNCHANGED part
  /\ \/ part = "templates" /\ TemplatesNext /\ UNCHANGED <<skipVars, pointVars>>
     \/ part = "rules" /\ SkipNext /\ UNCHANGED <<templateVars, pointVars>>
     \/ part = "points" /\ PointsNext /\ UNCHANGED <<templateVars, skipVars>>

Spec == Init /\ [][Next]_Parts

-----------------------------------------------------------------------------
\* A rule of a question on itself is refused at once: not followed further.
OnOthers(r) == r.target # r.dep

\* Nothing is claimed of rows that went astray: not followed further.
Bounds ==
  /\ \A i \in Stored : OnOthers(rules[i])
  /\ \A w \in Admins : ruleEdit[w] # NoEdit => OnOthers(ruleEdit[w][3])
  /\ astray = {}
=============================================================================

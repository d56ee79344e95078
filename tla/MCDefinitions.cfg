CONSTANTS
  TemplateIds = {r1, r2, r3}
  Tests = {g1, g2}
  Editors = {a1, a2}
  RuleIds = {r1, r2, r3}
  Questions = {q1, q2, q3}
  Details = {d1}
  Admins = {a1, a2}
  QuestionIds = {p1, p2}
  Blocks = {g1, g2}
  MaxPoint = 1
  MaxCount = 1
  Recounts = {a1, a2}
SPECIFICATION Spec
INVARIANTS OneActive RulesSound NothingLost 
SYMMETRY Symmetry
CONSTRAINT Bounds

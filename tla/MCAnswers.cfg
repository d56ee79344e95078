CONSTANTS
  t1 = t1
  t2 = t2
  q1 = q1
  q2 = q2
  a = a
  b = b
  Tabs = {t1, t2}
  Sections = {{q1}, {q2}}
  Options = {a, b}
  None = None
  Values = {1, 2}
  Null = Null
  Blank = Blank
  MaxCalls = 3
  Files = {f1}
  Recordings = {m1}
  Replicas = {t1, t2}
  Items = {x1, x2}
  Choices = {y1}
  Groups = {t1, t2}
  MaxEdits = 2
  Gone = Gone
SPECIFICATION MCSpec
SYMMETRY Symmetry
INVARIANTS   CopyStandsAlone
PROPERTY OtherSectionsUntouched
CHECK_DEADLOCK FALSE

CONSTANTS
  t1 = t1
  t2 = t2
  Tabs = {t1, t2}
  N = 3
  MaxCalls = 3
  Addresses = {e1}
  Handlers = {t1, t2}
  Passwords = {p1, p2}
  Codes = {p1, p2}
  None = None
  Pages = {t1, t2}
  MaxSaves = 5
SPECIFICATION MCSpec
SYMMETRY Symmetry
VIEW Seen
CONSTRAINT Bounds
INVARIANTS SessionSafe FinishedStays AccountsSafe PreviewsSafe
CHECK_DEADLOCK FALSE

CONSTANTS
  r1 = r1
  r2 = r2
  r3 = r3
  Requests = {r1, r2, r3}
  Opening = 2
  Prices = {1, 2}
  Charges <- MCCharges
  Actions = {r1, r2}
  OpsLimit = 1
  MaxDone = 2
  MaxActed = 3
  Pool = {q1, q2}
  Matrix = {q2}
  Sheets = {s1, s2}
  Lines = {l1, l2}
  Cells = {c1}
  Visits = {v1}
  Any = Any
  MaxEdits = 1
  Texts <- MCTexts
  Originals <- MCOriginals
  Shift = 1
  NewId = 100
  MaxRewrites = 2
SPECIFICATION MCSpec
INVARIANT NoDoubleSpend
CHECK_DEADLOCK FALSE

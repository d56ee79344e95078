CONSTANTS
  c1 = c1
  v1 = v1
  sweeper = sweeper
  r1 = r1
  Callers = {c1}
  Viewers = {v1}
  Sweeper = sweeper
  Runs = {r1}
  SweepMax = 1
  AutoMax = 1
  Attempts = 2
  LostAudits = 1
SPECIFICATION Safe
INVARIANTS SweepingIsBounded
PROPERTY RefinesLife

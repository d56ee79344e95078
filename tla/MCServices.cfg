CONSTANTS
  Letters = {l1}
  MaxTries = 5
  Bills = {b1, b2}
  Confirms = {p1, p2}
  ReportCodes = {k1}
  MaxPrice = 2
  InvoiceMax = 1
  ExamCodes = {x1}
  home = home
  first = first
  Cores = {home, other}
  Reads = {u1}
  DefEdits = {first, second}
SPECIFICATION Spec
INVARIANTS SentOncePerDoubt AccessSafe NothingLeftBehind 
PROPERTIES QueueDrains GuardedStays
CONSTRAINT Bounds

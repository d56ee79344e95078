CONSTANTS
  s1 = s1
  s2 = s2
  r1 = r1
  r2 = r2
  NoInvoice = NoInvoice
  Services = {s1, s2}
  Requests = {r1, r2}
  Price <- MCPrice
  MaxPaid = 2
  QCalls = {r1, r2}
  BCalls = {d1, d2}
  Tokens = {k1, k2, k3, k4}
  Browsers = {b1}
  Tries = 2
  MaxAuto = 2
  MaxChanges = 3
SYMMETRY Symmetry
SPECIFICATION MCSpec
CONSTRAINT Bounds
INVARIANTS BookedRight OpenedByPayment CarriedOutOnce 

CONSTANTS
  p1 = p1
  p2 = p2
  s1 = s1
  s2 = s2
  Replicas = {p1, p2}
  Invites = {s1, s2}
  N = 2
  Services = 2
  Seats = 1
  Limit = 2
  Nobody = Nobody
SPECIFICATION Spec
INVARIANTS SentRight CodesPaid
 
CHECK_DEADLOCK FALSE

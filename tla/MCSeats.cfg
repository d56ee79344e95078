CONSTANTS
  r1 = r1
  r2 = r2
  c1 = c1
  NoContact = NoContact
  Requests = {r1, r2}
  Contacts = {c1}
  MaxBatch = 2
  Bought = 2
  Units = {0, 1}
  DraftIds = {d1, d2}
  Admins = {r1, r2}
  Batches = {b1}
  SmsMax = 5
  SampleTest = 2
  SampleOrg = 1
  MaxName = 4
  SmsBodies <- MCSmsBodies
  MailBodies <- MCMailBodies
  NoBody = NoBody
  Authors = {r1, r2}
  MaxIds = 9
  MaxCuts = 1
  MaxDeletes = 1
  Users = {r1, r2}
  Pages = {d1, d2}
  MaxEdits = 3
  MaxTurns = 2
SPECIFICATION MCSpec
SYMMETRY Symmetry
INVARIANTS SeatAccounting NoOversell   StudioSafe
PROPERTIES TopUpNeverUndone SecondVisitTakesNoSeat
CHECK_DEADLOCK FALSE

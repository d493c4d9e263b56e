SPECIFICATION MCSpec
CONSTANTS
  Desks = {d1}
  Jobs = {1, 2, 3}
  EmailOf <- MCEmailOf
  Cap = 2
  DedupeDays = 0
  ReminderAfter = 1
  ReminderMax = 1
  MaxDay = 2
  MaxRows = 3
  MaxTroubles = 1
INVARIANTS
  RequestsApart
  OnceUnlessExcused
  CapHolds

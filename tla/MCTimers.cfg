SPECIFICATION MCSpec
CHECK_DEADLOCK FALSE
SYMMETRY MCSymmetry
CONSTANTS
  run1 = run1
  run2 = run2
  Syncs = {1, 2}
  SyncLoops <- MCRuns
  MaxInterval = 2
  Weekly = {1}
  Daily = {2, 3}
  BootMails = {4, 5}
  Claimed = {5}
  MailRuns <- MCRuns
  DayLength = 2
  WeekLength = 3
  MaxTime = 4
  Invoices = {1, 2}
  DunningRuns <- MCRuns
  OneDay = 2
  LastHour = 2
PROPERTIES
  PauseHolds
  CadenceKept
  OncePerPeriod
  OnceADay
  PaidIsNotChased

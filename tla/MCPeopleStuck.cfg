SPECIFICATION MCSpec
CHECK_DEADLOCK FALSE
CONSTANTS
  bamboo = bamboo
  payroll = payroll
  laptop = laptop
  car = car
  staff = staff
  Desk = {}
  Closeout = {bamboo}
  Systems = {payroll}
  Restricted = {payroll}
  Devices = {laptop}
  Premium = {laptop}
  Vehicle = car
  Groups = {staff}
  MaxFlows = 2
  MaxRows = 2
  MaxByHand = 1
  MaxLinks = 3
  TTL = 1
  MaxToday = 2
  MaxCut = 1
  Recipients = {1, 2, 3}
  Batches = {1, 2}
  BatchMax = 2
  MaxMails = 2
INVARIANTS
  OpenHasWork

SPECIFICATION MCSpec
CHECK_DEADLOCK FALSE
CONSTANTS
  Events = {e1, e2}
  Refused = {e1}
  Slots = {1, 2}
  PassLimit = 1
  Syncs = {1, 2}
  SyncLoops = {1, 2}
  MaxInterval = 1
  Accounts = {1, 2}
  Sites = {3}
  Invoices = {}
  Quotes = {}
  Jobs = {}
  Deficiencies = {}
  Old = {1, 3}
  Parent <- MCParent
  PageSize = 1
  MaxTime = 2
  MaxChanges = 2
  MaxActs = 1
PROPERTIES
  ImplementsDelivery
  SyncsGoOn
  AccountsCatchUp

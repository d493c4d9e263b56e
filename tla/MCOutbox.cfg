SPECIFICATION MCSpec
CHECK_DEADLOCK FALSE
CONSTANTS
  edited = edited
  other = other
  priced = priced
  Quotes = {edited, other}
  Contents = {priced, repriced}
  Recipients = {customer}
  Sensitive = {}
  Handlers = {h1, h2}
  MaxApprovals = 3
  MaxRestarts = 1
  BulkAllowed = TRUE
  NoKey = NoKey
INVARIANTS
  OnePendingPerQuote
  FirstOpeningShowsApproval
  OneByOneIsApproved
  AtMostOncePerOpening
PROPERTIES
  BulkResolves

CONSTANTS
  disable = disable
  delete = delete
  sage = sage
  onedrive = onedrive
  late = late
  Requests = {p1}
  Refs <- ItemRefs
  Codes = {sage, onedrive, late}
  Order <- DeskOrder
  FirstRelease = {sage, onedrive}
  Approvals = {}
  OnDc = {}
  InCloud = {onedrive}
  Mailed = {sage}
  AppGated = {sage}
  Directory = {onedrive}
  Handover = onedrive
  Handlers = {h1, h2}
  NoOne = NoOne
  NoRef = NoRef
  Limit = 1
  MaxJobs = 0
  MaxPolls = 0
  MaxKills = 2
SPECIFICATION FairSpec
CHECK_DEADLOCK FALSE
INVARIANTS
  BoardMatchesItems
  ChecklistComplete
PROPERTIES
  CancelledStays
  HandoverHappens

CONSTANTS
  disable = disable
  delete = delete
  sage = sage
  onedrive = onedrive
  late = late
  Requests = {p1}
  Refs <- ItemRefs
  Codes = {disable, delete}
  Order <- DcOrder
  FirstRelease = {disable, delete}
  Approvals = {delete}
  OnDc = {disable, delete}
  InCloud = {}
  Mailed = {}
  AppGated = {}
  Directory = {disable, delete}
  Handover = onedrive
  Handlers = {}
  NoOne = NoOne
  NoRef = NoRef
  Limit = 1
  MaxJobs = 2
  MaxPolls = 3
  MaxKills = 1
SPECIFICATION Spec
CHECK_DEADLOCK FALSE
INVARIANTS
  DeletionNeedsApproval
  
  OnceUnlessStale
PROPERTIES
  ApprovalsStand

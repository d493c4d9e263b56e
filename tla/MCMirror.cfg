SPECIFICATION MCSpec
CHECK_DEADLOCK FALSE
CONSTANTS
  Accounts = {1}
  Sites = {}
  Invoices = {}
  Quotes = {}
  Jobs = {3, 4}
  Deficiencies = {5}
  Old = {1, 3, 4}
  Parent <- MCParent
  PageSize = 1
  MaxTime = 2
  MaxChanges = 3
  MaxActs = 1
  Folders = {"library", "crew", "old"}
  Files = {"plan", "wages", "notes"}
  Drives <- MCDrives
  PagesOf <- MCPages
  Shared = {"crew", "plan", "wages", "notes"}
  MaxDepth = 1
  Steps = {1, 2}
  MaxStrays = 2
  Subjects = {"houston", "austin", "company"}
  Detectors = {1, 2}
  DetectorOf <- MCDetectorOf
  MaxDecided = 2
INVARIANTS
  
  ScanReports
  QueueIsPresent
PROPERTIES
  DispositionsKept
  NeverOlder

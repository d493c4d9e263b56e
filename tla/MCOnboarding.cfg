CONSTANTS
  mail = mail
  printer = printer
  restrict = restrict
  share = share
  trade = trade
  Requests = {p1}
  Refs = {p1}
  Slots = {mail, printer, restrict, share, trade}
  Order <- FormOrder
  Forms <- AccessForms
  Approvals = {restrict}
  FollowUp <- ShareFollows
  Printers = {printer}
  SharePoint = {share}
  Mail = mail
  AppSetup = {trade}
  Handlers = {h1, h2}
  MaxLicences = 1
  MaxKills = 1
  NoRef = NoRef
  Limit = 1
  MaxJobs = 1
  MaxPolls = 1
SPECIFICATION FairSpec
CHECK_DEADLOCK FALSE
INVARIANTS
  CompleteMeansSettled
  OneFollowUpIfApproved
  AccessWasApproved
  ReportsAreTrue
PROPERTIES
  LicenceSettles

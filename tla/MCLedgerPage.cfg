SPECIFICATION Spec
CONSTANTS
  Drafts = {"rent", "food"}
  Files = {"june"}
  Filters <- MCFilters
  MaxPolls = 1
  MaxActs = 3
  MaxFaults = 2
CHECK_DEADLOCK FALSE
INVARIANTS
  TypeOK
  DuplicateOnlyAfterLoss
  ReportedIsShown
  QuietShowsAll
  DoneIsDone
  OneUploadUnlessOverlapped
  KeysReachEveryRow
PROPERTIES
  UploadEnds

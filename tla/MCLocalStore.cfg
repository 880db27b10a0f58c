SPECIFICATION Spec
CONSTANTS
  p = p
  q = q
  Tab = {p, q}
  Codes = {"x"}
  NewBodies <- MCBodies
  SampleRows = 3
  SampleMonths = 2
  Fixed <- MCFixed
  MaxMade = 2
  MaxReload = 1
  MaxBackups = 1
  MaxWipes = 2
SYMMETRY TabSymmetry
CHECK_DEADLOCK FALSE
INVARIANTS
  TypeOK
  BooksBalance
  EntriesKnownUnlessRaced
  QuietBackupRestores
  SessionOrder
PROPERTIES
  NewCodesUniqueUnlessRaced
  SavedRowsStay
  SampleComplete
  ActsLikeMemory

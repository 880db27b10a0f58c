SPECIFICATION Spec
CONSTANTS
  p = p
  q = q
  Tab = {p}
  Codes = {"x"}
  NewBodies <- MCBodies
  SampleRows = 5
  SampleMonths = 2
  Fixed <- MCFixed
  MaxMade = 2
  MaxReload = 0
  MaxBackups = 0
  MaxWipes = 1
CHECK_DEADLOCK FALSE
PROPERTIES
  SeedOnlyIntoEmpty

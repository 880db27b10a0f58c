SPECIFICATION Spec
CONSTANTS
  s1 = s1
  s2 = s2
  Session <- MCSession
  Amount <- MCAmount
  Zero = 0
  None = None
  MaxWrites = 3
  MaxLosses = 2
  MaxLoads = 1
INVARIANTS
  TypeOK
  QuietAgrees
PROPERTIES
  CatchesUp
CHECK_DEADLOCK FALSE

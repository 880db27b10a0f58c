SPECIFICATION Spec
CONSTANTS
  a1 = a1
  a2 = a2
  a3 = a3
  s1 = s1
  s2 = s2
  Account <- MCAccount
  Session <- MCSession
  MaxDepth = 3
  NoParent = NoParent
  Unused = Unused
  Gone = Gone
INVARIANTS
  Acyclic
CHECK_DEADLOCK FALSE

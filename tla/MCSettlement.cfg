SPECIFICATION Spec
CONSTANTS
  Code = {"A", "B", "C"}
  Files <- MCFiles
  MaxField = 99
  MaxWork = 999
  MaxPeriods = 3
  TableSize = 2
  MaxCount = 2
  MaxGen = 2
CHECK_DEADLOCK FALSE
INVARIANTS
  TypeOK
  ParityHolds
  ScheduleStaysIn
  SchedulesClose
  BalancedBookTotalsZero
  PassIsSound
  HalfBoundary

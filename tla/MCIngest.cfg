SPECIFICATION Spec
CONSTANTS
  p1 = p1
  p2 = p2
  w1 = w1
  w2 = w2
  MaxBatch = 3
  Hash <- MCHash
  Worker <- MCWorker
  Records <- MCRecords
  NudgeCap = 1
  MaxUploads = 2
  MaxFaults = 1
INVARIANTS
  TypeOK
  OneDraftPerHash
PROPERTIES
  DoneIsFinal
  EveryBatchEnds
  KeepsPromise
CHECK_DEADLOCK FALSE

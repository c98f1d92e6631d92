SPECIFICATION Spec
CONSTANTS
  Levels = 2
  Vars = 2
  Requests <- MCRequests
  MaxRuns = 3
  Missing = Missing
  Torn = Torn
  Fill = Fill
INVARIANTS
  TypeOK
  DoneIsComplete
  ReadableIsOneRun
  RaiseKeepsFormer
CHECK_DEADLOCK FALSE

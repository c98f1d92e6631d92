SPECIFICATION Spec
CONSTANTS
  NoGrid = NoGrid
  NullGrid = NullGrid
  NoState = NoState
  m0 = m0
  m1 = m1
  Manifests <- MCManifests
  RequestedGrids <- MCRequestedGrids
  Nbr <- MCNbr
  Update <- MCUpdate
  StepIn <- MCStepIn
  MaxCalls = 2
  Unit = 4
  Floor = 2
INVARIANTS
  TypeOK
  AcceptedCovers
  LaterOverlapIsWeighted
  PartialBlendExact
  FloorOnlyDamps
PROPERTY
  ImplementsUntiledStep
CHECK_DEADLOCK FALSE

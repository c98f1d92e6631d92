SPECIFICATION Spec
CONSTANTS
  None = None
  NoGrid = NoGrid
  NullGrid = NullGrid
  Missing = Missing
  Torn = Torn
  Builds <- MCBuilds
  MaxTiles = 4
  MaxBuilds = 2
  MaxLoads = 1
INVARIANTS
  TypeOK
  HaloExact
  WholeBuildLoads
  EveryFileWasBuilt
  MixIsPartition
CHECK_DEADLOCK FALSE

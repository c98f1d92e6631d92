SPECIFICATION Spec
CONSTANTS
  None = None
  NoGrid = NoGrid
  NullGrid = NullGrid
  Missing = Missing
  Torn = Torn
  Builds <- MCIrregular
  MaxTiles = 4
  MaxBuilds = 1
  MaxLoads = 1
INVARIANT
  BuiltBundleLoads
CHECK_DEADLOCK FALSE

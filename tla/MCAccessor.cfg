SPECIFICATION Spec
CONSTANTS
  onnx1 = onnx1
  onnx2 = onnx2
  exact = exact
  loose = loose
  bare = bare
  tile1 = tile1
  tile2 = tile2
  stats = stats
  physics = physics
  dict = dict
  None = None
  HalfTurn = 180
  LargeOutput = 24
  DefaultGrid <- MCDefaultGrid
  Objects = {dict}
  Contents <- MCContents
  Extras <- MCExtras
  ModelFiles = {onnx1, onnx2}
  WeightDirs = {stats}
  Bundles = {exact, loose, bare}
  TilesOf <- MCTilesOf
  NodesOf <- MCNodesOf
  GridOfBundle <- MCGridOfBundle
  DefaultModel = onnx1
  DefaultWeights = stats
  Supported = {"cpu", "cuda"}
  MaxEdits = 1
INVARIANTS
  TypeOK
  ServedAsAsked
  RaiseIsClean
  EnginesAsConfigured
  GridIsRegular
CHECK_DEADLOCK FALSE

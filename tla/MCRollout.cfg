SPECIFICATION Spec
CONSTANTS
  spilling = spilling
  untiled = untiled
  left = left
  right = right
  r1 = r1
  r2 = r2
  r3 = r3
  r4 = r4
  r5 = r5
  dir1 = dir1
  dir2 = dir2
  NoDir = NoDir
  NoBuffer = NoBuffer
  Models = {spilling, untiled, left, right}
  Tiled = {spilling, left, right}
  Memmap = {spilling, left, right}
  DirArg <- MCDirArg
  Rollouts = {r1, r2, r3, r4, r5}
  ModelOf <- MCModelOf
  OneStep = {r2, r4, r5}
  MaxStarted = 3
  MaxSteps = 2
  NumTiles = 2
INVARIANTS
  TypeOK
  HeldOnlySanitised
PROPERTY
  ImplementsTrajectory
CHECK_DEADLOCK FALSE

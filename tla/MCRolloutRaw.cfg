SPECIFICATION Spec
CONSTANTS
  spilling = spilling
  untiled = untiled
  left = left
  right = right
  r1 = r1
  r2 = r2
  r3 = r3
  r4 = r4
  r5 = r5
  dir1 = dir1
  dir2 = dir2
  NoDir = NoDir
  NoBuffer = NoBuffer
  Models = {spilling, untiled}
  Tiled = {spilling}
  Memmap = {spilling}
  DirArg <- MCDirArg
  Rollouts = {r1, r3}
  ModelOf <- MCModelOf
  OneStep = {}
  MaxStarted = 2
  MaxSteps = 2
  NumTiles = 2
INVARIANT
  CollectedIsRaw
CHECK_DEADLOCK FALSE

SPECIFICATION Spec
CONSTANTS
  one = one
  two = two
  gap = gap
  less = less
  foreign = foreign
  shared = shared
  other = other
  cfgrib = cfgrib
  absent = absent
  t1 = t1
  t2 = t2
  Missing = Missing
  Torn = Torn
  None = None
  NaN = NaN
  Tasks = {t1, t2}
  Adapters <- MCAdapters
  Files = {shared, other}
  Answers = {one, two, gap, less, foreign}
  Fields <- MCFields
  Installed = {cfgrib}
  LevelVars <- MCLevelVars
  Levels <- MCLevels
SYMMETRY Forecasts
INVARIANTS
  TypeOK
  OwnData
  FieldsAsMapped
CHECK_DEADLOCK FALSE

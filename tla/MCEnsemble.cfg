SPECIFICATION Spec
CONSTANTS
  n1 = n1
  t = t
  z = z
  other = other
  NaN = NaN
  PosInf = PosInf
  NegInf = NegInf
  Nodes = {n1}
  cold = cold
  calm = calm
  Vars = {t, z}
  Levels = {850, 500}
  AllLevels = AllLevels
  Labels = {cold, calm}
  Static = z
  Graph <- MCGraph
  Initial <- MCInitial
  Noise <- MCNoise
  Requests <- MCRequests
  MaxMembers = 4
  Scale = 12
INVARIANTS
  TypeOK
  GraphInputFinite
  MomentsExact
  NoNoiseNoSpread
  EveryRuleReported
CHECK_DEADLOCK FALSE

SPECIFICATION Spec
CONSTANTS
  p1 = p1
  p2 = p2
  w1 = w1
  w2 = w2
  good = good
  bad = bad
  Missing = Missing
  Torn = Torn
  None = None
  KeyPath = KeyPath
  Procs = {p1, p2}
  Commands <- MCCommands
  Credentials = {good, bad}
  Exported = {bad, None}
  Good = good
  MaxInvocations = 2
PROPERTY SessionOnly
CHECK_DEADLOCK FALSE

SPECIFICATION FairSpec
CONSTANTS
  Pages     = {p1, p2}
  Impatient = {p1}
  Snapshots = {v1, v2}
  Loops     = {1, 2}
  Buffer    = 1
  None      = None
  p1 = p1
  p2 = p2
  v1 = v1
  v2 = v2
INVARIANTS
  TypeOK
  OneLoopServes
  InStep
PROPERTIES
  PagesCatchUp
CHECK_DEADLOCK FALSE

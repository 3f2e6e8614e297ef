SPECIFICATION Spec
CONSTANTS
  MaxBuilds   = 1
  Projects    = {p1}
  Configs     <- LocalOrMac
  Agents      = {}
  Serves      <- ServesMac
  Handlers    = {h1, h2}
  Capacity    = 1
  MaxRequeues = 1
  Faults      = FALSE
  None        = None
  p1 = p1
  a1 = a1
  a2 = a2
  h1 = h1
  h2 = h2
INVARIANTS
  NoBuildStranded
CHECK_DEADLOCK FALSE

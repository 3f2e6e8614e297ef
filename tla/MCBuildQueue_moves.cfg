SPECIFICATION FairSpec
CONSTANTS
  MaxBuilds   = 1
  Projects    = {p1}
  Configs     <- LocalOrUnity
  Agents      = {a1, a2}
  Serves      <- ServesMixed
  Handlers    = {h1}
  Capacity    = 1
  MaxRequeues = 1
  Faults      = TRUE
  None        = None
  p1 = p1
  a1 = a1
  a2 = a2
  h1 = h1
  h2 = h2
INVARIANTS
  TypeOK
  RunnerKeepsItsBuild
PROPERTIES
  ImplementsLifecycle
  RunningBuildsEnd
CHECK_DEADLOCK FALSE

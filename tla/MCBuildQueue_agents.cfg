SPECIFICATION Spec
CONSTANTS
  MaxBuilds   = 2
  Projects    = {p1}
  Configs     <- RemoteOnly
  Agents      = {a1, a2}
  Serves      <- ServesMixed
  Handlers    = {h1}
  Capacity    = 1
  MaxRequeues = 1
  Faults      = FALSE
  None        = None
  p1 = p1
  a1 = a1
  a2 = a2
  h1 = h1
  h2 = h2
INVARIANTS
  OneWorkerPerBuild
  CancelLandsInService
PROPERTIES
  OutcomeIsFinal
  AgentBuildsStay
  HeartbeatWins
CHECK_DEADLOCK FALSE

SPECIFICATION FairSpec
CONSTANTS
  Polls    = {p1, p2}
  TTL      = 2
  Hold     = 1
  MaxPause = 1
  p1 = p1
  p2 = p2
INVARIANTS
  TypeOK
  NoWorkUnderPause
  OfflineMeansSilent
PROPERTIES
  SilentGoesOffline

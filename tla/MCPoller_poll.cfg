SPECIFICATION FairSpec
CONSTANTS
  Branches   = {main, dev}
  MaxCommits = 2
  MaxOthers  = 1
  main = main
  dev = dev
INVARIANTS
  TypeOK
  BaselineIsCovered
  PolledOnce
  PolledBuildsWait
PROPERTIES
  TipGetsBuilt

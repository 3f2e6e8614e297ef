SPECIFICATION Spec
CONSTANTS
  Branches   = {main, dev}
  MaxCommits = 2
  MaxOthers  = 0
  main = main
  dev = dev
INVARIANTS
  EditReseeds

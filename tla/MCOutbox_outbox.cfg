SPECIFICATION FairSpec
CONSTANTS
  build = build
  None = None
  Builds = {build}
  MaxRevisions = 1
  MaxSecrets = 2
  Limit = 1
INVARIANTS TypeOK PendingIsAllowed SameMessage OutboxIsBounded
PROPERTIES CanceledStays ReceiptEndsSending NothingWaitsForever

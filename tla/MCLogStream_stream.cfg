SPECIFICATION FairSpec
CONSTANTS
  Readers     = {r1}
  Retained    = 2
  Room        = 1
  MaxBytes    = 2
  MaxRequests = 1
  MaxRequeues = 1
  r1 = r1
INVARIANTS
  TypeOK
  BusMirrorsTheLog
  ReaderSeesTheLog
  NothingAfterTheEnd
  UploadsStoredOnce
PROPERTIES
  LogIsFrozen
  AnnouncedEnds

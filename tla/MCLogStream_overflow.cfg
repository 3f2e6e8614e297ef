SPECIFICATION FairSpec
CONSTANTS
  Readers     = {r1}
  Retained    = 2
  Room        = 1
  MaxBytes    = 1
  MaxRequests = 1
  MaxRequeues = 1
  r1 = r1
PROPERTIES
  StreamsEnd

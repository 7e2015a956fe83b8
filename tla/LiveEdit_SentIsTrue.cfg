SPECIFICATION MCSpec
CONSTANTS
  NParams = 2
  Value = {0, 1}
  NoSound = NoSound
  Sounds <- MCSounds
  Stored <- None
  MaxAttempts = 2
  BulkLimit = 1
  Reads = {}
  MaxActs = 3
  MaxFailures = 0
INVARIANTS SentIsTrue
CHECK_DEADLOCK FALSE

SPECIFICATION MCFairSpec
CONSTANTS
  NParams = 2
  Value = {0, 1}
  NoSound = NoSound
  Sounds <- MCSounds
  Stored <- MCStored
  MaxAttempts = 2
  BulkLimit = 1
  Reads = {"fetch", "verify"}
  MaxActs = 4
  MaxFailures = 1
INVARIANTS TypeOK ClaimIsTrue NoMixture
PROPERTIES QueueDrains
CHECK_DEADLOCK FALSE

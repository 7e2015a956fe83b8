SPECIFICATION MCFairSpec
CONSTANTS
  Cell = {1, 2}
  Value = {0, 1}
  Blocks <- MCBlocks
  First = 3
  Inter = 2
  Ceiling = 3
  Retries = 1
  Window = 2
  MaxDrain = 1
  Capacity = 2
  Latency = 2
  Gap = 1
  Delay = 1
  EchoDelay = 1
  MaxActs = 3
INVARIANTS TypeOK AnswerIsHeld Bounded
PROPERTIES AskedOnQuietLine RequestsEnd
CHECK_DEADLOCK FALSE

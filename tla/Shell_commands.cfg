SPECIFICATION FairSpec
CONSTANTS
  Caller = {c1, c2, c3}
  None = None
  Slots = 2
  MaxCommands = 4
INVARIANTS TypeOK CancelReaches OnlyWhenAsked NoPortLostOrLeaked
PROPERTIES FlightSpec CommandsEnd
CHECK_DEADLOCK FALSE

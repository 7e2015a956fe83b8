SPECIFICATION WireSpec
CONSTANTS
  MAX_FRAME_LEN = 13
  MAX_DT1_DATA_TO_DEVICE = 2
  Players <- MCPlayers
  Realtime = {254}
  Cuts = {6, 11}
  Channels = {0, 1}
  MAX_CONTROLS = 2
  MAX_EVENTS = 2
  MaxMessages = 3
INVARIANTS ReadAsSent ReadersAgree ControlsAreRight
CHECK_DEADLOCK FALSE

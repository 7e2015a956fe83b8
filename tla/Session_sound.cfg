SPECIFICATION Spec
CONSTANTS
  MAX_FRAME_LEN = 20
  MAX_DT1_DATA_TO_DEVICE = 2
  MAP <- MCMap
  Opened <- MCOpened
  Second <- MCSecond
  NAMES <- MCNAMES
  BULK_LIVE_LIMIT = 2
  CHUNK = 1
  HISTORY_LIMIT = 1
  Foreign <- MCForeign
  Bad = {6, 247, 248}
  MaxSteps = 2
CONSTRAINT FilesApart
INVARIANTS InstrumentFollows UndoReturns HonestReading SameThroughMidi

SPECIFICATION MCSpec
CONSTANTS
  s1 = s1
  s2 = s2
  n1 = n1
  n2 = n2
  a = a
  b = b
  t1 = t1
  Sounds = {s1, s2}
  PatchNames = {n1, n2}
  Bases = {a, b}
  Tags = {}
  Damaged = Damaged
  BULK_SLOTS = 2
  MAX_REVISIONS = 2
  THROTTLE = 1
  Banks = {}
  Typed = {}
  MaxClock = 0
  MaxActs = 1
  MaxMoves = 4
  MaxPatch = 3
  MaxBulk = 1
  Folders = {F}
  Default = "default"
  F = F
  BackupNames = {"x", "y"}
  Old = "old"
  New = "new"
PROPERTIES PointedIsWhole
CHECK_DEADLOCK FALSE

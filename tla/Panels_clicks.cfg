SPECIFICATION Spec
CONSTANTS
  s1 = s1
  s2 = s2
  a = a
  b = b
  x = x
  Kinds = {"user", "bank"}
  Slots <- TheSlots
  SystemArea = sys
  Sound <- TheSounds
  Occupants <- Before
  Jobs <- TheJobs
  MaxCalls = 2
SYMMETRY Alike
CONSTRAINT InStep
INVARIANTS NotLeftArmed WritesWhatWasSaid

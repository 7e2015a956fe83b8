SPECIFICATION FairSpec
CONSTANTS
  v0 = v0
  v1 = v1
  s1 = s1
  s2 = s2
  sys = sys
  Slots = {s1, s2}
  SystemArea = sys
  NoArea = NoArea
  NBlocks = 2
  Value = {v0, v1}
  Patches <- MCPatches
  PanelPatches <- MCPanel
  Lifetime = 0
  BankLifetime = 1
  Offered = {"user", "system", "bank"}
  MaxFiles = 3
INVARIANTS TypeOK OverwrittenIsBackedUp UndoOverwritesOnlyItsSave OnePending
PROPERTIES VerifiedIsHeld CommandsEnd OneSlotAtATime OnlyConfirmedIsWritten
ACTION_CONSTRAINT Apart

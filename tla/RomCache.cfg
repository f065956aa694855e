SPECIFICATION Spec
CONSTANTS
  r1 = r1
  r2 = r2
  r3 = r3
  Rom = {r1, r2, r3}
  Part = {1, 2}
  MaxVersion = 1
  Synced = {r1}
  CanStick = {r2}
  Size <- MCSize
  MaxCount = 2
  MaxSize = 3
  AgeLimit = FALSE
  NoRom = NoRom
INVARIANTS RunsOneVersion LimitsKept
PROPERTIES EvictionSparesTheGame NobodyWaitsForEver
CHECK_DEADLOCK FALSE

SPECIFICATION Spec
CONSTANTS
  Player = {"ann", "ben"}
  Disc = {"d1", "d2"}
  Extras <- ExtrasDef
  Dates = {2, 10}
  MaxSessions = 2
  MaxFaults = 1
  Grain = 2
  MaxFiles = 20
  SaveSlack = 2
  BaseSlack = 2
  Backdate = 4
INVARIANTS RestoreHonest ProgressKept SessionSound
PROPERTIES ShipsTheSession

SPECIFICATION Spec
CONSTANTS
  Kind = {"dolphin", "ppsspp", "pcsx2", "scummvm", "rpcs3"}
  Game = {"g1", "g2"}
  Rom <- RomDef
  MaxLaunches = 2
  MaxRequests = 2
  MaxWrites = 2
INVARIANTS AnswersHonest ResumesRightly
PROPERTIES BootFailureNoticed
CHECK_DEADLOCK FALSE

SPECIFICATION ExtractionSpec
CONSTANTS
  a1 = a1
  a2 = a2
  a3 = a3
  Archive = {a1, a2, a3}
  Files <- MCFiles
  Boot = "boot"
  Pkg <- MCPkg
  LargestPkg = 2
  Cap = 3
  Kinds = {"shared", "shadps4"}
  Absent = Absent
INVARIANTS CacheSound
PROPERTIES ExtractionEnds
CHECK_DEADLOCK FALSE

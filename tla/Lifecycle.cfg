SPECIFICATION FairSpec
CONSTANTS
    MaxSessions = 2
    MaxSaves = 1
    MaxStates = 2
    MaxFaults = 2
    Launchers = {"direct", "staged"}
    Fault <- MCFault
INVARIANT NoSilentLoss
INVARIANT ShipsItsOwn
INVARIANT ServesTheExitState
INVARIANT EmulatorsAccountedFor
CHECK_DEADLOCK FALSE
PROPERTY SeenThrough

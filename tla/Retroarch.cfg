SPECIFICATION Spec
CONSTANTS
  Discs = 2
  Requests = {"save", "load", "menu", "swap", "push", "get", "exit"}
  TaintRetries = 1
  TracksAtime = TRUE
  SlowEcho = FALSE
  MaxWrites = 4
  MaxRequests = 2
  MaxAttempts = 2
  MaxHands = 1
INVARIANTS AnswersHonest ResumeLoadsWhatItFound SwapsSound MenuAsFound
PROPERTIES TrayComesFree
\* The requests run out, and the core quits.
CHECK_DEADLOCK FALSE

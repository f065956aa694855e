SPECIFICATION FairSpec
CONSTANTS
  Sender = {}
  Numbers = 2
  Configs = 1
  NoItem = NoItem
  NoMessage = NoMessage
  Message = {m1, m2}
  MaxJson = 3
  MaxMedia = 2
CHECK_DEADLOCK FALSE
INVARIANTS IdleMeansFlushed
PROPERTIES ImplementsJsonChannel AbandonedLeaves

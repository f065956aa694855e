SPECIFICATION FairSpec
CONSTANTS
  Sender = {s1}
  Numbers = 3
  Configs = 1
  NoItem = NoItem
  NoMessage = NoMessage
  Message = {}
  MaxJson = 1
  MaxMedia = 2
CHECK_DEADLOCK FALSE
INVARIANTS Decodable BacklogBounded
PROPERTIES VideoThaws

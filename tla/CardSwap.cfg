SPECIFICATION FairSpec
CONSTANTS
  i1 = i1 i2 = i2 r1 = r1 r2 = r2 r3 = r3
  Image <- Images
  Request = {r1, r2}
  Fault <- DiskFaults
  NoCard = NoCard Blank = Blank Partial = Partial
INVARIANTS CardWhole NoSaveLost
PROPERTIES AnswersAreTrue ImplementsCardRegister LockComesFree
\* Every PUT may have been answered and every image written.
CHECK_DEADLOCK FALSE

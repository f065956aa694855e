SPECIFICATION Spec
CONSTANTS
  t1 = t1 t2 = t2 t3 = t3 t4 = t4
  c1 = c1 c2 = c2 c3 = c3
  Token = {t1, t2}
  Conn = {c1, c2}
  Pad <- Pad1
  User <- Guests
  Nickname <- NoNicknames
  Input <- PadFrames
  MaxRoomViewers = 1
  Attempts = 1
  SelkiesRefuses = FALSE
  NoToken = NoToken NoConn = NoConn NoPad = NoPad
  NoId = NoId NoName = NoName Api = Api
SYMMETRY Symmetry
INVARIANT SelkiesInSync
\* Tokens and sockets run out, and then the instance stops.
CHECK_DEADLOCK FALSE

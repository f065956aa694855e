SPECIFICATION FairSpec
CONSTANTS
  t1 = t1 t2 = t2 t3 = t3 t4 = t4
  c1 = c1 c2 = c2 c3 = c3
  Token = {t1, t2, t3}
  Conn = {c1}
  Pad <- Pad1
  User <- OneUser
  Nickname <- NoNicknames
  Input <- RoleFrames
  MaxRoomViewers = 1
  Attempts = 2
  SelkiesRefuses = TRUE
  NoToken = NoToken NoConn = NoConn NoPad = NoPad
  NoId = NoId NoName = NoName Api = Api
INVARIANTS SelkiesRoutesSoundly
PROPERTIES NothingStays
\* Tokens and sockets run out, and then the instance stops.
CHECK_DEADLOCK FALSE

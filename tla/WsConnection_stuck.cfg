SPECIFICATION FairSpec
CONSTANTS
  c1 = c1
  c2 = c2
  c3 = c3
  j1 = j1
  NoConn = NoConn
  Conn <- Conn2
  Job <- Job1
  HeartBeatLimit = 1
  ReconnectAfter = 2
  Fault <- Collide
  Slow <- NoSlow
PROPERTIES WillTryReconnecting

SPECIFICATION BothSpec
CONSTANTS
  c1 = c1
  c2 = c2
  c3 = c3
  j1 = j1
  NoConn = NoConn
  Conn <- Conn2
  Job <- Job1
  HeartBeatLimit = 2
  ReconnectAfter = 3
  Fault <- AllFaults
  Slow <- SlowCalls
INVARIANTS CallbacksFindManager OneFeedIfFast FeedIsWatchedIfFast
PROPERTIES
  NoDialAfterUnsubscribe
  WaitingEnds
  SilenceIsNoticed
  UnsubscribeStopsIfPrompt
  NeverGivesUpIfPrompt
  KeepsPromise

CONSTANTS
  Byte <- MCByte
  QueueCap = 1
  MaxFrames = 1
  Key = {"tab", "backtab", "ctrl_]", "ctrl_d", "q", "f1"}
  KeyCap = 2
  MaxKeys = 4
SPECIFICATION FairSpec
CHECK_DEADLOCK FALSE
INVARIANTS
  TypeOK
  KeysInOrder
  QuitDelivers
  WireIsPrefix
  NothingAfterStop
  RawShowsFrames
PROPERTIES
  WatchQueuesNothing
  QuitEnds

CONSTANTS
  Byte <- MCByte
  QueueCap = 1
  MaxFrames = 0
  Key = {"q"}
  KeyCap = 1
  MaxKeys = 3
SPECIFICATION FairSpec
CHECK_DEADLOCK FALSE
PROPERTIES
  ReaderExitsOnQuit

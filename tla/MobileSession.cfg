CONSTANTS
  Byte = {1, 2}
  QueueCap = 1
  MaxFrames = 1
  Capacity = 1
  MaxSessions = 2
  MaxEdits = 3
  MaxTexts = 2
SPECIFICATION FairSpec
CHECK_DEADLOCK FALSE
INVARIANTS
  ShownIsCurrent
  NoChangeMissed
PROPERTIES
  AppCatchesUp

CONSTANTS
  r1 = r1
  r2 = r2
  Feeder = Feeder
  NoOne = NoOne
  Reader <- MCOneReader
  Capacity = 2
  MaxFrames = 1
  MaxEdits = 2
SPECIFICATION FairSpec
CHECK_DEADLOCK FALSE
PROPERTIES
  ScreenShown

CONSTANTS
  r1 = r1
  r2 = r2
  Feeder = Feeder
  NoOne = NoOne
  Reader <- MCReader
  Capacity = 1
  MaxFrames = 2
  MaxEdits = 3
SPECIFICATION FairSpec
CHECK_DEADLOCK FALSE
INVARIANTS
  TypeOK
  NoEventSlips
  NoLostWakeup
PROPERTIES
  DrawnMonotone
  ImplementsDocument

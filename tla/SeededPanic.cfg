CONSTANTS
  chunk = chunk
  Text <- MCText
  Option <- MCOption
  Kinds <- MCOneKind
  MaxEvents = 5
SPECIFICATION Spec
CHECK_DEADLOCK FALSE
INVARIANTS
  ReplayNeverPanics

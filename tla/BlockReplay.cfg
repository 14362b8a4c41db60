CONSTANTS
  chunk = chunk
  Text <- MCText
  Option <- MCOption
  Kinds <- MCKinds
  MaxEvents = 5
SPECIFICATION Spec
CHECK_DEADLOCK FALSE
INVARIANTS
  TypeOK
  IndexConsistent
  FreshViewMirrors
  IdsNeverReused
  RevisionsGapless
  SeededTailExact

CONSTANTS
  Text <- MCText
  Option <- MCOption
  FloorMax = 6
  JsonMax = 5
  ContentMax = 3
SPECIFICATION Spec
CHECK_DEADLOCK FALSE
INVARIANTS
  CurrentIsOpen
  NothingLost
  LinesRouted
  ProseInOneBlock
  TextBlockIsOpen
  InOrder
  ItemsShown
PROPERTIES
  ImplementsChat

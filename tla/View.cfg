CONSTANTS
  FirstScreens <- MCFirstScreens
  Screens <- MCScreens
  Heights = {4, 8}
  MaxLines = 7
  U16 = 7
SPECIFICATION Spec
CHECK_DEADLOCK FALSE
INVARIANTS
  FollowShowsNewest
  MenuExact
  PickReachesOption
PROPERTIES
  KeepsPlace

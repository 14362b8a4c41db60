CONSTANTS
  Key = {"ctrl_]", "ctrl_d", "tab", "d", "x"}
  MaxBytes = 5
  MaxOutput = 5
SPECIFICATION MCSpec
CHECK_DEADLOCK FALSE
INVARIANTS
  Verbatim
  LinesExact

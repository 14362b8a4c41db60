CONSTANTS
  Process = {p1, p2}
  Issuer = "ita"
  Now = 1000
  Command = {"keygen", "replay", "shell"}
  Args <- MCArgs
  MaxRuns = 3
  MaxAgents = 2
  MaxRecords = 2
SPECIFICATION Spec
SYMMETRY Symmetry
CHECK_DEADLOCK FALSE
INVARIANTS
  KeyFileWhole
  OneDeviceKey
  RequestsReachAttested
  ReplayExact

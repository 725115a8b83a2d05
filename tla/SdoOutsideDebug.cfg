SPECIFICATION RSpec
CONSTANTS
  MaxSlaves = 1
  Args <- MCArgs
  Tolerance = 1
  RefreshInterval = 1
  Threads = {c1}
  Requests <- MCRequests
  RawCommands <- ConsoleCommands
  ArgBase = 4
INVARIANT TransfersOnlyInDebug

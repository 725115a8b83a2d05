SPECIFICATION Spec
CONSTANTS
  MaxSlaves = 1
  Args = {}
  Tolerance = 1
  RefreshInterval = 1
PROPERTY DebugExitKeepsConfigurable

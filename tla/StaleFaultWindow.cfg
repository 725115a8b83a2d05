SPECIFICATION RunAgeSpec
CONSTANTS
  MaxSlaves = 1
  Args = {}
  Tolerance = 2
  RefreshInterval = 1
PROPERTY WindowWithinRun

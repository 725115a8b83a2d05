SPECIFICATION HFairSpec
CONSTANTS
  MaxSlaves = 1
  Args = {}
  Tolerance = 2
  RefreshInterval = 1
PROPERTIES
  NoGoodCycleInWindow
  ScanEnds
  ResetHonoured
  BrokenBusIsNoticed
  FaultKeepsLooking

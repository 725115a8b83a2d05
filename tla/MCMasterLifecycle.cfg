SPECIFICATION Spec
CONSTANTS
  MaxSlaves = 2
  Args = {0}
  Tolerance = 2
  RefreshInterval = 1
INVARIANTS
  TypeOK
  TableMatchesBackend
  ImageInsideContext
  CycleIsBacked
  ReadyIsPrepared
  DebugSeesIdleBus
  NoOutOfOrderCall
PROPERTIES
  FaultLeftOnlyByReset
  FaultKeepsEvidence
  ResetReleases
  ImplementsAbs
  ImplementsData

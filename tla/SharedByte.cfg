SPECIFICATION Spec
CONSTANTS
  SlaveCount = 2
  BitLengths = {4}
  AreaBits = {4}
  Descriptions <- MCSmallOutput
  Mappings <- MCMappings
INVARIANTS
  PointersLocateData

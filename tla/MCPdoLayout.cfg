SPECIFICATION Spec
CONSTANTS
  SlaveCount = 2
  BitLengths = {0, 4, 8}
  AreaBits = {0, 4, 12}
  Descriptions <- MCDescriptions
  Mappings <- MCMappings
INVARIANTS
  TypeOK
  EntriesInImage
  EntriesApart
  PointersApart
  EntriesAreTheScanned
  AlignedEntriesReachable

SPECIFICATION ConsoleFairSpec
CONSTANTS
  MaxSlaves = 2
  Products = {"servo", "io"}
  EntryCount <- MCEntryCount
  Indices = {0, 1}
  RobotConfigs <- MCRobots
  MaxJoints = 2
INVARIANTS
  ConsoleTypeOK
  LayoutMatchesTable
  ListingIsTheTable
  JointsAreBound
  ReadyReadIsSafe
  DestroyIsLast
PROPERTIES
  LayoutOutlivesDeactivate
  CommandsReturn
CHECK_DEADLOCK FALSE

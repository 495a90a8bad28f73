SPECIFICATION FairSpec
CONSTANTS
  led = led
  background = background
  Gens <- MCGens
  NoGen = NoGen
  Kind <- MCKind
  Periods <- MCPeriods
  DefaultPeriod = 1
  MaxDraw = 2
  Windows <- MCWindows
  WallTimes <- MCWallTimes
  MaxEvents = 2
  MaxRuns = 2
INVARIANTS
  TypeOK
  NothingDueLeft
  VerticesInOrder
PROPERTIES
  KeepsTheSchedule
  UTCNeverGoesBack
  EventsAreFilled
CHECK_DEADLOCK FALSE

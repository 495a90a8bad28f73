SPECIFICATION FairBuilderSpec
CONSTANTS
  ta = ta
  tb = tb
  tc = tc
  tw = tw
  Tables <- MCTables
  Rank <- MCRank
  Geometries <- MCGeometries
  NoField = NoField
  Outside = Outside
  NoWorld = NoWorld
INVARIANTS
  BuilderTypes
  BuiltWhole
  GivesUpWithReason
PROPERTY ComesToAnEnd
CHECK_DEADLOCK FALSE

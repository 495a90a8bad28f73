SPECIFICATION Spec
CONSTANTS
  on = on
  off = off
  PMTs <- MCPMTs
  Online <- MCOnline
  NoPMT = NoPMT
  Times <- MCTimes
  Processes <- MCLight
  Named <- MCNamed
  MaxPEs <- MCMaxPEs
  ZeroStepLimit = 2
  MaxStepNumber = 2
  MaxTracks = 3
  MaxHits = 2
  MaxEvents = 2
  MaxCommands = 2
INVARIANTS
  TypeOK
  SummaryAddsUp
  HitsOfKeptEvents
  TracksAsRequested
  ZeroStepsAreItsOwn
CHECK_DEADLOCK FALSE

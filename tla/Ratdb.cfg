SPECIFICATION Spec
CONSTANTS
  Ids = {"daq"}
  Fields = {"f", "g"}
  Values = {1, 2}
  Absent = Absent
  Garbage = Garbage
  NoTable = NoTable
  Runs = {1, 2}
  Files <- MCFiles
  Experiment <- MCExperiment
  Servers = {"first", "second"}
  NoServer = "none"
  Contents <- MCContents
  MaxCommands = 6
INVARIANTS
  SetWins
  DumpIsEffective
PROPERTY
  ReadsAreStable
CHECK_DEADLOCK FALSE

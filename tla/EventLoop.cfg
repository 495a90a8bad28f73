SPECIFICATION Spec
CONSTANTS
  r1 = r1
  r2 = r2
  good = good
  brief = brief
  old = old
  NoRun = NoRun
  NullRun = NullRun
  NoTree = NoTree
  plain = plain
  needsRun = needsRun
  outroot = outroot
  outroot2 = outroot2
  Runs = {r1, r2}
  Procs = {plain, needsRun, outroot}
  Outs = {outroot}
  CurrentRunUsers = {needsRun}
  InFiles = {good, brief, old}
  Content <- MCContent
  Outcomes <- MCOutcomes
  Existing = {outroot}
  MaxBeam = 2
  MaxJobs = 2
  MaxFiles = 2
INVARIANTS
  TypeOK
  EventInRun
  BlockRunsItsList
  RunsWrittenOnce
  StatusTruthful
PROPERTIES
  InterruptHeeded
  ProcessorsSeeTheContract
CHECK_DEADLOCK FALSE

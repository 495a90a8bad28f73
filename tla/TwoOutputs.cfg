SPECIFICATION Spec
CONSTANTS
  r1 = r1
  r2 = r2
  good = good
  brief = brief
  old = old
  NoRun = NoRun
  NullRun = NullRun
  NoTree = NoTree
  plain = plain
  needsRun = needsRun
  outroot = outroot
  outroot2 = outroot2
  Runs = {r1, r2}
  Procs = {outroot, outroot2}
  Outs = {outroot, outroot2}
  CurrentRunUsers = {}
  InFiles = {good, old}
  Content <- MCContent
  Outcomes <- MCOutcomes
  Existing = {}
  MaxBeam = 2
  MaxJobs = 2
  MaxFiles = 2
INVARIANT
  SavedEventsHaveTheirRun
CHECK_DEADLOCK FALSE

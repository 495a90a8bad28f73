SPECIFICATION Spec
CONSTANTS
  c1 = c1
  c2 = c2
  s1 = s1
  s2 = s2
  Clients = {c1, c2}
  Servers = {s1, s2}
  HostLists <- MCHostLists
  MaxSettings = 1
  MaxSockets = 5
  MaxFaults = 1
  LongVersion = TRUE
  MaxRetries = 1
  MaxEvents = 2
INVARIANTS
  AnswersAreOwn
CHECK_DEADLOCK FALSE

SPECIFICATION Spec
CONSTANTS
  c1 = c1
  c2 = c2
  s1 = s1
  s2 = s2
  Clients = {c1}
  Servers = {s1, s2}
  HostLists <- MCHostLists
  MaxSettings = 2
  MaxSockets = 8
  MaxFaults = 2
  LongVersion = FALSE
  MaxRetries = 1
  MaxEvents = 1
INVARIANTS
  EventsAreProcessed
  GhostsOnlyFromSettings
PROPERTY
  ClientsAreServed
CHECK_DEADLOCK FALSE

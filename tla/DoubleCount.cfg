SPECIFICATION Spec
CONSTANTS
  PMTs = {0, 1}
  Jitter = {0, 4}
  Lookback = 1
  Lookforward = 2
  MaxTime = 5
  NearHits = {TRUE}
  MaxDark = 1
  DarkTimes <- MCDarkTimes
  TriggerWindow = 2
  Delays = {2, 9}
  DAQs <- MCDAQs
  Thresholds = {2}
  Chains <- MCQuietChains
  Simulated <- MCSimulated
  FirstTime = 10
  Gaps = {6}
  MaxEvents = 1
  MaxRereads = 1
INVARIANT
  NoDoubleCount
CHECK_DEADLOCK FALSE

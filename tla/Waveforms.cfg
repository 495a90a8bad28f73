SPECIFICATION Spec
CONSTANTS
  PMTs = {0, 1}
  Online = {0, 1}
  Cable <- MCCable
  NSamples = 6
  MaxADC = 3
  Baseline = 3
  Early = 1
  Late = 1
  Pulses <- MCPulses
  Noise <- MCNoise
  Prep <- MCPrep
  EVLookback = 1
  TriggerWindow = 4
  TriggerTimes <- MCTriggerTimes
  MinTotal = 0
  MaxTotal = 18
  MinDistance = 36
  ChargeThreshold = 4
  EstimateNPE <- MCEstimateNPE
  Packets <- MCPackets
  Simulated <- MCSimulated
  Recorded <- MCRecorded
  MaxSteps = 3
INVARIANTS
  EVsHaveTheirSamples
  HitTimeIsTheRise
  ChargesAddUp
  HitTimeIsAPhotons
  PacketsAreAccounted
CHECK_DEADLOCK FALSE

CONSTANTS
  m1 = m1
  m2 = m2
  m3 = m3
  Models <- ThreeModels
  Primary = m1
  Fallbacks <- TwoFallbacks
  MaxStep = 2
  MaxAttempts = 2
  MaxCalls = 2
  MaxResults = 1
  Starts <- AllStarts
SPECIFICATION FairSpec
INVARIANTS TypeOK RequestsPaired UserFirst StopHeeded FailureIsTotal
PROPERTY StopEnds
CHECK_DEADLOCK FALSE

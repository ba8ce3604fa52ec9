CONSTANTS
  m1 = m1
  m2 = m2
  m3 = m3
  Models <- ThreeModels
  Primary = m1
  Fallbacks <- TwoFallbacks
  MaxStep = 2
  MaxAttempts = 2
  MaxCalls = 2
  MaxResults = 1
  Starts <- OneTurn
SPECIFICATION Spec
INVARIANT QuestionAsked
CHECK_DEADLOCK FALSE

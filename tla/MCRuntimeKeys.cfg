SPECIFICATION SetupSpec
CONSTANTS
  SetupRequests = {q1}
  SamePath = FALSE
  MaxKeys = 1
  MaxCrashes = 1
  MaxBroken = 0
INVARIANT RuntimeUsesSetupKeys
CHECK_DEADLOCK FALSE

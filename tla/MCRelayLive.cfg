SPECIFICATION FairSpec
CONSTANTS
  Payloads = {t1, t2}
  SendTypes = {}
  Tasks = {}
  Backpressure = FALSE
  MaxFrames = 20
  FaultKinds = {"drop"}
  MaxFaults = 1
  MaxConcurrent = 1
  MissLimit = 1
  MaxBeats = 0
  FaultBeats = 1
  PatientTimers = FALSE
PROPERTIES
  RequestEnds
  CloseCompletes
  ProviderFollows
CHECK_DEADLOCK FALSE

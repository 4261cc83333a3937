SPECIFICATION Spec
CONSTANTS
  Payloads = {t1, t2, t3}
  SendTypes = {}
  Tasks = {}
  Backpressure = FALSE
  MaxFrames = 20
  FaultKinds = {"break"}
  MaxFaults = 1
  MaxConcurrent = 2
  MissLimit = 2
  MaxBeats = 0
  FaultBeats = 0
  PatientTimers = FALSE
INVARIANTS
  SlotsAccounted
  ResultsGenuine
CHECK_DEADLOCK FALSE

SPECIFICATION Spec
CONSTANTS
  Payloads = {t1, t2}
  SendTypes = {}
  Tasks = {}
  Backpressure = FALSE
  MaxFrames = 20
  FaultKinds = {"drop", "insert", "break"}
  MaxFaults = 0
  MaxConcurrent = 2
  MissLimit = 2
  MaxBeats = 0
  FaultBeats = 0
  PatientTimers = TRUE
PROPERTIES
  RequestWaitsForAnswer
CHECK_DEADLOCK FALSE

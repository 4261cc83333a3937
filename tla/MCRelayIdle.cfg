SPECIFICATION Spec
CONSTANTS
  Payloads = {t1}
  SendTypes = {}
  Tasks = {}
  Backpressure = FALSE
  MaxFrames = 20
  FaultKinds = {"drop", "insert", "break"}
  MaxFaults = 0
  MaxConcurrent = 1
  MissLimit = 3
  MaxBeats = 4
  FaultBeats = 0
  PatientTimers = TRUE
PROPERTIES
  MissedMeansUnanswered
CHECK_DEADLOCK FALSE

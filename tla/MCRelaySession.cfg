SPECIFICATION Spec
CONSTANTS
  Payloads = {t1}
  SendTypes = {}
  Tasks = {}
  Backpressure = FALSE
  MaxFrames = 20
  FaultKinds = {"drop", "insert", "break"}
  MaxFaults = 1
  MaxConcurrent = 1
  MissLimit = 1
  MaxBeats = 1
  FaultBeats = 0
  PatientTimers = FALSE
INVARIANTS
  ClosesOnce
PROPERTIES
  ClosedIsFinal ImplementsStream ImplementsCalls
CHECK_DEADLOCK FALSE

SPECIFICATION ChannelSpec
CONSTANTS
  Payloads = {t1}
  SendTypes = {"REQUEST", "HEARTBEAT"}
  Tasks = {k1, k2}
  Backpressure = TRUE
  MaxFrames = 2
  FaultKinds = {"drop", "insert", "break"}
  MaxFaults = 0
INVARIANT
  SequencesFresh
CHECK_DEADLOCK FALSE

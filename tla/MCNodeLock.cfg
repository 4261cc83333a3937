SPECIFICATION Spec
CONSTANTS
  Requests = {r1, r2, r3}
  Operations = {"lock_node", "consumer_start", "provider_start"}
  Sealed = FALSE
  None = None
INVARIANT LockedMeansStopped
CHECK_DEADLOCK FALSE

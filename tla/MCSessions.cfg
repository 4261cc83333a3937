SPECIFICATION MCSpec
CONSTANTS
  Offers = {e1, e2}
  Sessions = {s1, s2}
  None = None
  Overlap = FALSE
  HealthMayRaise = TRUE
  FailureLimit = 3
  ConsumerIds = {q1, q2}
  Closers = {k1, k2, k3}
  KeepaliveMayFail = FALSE
  NoSession = NoSession
  TrustKeys = {o1}
  TrustOffers = {o1}
  TrustCallers = {c1, c2}
  TrustSenders = {t1, t2}
  MaxDelay = 2
  MaxQueued = 1
  NoCaller = NoCaller
  Initiators = {b1, b2}
  Responders = {p1}
  HsCalls <- TwoSessions
  MaxClock = 2
  NoPeer = NoPeer
INVARIANTS
  LinksSafe CloseSafe TrustSafe WaitersCurrent KeysPaired HandshakeSafe
PROPERTIES
  StopReachesAll ClosedSessionsLeave TasksEnd ImplementsAgreement
CHECK_DEADLOCK FALSE

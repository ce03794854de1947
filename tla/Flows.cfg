CONSTANTS
  Requests = {r1, r2, r3}
  t1 = t1 t2 = t2 c1 = c1 c2 = c2 m1 = m1 m2 = m2 h1 = h1 h2 = h2
  Tenants = {t1, t2}
  Clients = {c1, c2}
  Methods = {m1, m2}
  Hosts = {h1, h2}
  HostOf <- OwnHosts
  Registered <- MCRegistered
  Configured <- MCConfigured
  Unsolicited <- MCUnsolicited
  FlowTtl = 1
  MaxTime = 1
  None = None
SPECIFICATION Spec
INVARIANTS OneCodePerFlow FlowsAreSpentOnce CodesAreVouchedFor SavedStateIsFound
PROPERTIES FinishedFlowsStayFinished ImplementsOneShot
CHECK_DEADLOCK FALSE

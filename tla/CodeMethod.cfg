CONSTANTS
  Requests = {r1, r2, r3, r4}
  t1 = t1 c1 = c1 m1 = m1 h1 = h1
  Tenants = {t1}
  Clients = {c1}
  Methods = {m1}
  Hosts = {h1}
  HostOf <- OneHost
  Registered <- OneClient
  Configured <- OneMethod
  Unsolicited = {}
  Destinations = {d1, d2}
  Digits = {k1, k2}
  MaxAttempts = 1
  FlowTtl = 1
  MaxTime = 1
  None = None
SPECIFICATION CodeSpec
INVARIANTS LoginsHeldTheCode DenialsAreEarned FailuresAreCounted
SYMMETRY RequestSymmetry
CHECK_DEADLOCK FALSE

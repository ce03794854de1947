SPECIFICATION Spec
CONSTANTS
  Nothing = Nothing
  ParTenants = {"a","b"}
  ParClients = {"c"}
  ManyMethods = {"b"}
  Registrations = {"public","pushes"}
  Confidential = {"pushes"}
  MustPush = {"pushes"}
  RequestUris = {"u1"}
  AuthorizeRequests = {r1,r2}
  ParTtl = 1
  MaxParTime = 1
  MaxChanges = 1
INVARIANTS LinksKeepTheRequest
CHECK_DEADLOCK FALSE

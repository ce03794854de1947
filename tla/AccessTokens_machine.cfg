SPECIFICATION Spec
CONSTANTS
  AccessTenants = {"a", "b"}
  AccessClients = {"api"}
  Claims = {"subject"}
  AccessScopes = {"openid"}
  Audiences = {"resource"}
  AccessTtl = 1
  MaxAccessTime = 2
  MaxIssued = 3
  FirstEnrolments <- MCFirstEnrolments
  Changes <- MCChanges
  MaxEnrolments = 0
  Absent = Absent
INVARIANTS IdTokensNameALogin
CHECK_DEADLOCK FALSE

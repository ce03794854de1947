SPECIFICATION Spec
CONSTANTS
  None = None
  Trio = {p1, p2, p3}
  Duo = {q1, q2}

  patcher = patcher
  racer = racer
  Requests = {patcher, racer}
  Script <- MCScript
  UserIds = {"u1", "u2", "u3"}
  GroupIds = {"g1"}
  InitialUsers <- MCInitialUsers
  InitialGroups <- MCInitialGroups
  Enabled = TRUE
  HasGroups = TRUE
  MaxPageSize = 2
  MaxTries <- MCMaxTries

  Callers = {q1, q2}
  Flows = {"f"}
  Sessions = {"s"}
  Scratches = {"x"}
  Values = {"v", "w"}
  Saved = {"v"}
  Ttls = {1}
  MaxTime = 2
  MaxSaves = 2

  Tokens = {"t"}
  Families = {"f"}
  FamilyOf <- MCFamilyOf
  Calls = {p1, p2, p3}
  RefreshTtl = 2
  ReuseWindow = 1
  MaxSkew = 1
  TokenVerifies = {q1, q2}

  Posts = {q1, q2}
  LoginFlows = {"f1", "f2"}
  Unsolicited = {"i1", "i2"}
  LogoutRequests = {"l1", "l2"}
  AssertionOf <- MCAssertionOf
  SamlConfigs <- MCSamlConfigs
  NoAssertion = None
  Forever = Forever
  Minimum = 1
  Longest = 3
  Default = 2
  RequestTtl = 2
  SloHorizon = 2
  MaxSamlTime = 3

  Nobody = None
  KeyFlows = {"f"}
  KeyUsers = {"u"}
  Credentials = {"c"}
  Devices = {"key", "clone"}
  CredentialOf <- MCCredentialOf
  Counts <- MCCounts
  KeyPosts = {p1, p2, p3}
  MaxOptions = 3
  MaxSignatures = 2

  PasswordPosts = {p1, p2, p3}
  Addresses = {"a"}
  Passwords = {"x", "y"}
  TooShort = {}

  Operations = {p1, p2, p3}
  MaxPairs = 3
  PairTtl = 2
  Early = 1
  ClocksAhead = {0, 1}
  MaxClientTime = 4

  DpopRequests = {p1, p2, p3}
  Proofs = {"p1", "p2", "p3"}
  ProofOf <- MCProofOf
  AccessTokens = {"t1", "t2"}
  BoundTo <- MCBoundTo
  Unbound = None
  PerSecond = 2
  Tolerance = 1
  MaxDpopTime = 9

  Nothing = None
  ParTenants = {"a", "b"}
  ParClients = {"c"}
  ManyMethods = {"b"}
  Registrations = {"public", "pushes"}
  Confidential = {"pushes"}
  MustPush = {"pushes"}
  RequestUris = {"u"}
  AuthorizeRequests = {q1, q2}
  ParTtl = 1
  MaxParTime = 1
  MaxChanges = 1

  AccessTenants = {"a", "b"}
  AccessClients = {"web", "api"}
  Claims = {"subject"}
  AccessScopes = {"openid"}
  Audiences = {"resource"}
  AccessTtl = 1
  MaxAccessTime = 2
  MaxIssued = 3
  Changes <- MCChanges
  MaxEnrolments = 1
  FirstEnrolments <- MCFirstEnrolments
  Absent = None

  LoginRequests = {p1, p2, p3}
  Tenants = {"a"}
  Clients = {"c"}
  Methods = {"m"}
  Hosts = {"h"}
  HostOf <- MCHostOf
  Registered <- MCRegistered
  Configured <- MCConfigured
  Uninvited = {}
  FlowTtl = 1
  MaxLoginTime = 1
  Accounts = {"x", "y"}
SYMMETRY Symmetry
INVARIANTS
  StoresAreMaps
  OneWinner
  ReuseHasAWinner
  RevocationsReachWhatIsThere
  IssuerKnowsItsKeys
  RejectionsNeedARace
  AssertionsAreUsedOnce
  LogoutsAreNotLost
  CountersAreKept
  RegistrantsGetIn
  AnswersFitTheirFlow
  SessionsAreLostForAReason
  ProofsAreUsedOnce
  FlowsKeepToThePush
  TokensKeepTheirLineage
PROPERTIES
  PatchesDoAsTheySay
  GroupPatchesDoAsTheySay
  RetriesRepeatNothing
CHECK_DEADLOCK FALSE

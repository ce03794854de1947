----------------------------- MODULE Components -----------------------------
(***************************************************************************)
(* The components that share no state, side by side: part says which of    *)
(* them a behaviour is of.  They take turns in the slots s1, s2, ..., in   *)
(* which a component keeps its variables under the names they have in its  *)
(* module, or under longer ones where two modules agree on a name.         *)
(***************************************************************************)
EXTENDS Naturals, FiniteSets

CONSTANTS
  None,
  \* Scim
  Requests, Script, UserIds, GroupIds, InitialUsers, InitialGroups, Enabled,
  HasGroups, MaxPageSize, MaxTries,
  \* SessionStores
  Callers, Flows, Sessions, Scratches, Values, Saved, Ttls, MaxTime, MaxSaves,
  \* TokenStores and Keys
  Tokens, Families, FamilyOf, Calls, RefreshTtl, ReuseWindow, MaxSkew, TokenVerifies,
  \* Saml
  Posts, LoginFlows, Unsolicited, LogoutRequests, AssertionOf, SamlConfigs,
  NoAssertion, Forever, Minimum, Longest, Default, RequestTtl, SloHorizon,
  MaxSamlTime,
  \* Passkey
  Nobody, KeyFlows, KeyUsers, Credentials, Devices, CredentialOf, Counts,
  KeyPosts, MaxOptions, MaxSignatures,
  \* Password
  PasswordPosts, Addresses, Passwords, TooShort,
  \* Client
  Operations, MaxPairs, PairTtl, Early, ClocksAhead, MaxClientTime,
  \* Dpop
  DpopRequests, Proofs, ProofOf, AccessTokens, BoundTo, Unbound, PerSecond,
  Tolerance, MaxDpopTime,
  \* Par
  Nothing, ParTenants, ParClients, ManyMethods, Registrations, Confidential,
  MustPush, RequestUris, AuthorizeRequests, ParTtl, MaxParTime, MaxChanges,
  \* AccessTokens
  AccessTenants, AccessClients, Claims, AccessScopes, Audiences, AccessTtl,
  MaxAccessTime, MaxIssued, Changes, MaxEnrolments, FirstEnrolments, Absent,
  \* Upstream, and the flows it runs on
  LoginRequests, Tenants, Clients, Methods, Hosts, HostOf, Registered,
  Configured, Uninvited, FlowTtl, MaxLoginTime, Accounts

VARIABLES part, s1, s2, s3, s4, s5, s6, s7, s8, s9

slots == <<part, s1, s2, s3, s4, s5, s6, s7, s8, s9>>

----------------------------------------------------------------------------
users == s1
groups == s2
addsFirst == s3
req == s4
Directory == INSTANCE Scim
ASSUME DirectoryAssumption == Directory!ScimAssumption

backend == s1
rows == s2
now == s3
calls == s4
saves == s5
promised == s6
late == s7
Stores == INSTANCE SessionStores
ASSUME SessionsAssumption == Stores!SessionStoresAssumption

adapter == s1
tokenNow == s2
tokenRows == s3
saved == s4
index == s5
tokenCalls == s6
Refreshes ==
  INSTANCE TokenStores WITH now <- tokenNow, rows <- tokenRows, call <- tokenCalls
ASSUME TokensAssumption == Refreshes!StoresAssumption

(* The adapters whose reads are consistent and whose failed inserts are    *)
(* noticed; what adapters/dynamo does differently is for module Keys.      *)
keyRows == s1
keyCalls == s2
jwks == s3
verify == s4
SigningKeys ==
  INSTANCE Keys
  WITH rows <- keyRows, call <- keyCalls, Verifies <- TokenVerifies,
       Dynamo <- FALSE

samlConfig == s1
samlNow == s2
scratch == s3
samlFlows == s4
posts == s5
used == s6
kept == s7
carriedOut == s8
Connection == INSTANCE Saml
ASSUME ConnectionAssumption == Connection!SamlAssumption

credentialStore == s1
creds == s2
methodState == s3
challenges == s4
signed == s5
keyPosts == s6
accepted == s7
disturbed == s8
Authenticators == INSTANCE Passkey WITH issued <- challenges
ASSUME AuthenticatorsAssumption == Authenticators!PasskeyAssumption

storeRefuses == s1
registration == s2
accounts == s3
errorSaved == s4
passwordPosts == s5
overlapped == s6
Users == INSTANCE Password

setting == s1
issuerNow == s2
pairs == s3
count == s4
familyLive == s5
challenge == s6
session == s7
operations == s8
excuses == s9
Relying == INSTANCE Client WITH AccessTtl <- PairTtl
ASSUME RelyingAssumption == Relying!ClientAssumption

dpopNow == s1
dpopJtis == s2
dpopRequests == s3
firstUse == s4
usedAgain == s5
Dpops == INSTANCE Dpop
ASSUME DpopsAssumption == Dpops!DpopAssumption

parNow == s1
registered == s2
changes == s3
par == s4
pushedBy == s5
authorizes == s6
opened == s7
Pushed == INSTANCE Par
ASSUME PushedAssumption == Pushed!PushAssumption

accessNow == s1
enrolled == s2
enrolments == s3
root == s4
issued == s5
chains == s6
idTokens == s7
exchange == s8
vouched == s9
Granted == INSTANCE AccessTokens
ASSUME GrantedAssumption == Granted!AccessAssumption

loginNow == s1
logins == s2
loginCodes == s3
loginReq == s4
pkce == s5
granted == s6
brought == s7
subject == s8
Provider ==
  INSTANCE Upstream
  WITH now <- loginNow, flows <- logins, codes <- loginCodes, req <- loginReq,
       Requests <- LoginRequests, Unsolicited <- Uninvited,
       MaxTime <- MaxLoginTime
ASSUME ProviderAssumption ==
  Provider!UpstreamAssumption /\ Provider!FlowsAssumption /\ Provider!NoneIsNoRecord

----------------------------------------------------------------------------
(* The slots a component does not use stay empty. *)
NoMore8 == s9 = None
NoMore7 == NoMore8 /\ s8 = None
NoMore6 == NoMore7 /\ s7 = None
NoMore5 == NoMore6 /\ s6 = None
NoMore4 == NoMore5 /\ s5 = None
Beyond8 == <<part, s9>>
Beyond7 == <<part, s8, s9>>
Beyond6 == <<part, s7, s8, s9>>
Beyond5 == <<part, s6, s7, s8, s9>>
Beyond4 == <<part, s5, s6, s7, s8, s9>>

Init ==
  \/ part = "scim" /\ Directory!Init /\ NoMore4
  \/ part = "stores" /\ Stores!Init /\ NoMore7
  \/ part = "tokens" /\ Refreshes!Init /\ NoMore6
  \/ part = "keys" /\ SigningKeys!Init /\ NoMore4
  \/ part = "saml" /\ Connection!Init /\ NoMore8
  \/ part = "passkey" /\ Authenticators!Init /\ NoMore8
  \/ part = "password" /\ Users!Init /\ NoMore6
  \/ part = "client" /\ Relying!Init
  \/ part = "dpop" /\ Dpops!Init /\ NoMore5
  \/ part = "par" /\ Pushed!Init /\ NoMore7
  \/ part = "access" /\ Granted!Init
  \/ part = "upstream" /\ Provider!UpstreamInit /\ NoMore8

Next ==
  \/ part = "scim" /\ Directory!Next /\ UNCHANGED Beyond4
  \/ part = "stores" /\ Stores!Next /\ UNCHANGED Beyond7
  \/ part = "tokens" /\ Refreshes!Next /\ UNCHANGED Beyond6
  \/ part = "keys" /\ SigningKeys!Next /\ UNCHANGED Beyond4
  \/ part = "saml" /\ Connection!Next /\ UNCHANGED Beyond8
  \/ part = "passkey" /\ Authenticators!Next /\ UNCHANGED Beyond8
  \/ part = "password" /\ Users!Next /\ UNCHANGED Beyond6
  \/ part = "client" /\ Relying!Next /\ UNCHANGED part
  \/ part = "dpop" /\ Dpops!Next /\ UNCHANGED Beyond5
  \/ part = "par" /\ Pushed!Next /\ UNCHANGED Beyond7
  \/ part = "access" /\ Granted!Next /\ UNCHANGED part
  \/ part = "upstream" /\ Provider!UpstreamNext /\ UNCHANGED Beyond8

Spec == Init /\ [][Next]_slots

----------------------------------------------------------------------------
(* The properties of the components, each stated where the component is    *)
(* modelled and read here for the behaviours of that component.            *)

(* SCIM: a patch of a user does what its operations say, one by one, and   *)
(* leaves alone what somebody else wrote meanwhile (domain/scim/patch.ts,  *)
(* normalizePatch).                                                        *)
PatchesDoAsTheySay == [][part = "scim" => Directory!PatchesAsSaid]_slots

(* SCIM: a patch of a group does what its operations say, in whichever     *)
(* order the host applies the deltas (normalizeGroupPatch).                *)
GroupPatchesDoAsTheySay == [][part = "scim" => Directory!GroupPatchesAsSaid]_slots

(* SCIM: repeating a request whose answer was lost changes nothing         *)
(* (domain/scim/handle.ts, a 500 asks the client to retry).                *)
RetriesRepeatNothing == [][part = "scim" => Directory!RepeatsNothing]_slots

(* Session stores: every adapter is a map with expiry, up to one known     *)
(* loss (the lazy deletion of expired rows, adapters/<name>/session-store.ts).  *)
StoresAreMaps == part = "stores" => Stores!StoresAreMaps

(* Token stores: concurrent presentations have exactly one winner in every *)
(* adapter (consumeRefresh, adapters/<name>/token-store.ts).                    *)
OneWinner == part = "tokens" => Refreshes!OneWinner

(* Token stores: a call is told of reuse only when another one has really  *)
(* consumed the token, whatever the clocks say (consumeRefresh).           *)
ReuseHasAWinner == part = "tokens" => Refreshes!ReuseHasAWinner

(* Token stores: a revocation that answers ok leaves nothing of what was   *)
(* there when it began, save deletions DynamoDB lost (revokeFamily).       *)
RevocationsReachWhatIsThere == part = "tokens" => Refreshes!RevocationsReachWhatIsThere

(* Signing keys: the issuer knows every key it used, whichever first keys  *)
(* raced (adapters/<name>/key-store.ts, ensureSigningKey).                *)
IssuerKnowsItsKeys == part = "keys" => SigningKeys!IssuerKnowsItsKeys

(* Signing keys: a relying party turns a token down only if several first  *)
(* keys were made (client.ts, the cached JWKS).                            *)
RejectionsNeedARace == part = "keys" => SigningKeys!RejectionsNeedARace

(* SAML: an assertion logs somebody in once, up to the exceptions listed   *)
(* there (methods/saml-sp/acs.ts, consumeAssertion).                       *)
AssertionsAreUsedOnce == part = "saml" => Connection!AssertionsAreUsedOnce

(* SAML: a confirmed logout was carried out, and a logout is refused as a  *)
(* replay only for one that was at least begun (methods/saml-sp/sls.ts).   *)
LogoutsAreNotLost == part = "saml" => Connection!LogoutsAreNotLost

(* Passkey: the stored counter never falls behind one that logged in,      *)
(* unless verifications overlap (methods/passkey.ts, authVerify).          *)
CountersAreKept == part = "passkey" => Authenticators!CountersAreKept

(* Password: whoever has registered gets in, unless registrations of the   *)
(* address overlapped (methods/password.ts, handleRegister).               *)
RegistrantsGetIn == part = "password" => Users!RegistrantsGetIn

(* OAuth2 and OIDC: with PKCE a login answers the redirect of its own flow, *)
(* and the verifier is there when it does (methods/oauth2-generic.ts).     *)
AnswersFitTheirFlow == part = "upstream" => Provider!AnswersFitTheirFlow

(* Client library: a session is lost only for the reasons listed there     *)
(* (client.ts, verify and refresh).                                        *)
SessionsAreLostForAReason == part = "client" => Relying!SessionsAreLostForAReason

(* DPoP: a proof is good for one request, but for a second at both ends of *)
(* its window (domain/dpop.ts, recordDpopJti).                             *)
ProofsAreUsedOnce == part = "dpop" => Dpops!ProofsAreUsedOnce

(* PAR: a pushed request opens one flow, for who pushed it and with what   *)
(* was pushed (domain/par.ts, http/handlers/authorize.ts).                 *)
FlowsKeepToThePush == part = "par" => Pushed!FlowsKeepToThePush

(* Token exchange: whatever is refreshed and exchanged descends from the   *)
(* first grant (domain/token.ts, mintTokens; domain/token-exchange.ts).    *)
TokensKeepTheirLineage == part = "access" => Granted!TokensKeepTheirLineage
=============================================================================

# A verification of the OpenAuth issuer in TLA+

This directory models the OAuth 2.1 / OpenID Connect issuer of
`packages/openauth` in TLA+: what the issuer must guarantee when requests
interleave, clocks advance and steps fail. TLC checks it on small instances,
and TLAPS proves the central results for instances of any size.

Paths below are relative to `packages/openauth/src` of the repository unless
they start with `packages/`.

## 1. The system

HTTP handlers (`http/`) parse a request and call a function of `domain/`. The
domain functions keep no state of their own: everything lives behind the ports
of `ports/`, implemented by the adapters (`adapters/memory`, `postgres`, `d1`,
`durable-object`, `dynamo`, `kv`, `kms`). Sign-in methods (`methods/`) are
plug-ins a login flow is dispatched to. A relying party uses `client.ts`.

Concurrency. The runtime is JavaScript: a request runs alone until its next
`await`, and there any other request may run. With the external adapters several
processes share one database, and the same holds between any two of their
statements. So a step of the models is what the code does between two awaits
(or statements), and the models interleave the steps of all requests.

### Components

| Component | State | Operations | Works with | What makes it correct |
|---|---|---|---|---|
| Token endpoint (`domain/token.ts`, `refresh.ts`, `client-auth.ts`) | none; codes and refresh tokens in the token store | exchange a code, refresh, mint | token store, key store, DPoP | a credential is used once; a chain of refreshes never forks or widens; a refused request costs nothing |
| Revocation, logout (`domain/revoke.ts`, `logout.ts`) | none | revoke a token, all tokens of a subject | token store | what is revoked stays dead; nothing in flight survives |
| Token stores (`adapters/*/token-store.ts`) | codes, refresh tokens with `consumedAt`, DPoP jti | save, consume, peek, revoke family / subject, record jti | database | one winner per token; reuse detected, and never wrongly |
| Authorization, callback, method routes (`domain/authorize.ts`, `callback.ts`, `method-route.ts`, `method-dispatch.ts`) | none; flows in the session store | start, call back, post to a method's route, IdP-initiated login | session store, method cache, methods, token store | one flow, one code; a code is for what was asked and vouched for by the right tenant's method |
| Session stores (`adapters/*/session-store.ts`) | flows, PAR requests, scratch | save, get, update method state, consume | database | consumed once; never revived |
| One-time code (`methods/code.ts`) | destination, code hash, attempts in the flow's method state | ask, send, verify | method dispatch, the host's `sendCode` | who gets in received the code; tries are limited |
| Method cache (`domain/method-cache.ts`) | built methods, disabled ones | resolve, invalidate | config and method stores, their listeners | a rotation takes effect; nothing is served that was not valid |
| Config and method stores (`adapters/*/config-store.ts`, `method-store.ts`) | tenants, clients, method secrets | get, put, announce | method cache, registration | announced after it is written |
| Key stores (`adapters/*/key-store.ts`) | signing keys, state keys | current, list, ensure | jwt, JWKS endpoint, clients | what was signed stays verifiable |
| Pushed requests (`domain/par.ts`), the picker page (`ui/picker.ts`) | PAR records | push, consume, rehydrate, link | authorization endpoint | one flow per push, with what was pushed, by who pushed |
| Access tokens, client credentials, token exchange (`domain/jwt.ts`, `client-credentials.ts`, `token-exchange.ts`) | none; refresh tokens | mint, verify, exchange | token store, config store, the host's `exchangeAudience` | whatever is refreshed and exchanged descends from the first grant |
| DPoP (`domain/dpop.ts`, `userinfo.ts`) | jtis in the token store | verify a proof, record its jti | token endpoint, userinfo | a proof is good for one request |
| SCIM (`domain/scim`) | none; the host's directory | users, groups, patch, filter, paging | host | a patch means what its operations say, also when sent twice or overtaken |
| Password, passkey (`methods/password.ts`, `passkey.ts`) | users, credentials, challenge | register, log in | method dispatch, host's stores | who registered gets in; a counter never moves back |
| SAML (`methods/saml-sp`) | scratch: requests sent, assertions and logouts seen | start, consume, log out | method dispatch, scratch store, node-saml | an assertion is used once; a logout is not lost |
| OAuth2 / OIDC upstream (`methods/oauth2-*.ts`, `oidc-generic.ts`, `providers/`) | PKCE verifier in the method state | start, call back | method dispatch, a provider | a login answers the redirect of its own flow |
| Client (`client.ts`) | key-set cache; the tokens are the relying party's | authorize, exchange, refresh, verify | issuer | a session is not lost without a reason |
| Envelope and code encryption, registration, metadata, HTTP shell | | | | section 9 |
| Audit logs, forms, assembly | append-only log | | | nothing reads them |

`PROJECT.json` lists every part with its files. The behaviours that are hard to
test are its hazards, each at its line; they fall into these groups.

- *Use once.* Codes, refresh tokens and flows are credentials that several
  requests may present together; checks surround the consuming call with awaits.
- *In flight.* A refresh between `consumeRefresh` and `saveRefresh`, a slow method
  handler, a build of a method, hold data that others revoke, consume or replace.
- *Several statements.* `consumeRefresh` of the databases, the bootstrap of the
  first key, row-by-row revocation on DynamoDB.
- *Stale copies.* The method cache, the disabled list, the clients' key set, the
  method state a handler was dispatched with.
- *Windows.* A replay record that must outlive what it guards (DPoP, SAML), rows that
  expire while they are read, a refresh token spent while its successor is on its way.
- *Failures passed over.* Caught inserts and deletes, listeners, deliveries.

## 2. Modules

| Module | Models | Built on |
|---|---|---|
| `OneShot` | abstract: what the stores promise of credentials presented once and of the chains they form | |
| `TokenGrants` | the token and revocation endpoints over the in-memory token store | |
| `TokenGrantsProps`, `TokenGrantsInv` | its properties and refinement of `OneShot`; its inductive invariant | `TokenGrants`, `OneShot` |
| `Flows` | authorization, callback, method routes over the in-memory session store | |
| `FlowsProps` | its properties and refinement of `OneShot` | `Flows`, `OneShot` |
| `CodeMethod` | the one-time-code method running on flows | `Flows` |
| `MethodCache` | the method cache under configuration changes, on one or several servers | |
| `SessionStores` | flows, sessions and scratch values of all five adapters, statement by statement | |
| `Par` | pushed authorization requests, the picker page, registrations that change | |
| `AccessTokens` | what tokens say along refreshes and exchanges | |
| `Dpop` | proofs, their age and their jtis, at both endpoints | |
| `Saml` | the service provider over the scratch store | |
| `Passkey` | both ceremonies over the three credential stores | |
| `Password` | login and registration over the host's user store | |
| `Upstream` | a login at an OAuth2 or OIDC provider, running on flows | `Flows` |
| `Client` | the client library of one session, and the issuer as it sees it | |
| `ScimPatch`, `Scim` | patch normalisation as operators; requests against the host's directory | |
| `Keys` | the bootstrap and lookup of signing keys, and clients that cache the key set | |
| `TokenStores` | refresh tokens of the database adapters, statement by statement | |
| `Components` | the components that share no state side by side, an instance of each, and their properties | `Keys`, `TokenStores` and the modules from `SessionStores` to `Scim` |
| `TokenGrantsProofs`, `FlowsProofs`, `MethodCacheProofs` | theorems about one component each | the component, TLAPS |
| `CodeMethodProofs`, `UpstreamProofs` | theorems about the methods that run on flows | the method, `FlowsProofs` |
| `Folding` | what a left fold runs through, for any operator: the induction of the SCIM proofs | TLAPS |
| `StoreProofs` | theorems about the instances `Keys`, `TokenStores`, `SessionStores` and `Scim` of `Components`, and about `Components` | `Components`, `Folding` |
| `ComponentProofs` | theorems about `OneShot`, about the other instances, and about `Components` | `Components`, `UpstreamProofs` |
| `MC*` | the constants of an instance for TLC (`MCScim`: those of the directory, which `MCComponents` extends) | |

### TokenGrants

State: `now`; `codes` and `refresh` are the two maps of `MemoryTokenStore`; `req`
holds for each request where its handler stands (`pc`), what it was asked, what
it consumed (`won`), what it read (`grant`) and saved (`heir`), and how it was
answered; `cut` is a history of the families a revocation was called on.

| Actions | Code |
|---|---|
| `SaveCode` | the end of a login: `saveEncryptedCode` |
| `ExchangeUnknown`, `ExchangeExpired`, `ExchangeConsume` | `exchangeCode`: `consumeCode`, then every check; a code is gone whatever the checks say |
| `RefreshPeek` | `refreshTokens` up to `consumeRefresh`: peek, client authentication, binding, DPoP, scopes |
| `RefreshClaim`, `RefreshReuse`, `RefreshMiss` | the outcomes of `consumeRefresh` |
| `MintFails`, `SaveRefresh`, `Respond` | `mintTokens`: subject, key and signature; `saveRefresh`; id token and answer |
| `RevokePeek`, `RevokeConsume` | `revokeToken` |
| `RevokeSubject` | `revokeAllForSubject` |
| `Tick` | the clock |

A code and its flow-independent fields are one grant; contents of tokens, PKCE and
redirect URI are one *binding* that matches or not.

### Flows and CodeMethod

State: `flows` is the flow map of `MemorySessionStore`, `codes` what was saved for
each code, `req` the requests. A flow, its envelope and its state parameter are named
by the authorize request that made them (an envelope is unforgeable), a method's state
by the request that saved it. `StartAuthorize`, `CallbackConsume`, `RouteRead` are the
code up to the call of the method's handler; the handler then answers whatever an
`AuthMethod` may (`HandlerFails`, `HandlerDenies`, `HandlerChallenges`, `HandlerSaves`,
or a success), after any delay; `Surface` is what follows a saved state, and
`CallbackSucceeds`, `FlowSucceeds`, `UnsolicitedSucceeds`, `IssueCode`, `IssueFails`
the way to a code. `handleCallback` consumes the flow before it checks tenant, host
and method; `handleMethodRoute` reads first and consumes on success: both orders are kept.

`CodeMethod` extends `Flows`: `form` is what a request submits and the code it draws,
`memo` the `CodeState` it asked to save, `login` whom it let in. Its actions conjoin
one action of `Flows` with the decision of `methods/code.ts`.

### MethodCache

A configuration is a version number with a content (`good` or `invalid`). `PutWrites`
and `PutNotifies` are `putTenantConfig` in the order of the code, `HostNotifies` a
host that forwards the announcement to other processes (or drops it: no fairness).
A request `Load`s a version (a lagging store may hand out one up to `MaxLag` behind),
then `ResolveHit`, `ResolveDisabled`, or `ResolveMisses` and a build that succeeds or
fails. `Invalidate` drops what is cached; a build under way is not told.

### Keys

Every call starts with `ensureSigningKey` (`EnsureFinds`, `EnsureMisses`, `Insert`,
`InsertFails`), then selects the current key, the list, or a kid. A key is named by the
call that generates it; a token by the call that signed it. `SelectCurrent` may answer any
active key: no adapter orders the rows it takes the first of. The constant `Dynamo` selects
the adapter that ignores a failed insert and lists keys with an eventually consistent read,
which `ports/CONSISTENCY.md` allows. A client's `verify` fetches
the key set once and keeps it.

### TokenStores

`consumeRefresh` is `BeginConsume`, then a conditional update (`ClaimWins`,
`ClaimMisses`), then the explaining read (`Lookup`), then perhaps `revokeFamily`,
which is one `DELETE` on SQL and a query of an index followed by one delete after
another on DynamoDB, where failures are passed over (`RevokeOne`). Each process has
a clock up to `MaxSkew` from the true time.

### SessionStores

One action per operation and adapter; an operation of two statements is two actions with
others in between. `promised` is what a map with expiry would hold. `StoresAreMaps`
compares the two, so it also says that a flow handed out by `consumeFlow` is gone for good.
It has one exception, `late`: a read that finds a row expired deletes *by key alone* in a
second statement, and a session or scratch value saved under that key in between goes with it
(`adapters/postgres/session-store.ts:255`, and the same in D1, DynamoDB and the durable
object). Flow ids are random and saved once, so flows are safe. `D1WriteBack` and
`DynamoWriteBack` are conditional on the row being there; the mutant shows why.

### Par

`PushAuthorizationRequest` stores a record with its client; `AuthorizePushed` and `Rehydrate`
consume it, *before* its client is compared and whether it has expired or not; a client that
must push is refused by `AuthorizeDirectly`. `FollowLink` is a request made from a link of the
picker page. It carries no `request_uri`, so a client that must push, in a tenant with several
methods and without a method in the push, cannot get past the picker. Only the memory adapter
implements PAR.

### AccessTokens

A payload goes into `issued` (access tokens), `chains` (the live refresh token) and `idTokens`.
A `Login` may carry an audience, the one its `/authorize` request asked for; without one the
tokens are for the client (`AudienceOf`). A client-credentials grant carries none.
`BeginExchange` runs up to the host's `exchangeAudience`, whose answer (`ExchangeAudience`) may
come after tenants were reconfigured (`Enrol`); `FinishExchange` mints in the target tenant. The
exchanged token keeps the audience of its subject even when another client exchanges it; a
token for a resource is exchanged only by a client that names itself. Who
may consume a refresh token is `TokenGrants`; an exchange drops the DPoP binding, which is not
modelled.

### Dpop

Time is in ticks of half a second, because the code compares the age of a proof in whole
seconds and the life of a jti in milliseconds. `ProofsAreUsedOnce` states the two gaps this
leaves: a proof accepted within the first second of its window may be used again in the last,
and a request held up between the age check and the store may record after the window.

### Saml

State: the scratch store with its failures, the flows that asked, the posts in progress. A login
answer is checked against the request in the store (`GetAsync`, `RemoveAsync`); an assertion
nobody asked for against the record of those seen (`LookForReplay`, `RecordAssertion`: a get,
then a put). `AssertionsAreUsedOnce` names what is left open: overlapping posts, a store that
fails (a failing *get* counts as not seen, `acs.ts:388`, although a failing *put* refuses), an
assertion valid for longer than the cap, or a lookup in the very tick of the expiry. For logout,
`LogoutsAreNotLost` holds with one path spelt out: a `LogoutRequest` is recorded before it is
carried out, and its retry after a failure is refused as a replay.

### Passkey and Password

`Passkey` has one set of actions per adapter; `authVerify` reads the counter, verifies and
writes unconditionally, so two verifications that overlap may move it back (`disturbed`).
`Password` has a user store that refuses a second user of an address and one that does not;
on the latter two registrations that overlap both succeed and one of them may not get in.

### Upstream

Extends `Flows` as `CodeMethod` does. `granted` are the codes the provider issued, each for
the redirect of one flow; `brought` the code an answer carries, which may be that of another
login; `subject` whose tokens it was traded for. The answer comes to `/cb` with the state
parameter, which consumes the flow first, or to `/m/<method>/callback` with the flow's cookie,
where the flow is only read. `AnswersFitTheirFlow` says that with PKCE the flow's own answer, and
no other, can be traded, and that one answer yields one code. Without PKCE (`pkce: "none"`) only
the latter holds: nothing else ties the provider's code to the flow.

### Client

`pairs` are the token pairs the issuer made, `session` the one the relying party keeps,
`excuses` the reasons a session may be lost for. `verify` calls itself after a refresh, so a
token that expires at once refreshes again: the outermost call then hands back tokens that the
inner one has already spent. It also verifies the new token against the client id, whatever
audience the caller named: a caller that verifies resource tokens with a refresh token at hand
loses the session at the first expiry. Both are excuses of `SessionsAreLostForAReason`, with
lost answers, mints that fail after the old token was spent, and calls that cross.

### ScimPatch and Scim

`NormalizePatch` and `NormalizeGroupPatch` are the fold of `domain/scim/patch.ts`. `Scim` reads,
resolves and writes in three steps, and the host may refuse, conflict or fail before or after a
write took effect. The reference semantics is the same normalisation applied to one operation
at a time on the evolving record. Two limits are stated with the properties: a
request that sets a typed entry and removes it again is not idempotent, because `upsertByType`
adopts a lone entry without a type, which the second removal then takes (repeating a request is
compared with the user as the first time left it, e-mail addresses in any order); and a group patch that both adds and removes one member has
the effect its host chooses, because the two deltas carry no order.

### Components

These components share no state, so composing them as processes would only multiply
their states. Instead `part` picks one component at the start, and the slots `s1` to `s9` hold
its variables, under the names of its own module or, where two modules agree on a name, a
longer one (`keyRows`, `tokenRows`). A behaviour of `Components` is one of a single component,
and one run explores the union of the twelve. A property reads "if this behaviour is of that
component, then its property"; so does a theorem about it.

## 3. What the runs check

| Run | Properties | Size |
|---|---|---|
| `grants_rotation` | type and inductive invariant; `OneWinner`, `OneTip`, `ReuseHasAnEarlierWinner`, `RevokedTokensStayDead`, `DeadFamiliesStayDead`; `ImplementsOneShot` | 4 requests, 1 code, 3 tokens, symmetric |
| `grants_binding` | `LineageNarrows`, `MistakesDoNotBurn`, `EveryRequestIsAnswered` | 3 requests, 2 clients (one confidential, one that must use DPoP), a key, a scope; fair |
| `grants_revoked` | violated: `RevokedFamiliesEnd` | as rotation |
| `flows` | `OneCodePerFlow`, `FlowsAreSpentOnce`, `CodesAreVouchedFor`, `SavedStateIsFound`, `FinishedFlowsStayFinished`, `ImplementsOneShot` | 3 requests, 2 tenants sharing a store and a method id, 2 hosts |
| `code_method` | `LoginsHeldTheCode`, `DenialsAreEarned`, `FailuresAreCounted` | 4 requests, 2 destinations, 2 codes, 1 attempt |
| `code_cap` | violated: `AttemptsAreCapped` | 4 requests, one destination |
| `method_cache` | `ServedMethodsWereBuiltHere`, `StaleOnlyThroughABuild` | 2 servers, 3 requests, 2 changes, lag 1 |
| `cache_stale` | violated: `RotationsTakeEffect` | 1 server, 2 requests, 1 change, no lag |
| `keys_unreachable` | violated: `NoActiveKeyIsUnreachable` | 3 calls, DynamoDB |
| `components` | see below | twelve instances, symmetric in the three and in the two requests |
| `picker` | violated: `LinksKeepTheRequest` | 2 requests, 2 tenants, one with several methods |
| `machine_id_tokens` | violated: `IdTokensNameALogin` | 2 tenants, one confidential client |

The instances of `components`:

| Part | Properties | Size |
|---|---|---|
| SCIM | `PatchesDoAsTheySay`, `GroupPatchesDoAsTheySay`, `RetriesRepeatNothing` | a client that sends a patch of one or two operations out of 13 (users) or 7 (groups) up to twice, and one other request; 2 users and a group |
| session stores | `StoresAreMaps` | 5 adapters, 2 callers, a flow, a session, a scratch key, two saves of each |
| token stores | `OneWinner`, `ReuseHasAWinner`, `RevocationsReachWhatIsThere` | 3 calls, one token, both kinds of adapter, clocks 1 apart |
| keys | `IssuerKnowsItsKeys`, `RejectionsNeedARace` | 3 calls, 2 verifications, a store that does not lag |
| SAML | `AssertionsAreUsedOnce`, `LogoutsAreNotLost` | 2 posts, 2 logins, 2 unsolicited assertions, 2 logout requests |
| passkey | `CountersAreKept` | 3 adapters, 3 posts, a device and its clone |
| password | `RegistrantsGetIn` | 3 posts, 2 passwords, both kinds of user store |
| OAuth2, OIDC | `AnswersFitTheirFlow` | 3 requests, 2 users at the provider, with PKCE and without |
| client | `SessionsAreLostForAReason` | 3 calls, 3 token pairs, a clock ahead or not |
| DPoP | `ProofsAreUsedOnce` | 3 requests, 3 proofs, tolerance 1 s |
| PAR | `FlowsKeepToThePush` | 2 requests, 1 push, 2 tenants, one change of a registration |
| access tokens | `TokensKeepTheirLineage` | 3 access tokens, 2 tenants, 2 clients, a resource to ask tokens for, one change of a tenant |

Every property of a passing run comes with a mutant: a *variant for mutation*, defined
beside the definition it replaces, that changes it the way a plausible slip would (a
dropped guard, a missing stamp, a swapped order) and makes TLC find the property violated.

Some properties exempt a race that the code leaves open: `FailuresAreCounted` two verifies
with one state, `RejectionsNeedARace` several first keys, `RevocationsReachWhatIsThere` a
deletion DynamoDB failed, `CountersAreKept` and `RegistrantsGetIn` overlapping posts,
`AssertionsAreUsedOnce` overlapping posts and a failed lookup, `LogoutsAreNotLost` the retry
after a failure, `SessionsAreLostForAReason` the reasons it lists, `PatchesDoAsTheySay` an
attribute written between read and write, `StoresAreMaps` a late delete of a reused key. Such
a property says that nothing *else* goes wrong; the race itself remains a hazard, and its
entry in `PROJECT.json` says so in a note.

### What the violations show

- `grants_revoked`. `revokeFamily` and `revokeBySubject` delete the rows there are. A
  refresh that has consumed its token but not saved the new one adds a row afterwards, and
  that token works: logging a user out everywhere, or cutting off a stolen chain, leaves a
  live token if a refresh is in flight. The invariant that does hold is `DeadFamiliesStayDead`.
- `code_cap`. Two wrong codes submitted together are counted once, so more than
  `maxAttempts` tries fit. `FailuresAreCounted` shows that this is the only way.
- `cache_stale`. A build that loaded the old configuration before an invalidation is
  cached after it, and serves the old secrets until the next change.
  `StaleOnlyThroughABuild` shows that there is no other way.
- `keys_unreachable`. The DynamoDB key store takes any failure of the first insert for a
  lost race; the "unreachable" error is then the answer.
- `picker`. The context of the picker page has no field for the `claims` parameter, so a
  request that asks for claims loses them when its user picks a method.
- `machine_id_tokens`. A client-credentials token has no `auth_time` and gets no refresh token.
  Exchanged, it gets one, stored with the time of the exchange as if somebody had logged in
  then, and the next refresh yields an id token. `TokensKeepTheirLineage` holds beside it: the
  `auth_time` of a login is kept.

Smaller disagreements met on the way: `methods/saml-sp/acs.ts` calls its replay check
fail-closed, but a failing get passes; introspection names the audience of an exchanged token as its
client.

## 4. Bounds

The `Requests`, `Calls` and `Puts` of an instance are the operations that happen in a
behaviour, each at most once: this bounds every behaviour, and since the last one may
be done with nothing left to do, deadlock checking is off (`CHECK_DEADLOCK FALSE`)
everywhere. Time is bounded by `MaxTime` in the guard of `Tick`; the time-to-live
constants are small enough that everything can expire within it, before, while and
after it is used. Four requests suffice for a login or an exchange, two requests that
race, and a third that interferes; for what section 6 proves, the proofs lift the bounds.
Two tenants, servers, clients or destinations are enough to confuse one with the other.
Symmetry is used for safety only, never with fairness. In `components` three
requests are one that acts, one that races it and one that comes after; where two suffice to
confuse (SAML posts, store callers, authorize requests) there are two. Counters are bounded by
the constants whose names begin with `Max`.

## 5. Fairness

Only `EveryRequestIsAnswered` of `TokenGrants` needs it: weak fairness of `Continue(r)`, the steps that
finish a request once begun. The event loop runs whatever promise has settled, and the
stores, hooks and handlers a request awaits are assumed to settle, be it with an error.
Nothing says that a request arrives or that the clock ticks. What the property adds
is that no branch is left without an answer, whatever happened to the token between the peek
and the claim: the steps after a peek depend on the row. In `Flows` a handler may always fail
and every step after it is unconditional, so an answer would follow from the shape of the model;
nothing is claimed there.

## 6. What is proved

Every safety property of a passing run is a theorem for any, also infinite, sets of requests,
tokens, clients and so on, any lifetimes and any bounds, except one: of `RetriesRepeatNothing`
all but the patches of users is proved. Each proof follows one pattern: a typing invariant and an
inductive one, a lemma for each kind of step, the property as a consequence. The assumptions
are the named ones of each module, about constants only: what a set of values must not contain,
that durations are numbers, that names are kept apart. TLC evaluates each of them on the
instances of section 3.

| Module | Theorems | Assumed |
|---|---|---|
| `TokenGrantsProofs` | `TypeCorrect`, `Invariance`; `SingleUse`, `ChainsDoNotFork`, `GrantsOnlyNarrow`, `RefusalsKeepTheToken`, `ReuseIsReal`, `RevocationIsFinal`, `DeadFamilies`; `GrantsAreOneShot` | `GrantsAssumption`, `NoneAssumption` |
| `FlowsProofs` | `Invariance`; `FlowsAreSpent`, `OneLoginOneCode`, `CodesMeanTheAsk`, `SavedStates`, `FinishedFlows`; `FlowsAreOneShot` | `FlowsAssumption`, `NoneIsNoRecord` |
| `CodeMethodProofs` | `RunsOnFlows`; `LoginsAreForTheCode`, `DenialsComeAfterFailures`, `FailuresStayCounted` | these and `CodeAssumption` |
| `UpstreamProofs` | `RunsOnFlows`; `AnswersAreForTheFlow` | these and `UpstreamAssumption` |
| `MethodCacheProofs` | `ServedMethodsAreGood`, `StalenessHasACause` | `CacheAssumption` |
| `StoreProofs` | `UserPatchesDoAsTheySay`, `GroupPatchesDoAsSaid`, `DirectRetries`; `StoresStayMaps`; `RefreshesHaveOneWinner`, `RefreshReuseIsReal`, `RevocationsAreComplete`; `IssuersKnowTheirKeys`, `RejectionsShowARace` | those of `Components`: `DirectoryAssumption`, `SessionsAssumption`, `TokensAssumption` |
| `ComponentProofs` | `TicketsFormChains` (`OneShot`); `AssertionsStaySpent`, `LogoutsAreCarriedOut`; `CountersDoNotFallBehind`; `RegistrantsLogIn`; `AnswersAreForTheirFlow`; `SessionsEndForAReason`; `ProofsAreSpent`; `FlowsStayAsPushed`; `TokensDescend` | those of `Components`: `ConnectionAssumption`, `AuthenticatorsAssumption`, `RelyingAssumption`, `DpopsAssumption`, `PushedAssumption`, `GrantedAssumption`, `ProviderAssumption`; of `OneShot` its own |

The arguments, and why the properties are not inductive by themselves:

- *`TokenGrants`.* That one request wins a token needs that an
  unconsumed row was not won (`UnconsumedIsUnspent`, `StoredCodesAreUnspent`), for which a
  deleted row must never come back, for which a token must only be saved by the request it was
  drawn for (`HeirsAreUnique`, `HeldTokensWereSaved`, `RowsComeFromRequests`), for which the
  stages of a handler must fit its fields (`StagesOK`). `OneTip` is part of the induction: saving
  a new token is safe because the request that mints is the tip. `PeekStillHolds` carries what
  `refreshTokens` checked before `consumeRefresh` over to the claim: rows are immutable but
  for `consumedAt`. The proof divides the actions into *quiet* ones, which win nothing
  (`QuietStep`), and winning ones (`WinStep`), so that each conjunct is argued twice and not
  once for each action.
- *`Flows`.* `FlowsAreSpentOnce` is part of the induction: whoever spends a flow, a callback
  that fails afterwards included, found its record, so nobody had spent it before, and a spent
  flow is not written again. That there is one code per flow follows, because whoever may still
  issue one has spent it (`HoldersSpend`); `AsksAreKept` and `StatesAreStored` tie a code to what
  was asked.
- *Implementing `OneShot`.* `GrantsAreOneShot` and `FlowsAreOneShot` show that the initial
  states map to initial states and that each action maps to `Issue`, `Spend`, `Bear`, `Void` or
  a stutter of the contract under the mapping of the `Props` modules.
- *`CodeMethod`.* Its steps are steps of `Flows` (`RunsOnFlows`), so the theorems above hold of
  it too. `ChainsCount` says that along the verifies of a flow dispatched one after another
  (`OneByOne`), each on the state the last one saved, the counter of the stored state is
  the number of failures; the bound on failures is a statement about finite cardinalities.
- *`Upstream`.* Likewise on `Flows`; a verifier is stored only where its own request put it
  (`VerifiersAreOwn`), and a subject comes from a code spent for it (`SubjectsAreTraded`).
- *`MethodCache`.* `CachesAreFresh`: what is cached is as new as what the server has applied, or was
  built across the application; a request carries that over to its answer.
- *`Keys`.* `FullLists`: whoever passed `ensureSigningKey` finds a row, and a row is never removed. On
  DynamoDB this fails, as `keys_unreachable` shows; `Components` has the other adapters.
- *`TokenStores`.* A row that is consumed has one winner who is done; what a revocation has
  yet to delete, has deleted or has missed covers what was there when it began.
  `RevocationsReachWhatIsThere` asks for the rows to be gone, not merely consumed.
- *`SessionStores`.* The fifty operations of the adapters are first shown to be one of a handful
  of statements (`AdaptersAreStatements`): put, delete, sweep what is expired, write back. `SameOrGone` says that
  row and promise agree or both mean "nothing", `CallsTell` what a call between its two
  statements still knows.
- *`Par`.* `TakenOnce`: the record and the requests that took it exclude each other.
  *`AccessTokens`.* `Lineage`: every live token carries the audience, the scopes and
  the login time of its root.
- *`Dpop`.* `TtlSpansTheWindow` is the arithmetic: floor division by `PerSecond`, for every
  resolution of the clock, loses less than a second at either end of the window.
- *`Passkey`, `Password`.* `VerifiesTell` and `OverlapsTell` say what a post that has read but
  not yet written knows unless another one overlapped it.
- *`Saml`.* `OnRecord`: a used assertion's request id is gone for good, or the record
  of the assertion lasts as long as it is valid; `Tells` keeps, for each stage of a
  post, what it learned of the scratch store.
- *`Client`.* `SessionKept`, as long as nothing excuses a loss: of the pairs that were made the
  newest alone is unspent, it is stored or in the hands of one call, and a call that was never
  crossed presents it.
- *`Scim`, repeated requests.* Everything but the patch of a user resolves to the same write
  whatever record was read, and such a write done twice is done once (`WritingTwice`,
  `PatchingTwice`); a group patch is among them, for either order in which a host applies its deltas.
- *`Scim`, patches.* That a list of operations of any length means what its operations mean one
  by one is an induction along the fold. The lemma `FoldsRun` says that a left fold is the last value of
  a run, for any operator: `Folding` takes it as a constant, and each fold of `ScimPatch` is an
  instance; the induction itself is over a set of numbers (`Climbing`, from the well-foundedness
  of `<`). For groups the relation kept is `Follows` for one operation without a path, which
  spreads into entries that all have its `op`, and `Means` for the request: the draft stands for the membership reached so far. For
  users, `Agree` relates, for one attribute, the draft of the whole patch to that of the
  operation alone: both have the same value for it, and a working copy (`name`, `emails`,
  `enterprise`) is up to date in each (`Settled`); every branch of `applyOperation` changes two
  agreeing drafts alike (`Alike`). How names merge and which e-mail entry is
  replaced stays opaque: both sides do the same. `PatchInv` carries the request from the read to
  the write: what is written is what was resolved, and the record has the attributes by then.
- *`Components`.* The part never changes (`PartStays`), so a behaviour satisfies `part = p`
  always or never, and if always it is a behaviour of that component (one lemma `...Run` for
  each). A theorem about the component, such as `UserPatchesMeanWhatTheySay`, thus becomes one about
  `Components`. The proofs about `Upstream` are in a module of their own, which `ComponentProofs`
  instantiates (`ProviderProofs`) and shows to speak of the same definitions.

`TypeOK` of `TokenGrants` is checked as well as proved; the other modules state their types
beside the proofs that need them.

## 7. What is only model-checked

- `EveryRequestIsAnswered`: fairness and `ENABLED` are beyond the prover.
- `RetriesRepeatNothing` for patches of users, on patches of one or two operations: it compares
  the same operations from two different records, so what `UpsertByType`, `Merged` and
  `Without` do to a list or a name would have to be proved idempotent, for a whole fold at once.
- The violations, which are counterexamples and need no proof.

## 8. Abstractions

Random values (codes, tokens, flow ids, kids) never collide: each is named by the request
that draws it, except the digits of one-time codes, which may. Hashing and encryption are
ideal. Texts, HTML, audit records and HTTP details are left out. In-memory stores do not
fail; failing statements are in `TokenStores`, `Keys`, `SessionStores`, `Saml`, `Passkey`,
`Password` and `Scim`. Each component's clock is one
global clock, save for `TokenStores` and `Client`. Signatures and certificates are flags; a
member list is a set; phone numbers and display names take the code path of
e-mail addresses and external ids. What is outside the repository (the host's directory, user
store and hooks, node-saml, authenticators) does whatever its port allows.

## 9. Plan

Written: `OneShot`, `TokenGrants`, `Flows`, `CodeMethod`, `MethodCache`, `Keys`,
`TokenStores`; then `SessionStores`, `Par`, `AccessTokens`, `Dpop`, `Saml`, `Passkey`,
`Password`, `Upstream`, `Client`, `ScimPatch`, `Scim` and their composition in `Components`;
then the theorems of section 6.

Theorems left, in this order: `RetriesRepeatNothing` for patches of users, from the idempotence of
`UpsertByType` along a fold; that the database adapters of `TokenStores` implement the tickets of
`OneShot` as the in-memory store does; that `Par` does, with a pushed request as a ticket and the
flow as its heir.

### Not modelled

- The state envelope and the encryption of codes (`domain/state-envelope.ts`, `crypto.ts`): an
  HMAC and an AES-GCM call. The ring of keys is the host's, and no adapter implements
  `rotateSigningKeys` or `rotateEncryptionKeys`.
- Dynamic registration (`domain/register.ts`) keeps nothing: the host's hook persists the client.
- Introspection, discovery and metadata answer from a token or the configuration alone.
- The discovery documents and key sets of OIDC providers, and the wrappers in `methods/providers`
  that fill in endpoints and scopes.
- XML and signature validation (external libraries), rendering, audit logs, routing, cookies and
  the assembly of drivers, which keep no state the properties could relate.
- Two hazards have no property: a transient failure of a build disables a method until the next
  configuration change, and `/revoke` answers 200 when the store failed; the code promises
  nothing better. A third, lists of one page on DynamoDB, would need a page size in every store.

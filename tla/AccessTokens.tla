---------------------------- MODULE AccessTokens ----------------------------
(***************************************************************************)
(* What the tokens of one grant say as they are refreshed and exchanged    *)
(* from tenant to tenant: exchangeToken, clientCredentialsGrant, and the   *)
(* part of mintTokens that copies a payload into access, refresh and id    *)
(* tokens.  Who may consume a refresh token is in TokenGrants; keys are in *)
(* Keys; here a chain stands for the refresh token that is live.           *)
(*                                                                         *)
(* An exchange awaits the host's exchangeAudience between reading the      *)
(* configuration of the subject token's tenant and that of the target, and *)
(* tenants are reconfigured meanwhile.  Times are whole ticks.             *)
(***************************************************************************)
EXTENDS Naturals, FiniteSets

CONSTANTS
  AccessTenants, AccessClients, Claims,
  AccessScopes,          \* with "openid" among them
  Audiences,             \* what a login may ask its tokens to be for
  AccessTtl,
  MaxAccessTime,         \* bounds the clock
  MaxIssued,             \* bounds the access tokens
  Changes,               \* what the host may write: [tenant, client, type]
  MaxEnrolments,         \* bounds how often it does
  FirstEnrolments,       \* the configurations the host may begin with
  Absent

VARIABLES
  accessNow,
  enrolled,      \* configuration: tenant, client -> its type, or Absent
  enrolments,    \* how often it changed
  root,          \* history: the grant all tokens descend from
  issued,        \* access tokens
  chains,        \* refresh tokens
  idTokens,
  exchange,      \* the exchange in progress
  vouched        \* history: [tenant, claim] a login or the host vouched for

accessVars == <<accessNow, enrolled, enrolments, root, issued, chains,
                idTokens, exchange, vouched>>

Types == {"public", "confidential", Absent}
AccessAssumption ==
  /\ FirstEnrolments \subseteq [AccessTenants -> [AccessClients -> Types]]
  /\ Changes \subseteq [tenant : AccessTenants, client : AccessClients, type : Types]
  /\ MaxEnrolments \in Nat
  /\ Absent \notin AccessClients \cup Audiences /\ Absent \notin Nat
  /\ Absent \notin [tenant : AccessTenants, client : AccessClients, claim : Claims,
                    scopes : SUBSET AccessScopes,
                    audience : AccessClients \cup Audiences \cup {Absent},
                    auth : Nat \cup {Absent}, kind : {"login", "m2m"}]

Init ==
  /\ accessNow = 1
  /\ enrolled \in FirstEnrolments
  /\ enrolments = 0
  /\ root = Absent
  /\ issued = {} /\ chains = {} /\ idTokens = {}
  /\ exchange = Absent
  /\ vouched = {}

Vouch(tenant, claim) == [tenant |-> tenant, claim |-> claim]

(* verifyClientCredentials over the configuration as it is read. *)
Authenticates(tenant, client, secret) ==
  /\ enrolled[tenant][client] # Absent
  /\ secret = (enrolled[tenant][client] = "confidential")

(* verifyAccessToken: the lifetime counts from the mint. *)
Verifies(token) == accessNow < token.at + AccessTtl

(***************************************************************************)
(* mintTokens.  A payload is [tenant, client, claim, scopes, audience,     *)
(* auth, kind]; audience and auth may be Absent.  A failing hook or store  *)
(* issues nothing; when the signing of the id_token fails nobody holds     *)
(* what was stored.                                                        *)
(***************************************************************************)
(* Variant for mutation: the refresh token is for its client's audience. *)
ChainOfClient(p) ==
  [p EXCEPT !.audience = Absent,
            !.auth = IF p.auth = Absent THEN accessNow ELSE p.auth]

Chain(p) == [p EXCEPT !.auth = IF p.auth = Absent THEN accessNow ELSE p.auth]

(* Whom the tokens are for: who was asked for, or else the client. *)
AudienceOf(p) == IF p.audience = Absent THEN p.client ELSE p.audience

AccessTokenOf(p) ==
  [tenant |-> p.tenant, claim |-> p.claim, scopes |-> p.scopes, auth |-> p.auth,
   kind |-> p.kind, at |-> accessNow,
   aud |-> AudienceOf(p)]

MintTokens(p, kept, skipRefresh) ==
  /\ Cardinality(issued) < MaxIssued
  /\ issued' = issued \cup {AccessTokenOf(p)}
  /\ chains' = IF skipRefresh THEN kept ELSE kept \cup {Chain(p)}
  /\ idTokens' = IF p.auth # Absent /\ "openid" \in p.scopes
                 THEN idTokens \cup {p} ELSE idTokens

Payload(tenant, client, claim, scopes, audience, auth, kind) ==
  [tenant |-> tenant, client |-> client, claim |-> claim, scopes |-> scopes,
   audience |-> audience, auth |-> auth, kind |-> kind]

Begins(p) ==
  /\ root = Absent
  /\ root' = p
  /\ vouched' = vouched \cup {Vouch(p.tenant, p.claim)}

(* exchangeCode after a login: the success callback vouches for the claim, *)
(* and the code carries the audience /authorize asked for, or none.        *)
Login(tenant, client, claim, scopes, audience) ==
  LET p == Payload(tenant, client, claim, scopes, audience, accessNow, "login")
  IN /\ \E secret \in BOOLEAN : Authenticates(tenant, client, secret)
     /\ Begins(p)
     /\ MintTokens(p, chains, FALSE)
     /\ UNCHANGED <<accessNow, enrolled, enrolments, exchange>>

(* clientCredentialsGrant: a confidential client, no end user, no chain. *)
ClientCredentialsGrant(tenant, client, claim, scopes) ==
  LET p == Payload(tenant, client, claim, scopes, Absent, Absent, "m2m")
  IN /\ enrolled[tenant][client] = "confidential"
     /\ Begins(p)
     /\ MintTokens(p, chains, TRUE)
     /\ UNCHANGED <<accessNow, enrolled, enrolments, exchange>>

(* refreshTokens: scopes may narrow, the rest is carried. *)
Refresh(chain, scopes, secret) ==
  /\ Authenticates(chain.tenant, chain.client, secret)
  /\ scopes \subseteq chain.scopes
  /\ MintTokens([chain EXCEPT !.scopes = scopes], chains \ {chain}, FALSE)
  /\ UNCHANGED <<accessNow, enrolled, enrolments, root, exchange, vouched>>

(***************************************************************************)
(* exchangeToken.  The caller is the token's audience unless it says who   *)
(* it is: a token for a resource takes a client that does.  A refusal      *)
(* changes nothing but ends the exchange.                                  *)
(***************************************************************************)
BeginExchange(token, client, secret, scopes, target) ==
  /\ exchange = Absent
  /\ Verifies(token)
  /\ Authenticates(token.tenant, client, secret)
  /\ scopes \subseteq token.scopes
  /\ exchange' = [pc |-> "asking", subject |-> token, client |-> client,
                  scopes |-> scopes, target |-> target, claim |-> Absent]
  /\ UNCHANGED <<accessNow, enrolled, enrolments, root, issued, chains,
                 idTokens, vouched>>

(* The host decides, and names the subject in the target tenant. *)
ExchangeAudience(claim) ==
  /\ exchange # Absent
  /\ exchange.pc = "asking"
  /\ exchange' = [exchange EXCEPT !.pc = "minting", !.claim = claim]
  /\ vouched' = vouched \cup {Vouch(exchange.target, claim)}
  /\ UNCHANGED <<accessNow, enrolled, enrolments, root, issued, chains, idTokens>>

(* Refused by the host, or the client is unknown in the target tenant. *)
ExchangeRefused ==
  /\ exchange # Absent
  /\ exchange.pc = "minting" => enrolled[exchange.target][exchange.client] = Absent
  /\ exchange' = Absent
  /\ UNCHANGED <<accessNow, enrolled, enrolments, root, issued, chains,
                 idTokens, vouched>>

Exchanged(x) ==
  Payload(x.target, x.client, x.claim, x.scopes,
          IF x.subject.aud = x.client THEN Absent ELSE x.subject.aud,
          x.subject.auth, x.subject.kind)

FinishExchange ==
  /\ exchange # Absent
  /\ exchange.pc = "minting"
  /\ enrolled[exchange.target][exchange.client] # Absent
  /\ MintTokens(Exchanged(exchange), chains, FALSE)
  /\ exchange' = Absent
  /\ UNCHANGED <<accessNow, enrolled, enrolments, root, vouched>>

(* The host writes a tenant's configuration. *)
Enrol(change) ==
  /\ enrolments < MaxEnrolments
  /\ enrolled' = [enrolled EXCEPT ![change.tenant][change.client] = change.type]
  /\ enrolments' = enrolments + 1
  /\ UNCHANGED <<accessNow, root, issued, chains, idTokens, exchange, vouched>>

Tick ==
  /\ accessNow < MaxAccessTime
  /\ accessNow' = accessNow + 1
  /\ UNCHANGED <<enrolled, enrolments, root, issued, chains, idTokens, exchange,
                 vouched>>

Next ==
  \/ \E t \in AccessTenants, c \in AccessClients, claim \in Claims,
        scopes \in SUBSET AccessScopes :
       \/ \E audience \in Audiences \cup {Absent} : Login(t, c, claim, scopes, audience)
       \/ ClientCredentialsGrant(t, c, claim, scopes)
  \/ \E chain \in chains, scopes \in SUBSET AccessScopes, secret \in BOOLEAN :
       Refresh(chain, scopes, secret)
  \/ \E token \in issued, c \in AccessClients, secret \in BOOLEAN,
        scopes \in SUBSET AccessScopes, target \in AccessTenants :
       BeginExchange(token, c, secret, scopes, target)
  \/ \E claim \in Claims : ExchangeAudience(claim)
  \/ ExchangeRefused
  \/ FinishExchange
  \/ \E change \in Changes : Enrol(change)
  \/ Tick

Spec == Init /\ [][Next]_accessVars

----------------------------------------------------------------------------
(* However often tokens are refreshed and exchanged, by whatever clients   *)
(* and while tenants change: a token is for whom the first one was for     *)
(* (the audience the login asked for, or its client), its scopes were      *)
(* granted first, its kind and (after a login) the time of the login are   *)
(* those of the grant, and its subject was vouched for in its own tenant   *)
(* (token-exchange.ts:196-226, token.ts:398-452, refresh.ts:206-222).      *)
Descends(t, audience) ==
  /\ audience = AudienceOf(root)
  /\ t.scopes \subseteq root.scopes
  /\ t.kind = root.kind
  /\ root.kind = "login" => t.auth = root.auth
  /\ Vouch(t.tenant, t.claim) \in vouched

TokensKeepTheirLineage ==
  /\ \A t \in issued : Descends(t, t.aud)
  /\ \A c \in chains : Descends(c, AudienceOf(c))

(* "OIDC id_token issuance - only when the grant carried an end-user ...   *)
(* Client-credentials never satisfies the first condition" (token.ts:457). *)
IdTokensNameALogin == \A t \in idTokens : t.kind = "login"
=============================================================================

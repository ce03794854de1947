---------------------------- MODULE TokenGrants ----------------------------
(***************************************************************************)
(* The token endpoint and the endpoints that revoke: exchangeCode,         *)
(* refreshTokens, mintTokens, revokeToken and revokeAllForSubject, running *)
(* concurrently over the TokenStore of adapters/memory/token-store.ts.     *)
(*                                                                         *)
(* Every await of the code is a point where other requests run.  A request *)
(* is a process whose steps are the TokenStore calls it makes, in order;   *)
(* the computation between two calls touches only the request's own data,  *)
(* so it is folded into the step before it.  A TokenStore method of the    *)
(* in-memory adapter runs to completion in one turn of the event loop.     *)
(*                                                                         *)
(* Abstractions.  A subject stands for a (tenantId, subjectId) pair.  A    *)
(* binding stands for the redirect_uri and PKCE challenge of /authorize: a *)
(* request presents the matching redirect_uri and verifier, or not.  The   *)
(* tenant configuration does not change.  Randomly drawn codes, tokens and *)
(* family ids are values never drawn before.                               *)
(***************************************************************************)
EXTENDS Naturals

CONSTANTS
  Codes, Tokens, Families,  \* what newCodeId, randomToken, randomId draw from
  Requests,                 \* one element per request the server handles
  Clients,                  \* registered clients of the tenant
  Confidential,             \* those with a secret; the others are public
  DpopRequired,             \* those with ClientConfig.dpopRequired
  Subjects, Scopes, Bindings,
  Keys,                     \* DPoP key thumbprints
  CodeTtl, RefreshTtl,      \* AUTH_CODE_TTL_MS, refreshTtl in clock ticks
  ReuseWindow,              \* reuseWindowMs in clock ticks
  MaxTime,                  \* bound on the clock
  None

ASSUME GrantsAssumption ==
  /\ Codes \cap Tokens = {}
  /\ Confidential \subseteq Clients /\ DpopRequired \subseteq Clients
  /\ {CodeTtl, RefreshTtl, ReuseWindow, MaxTime} \subseteq Nat

ASSUME NoneAssumption ==
  None \notin Codes \cup Tokens \cup Families \cup Clients \cup Keys \cup Nat

VARIABLES
  now,         \* the clock every component shares
  codes,       \* MemoryTokenStore.#codes: what is stored under a code
  refresh,     \* MemoryTokenStore.#refresh: what is stored under a token
  req,         \* the requests being handled, and what became of them
  cut          \* families that revokeFamily or revokeBySubject was called on

store == <<codes, refresh>>
vars == <<now, codes, refresh, req, cut>>

(* RefreshTokenPayload, less the fields no property tells apart. *)
Grant == [client : Clients, subject : Subjects, scopes : SUBSET Scopes,
          jkt : Keys \cup {None}, family : Families]

StoredRefresh == [grant : Grant, expiresAt : Nat, consumedAt : Nat \cup {None}]

StoredCode == [client : Clients, subject : Subjects, scopes : SUBSET Scopes,
               binding : Bindings, expiresAt : Nat]

(* No grant has the value None: a lemma of every type argument below. *)
ASSUME NoneIsNoRow == None \notin Grant \cup StoredRefresh \cup StoredCode

RequestRecord ==
  [pc : {"idle", "peeked", "minting", "saved", "done"},
   op : {"none", "exchange", "refresh", "revoke"},
   input : Codes \cup Tokens \cup {None},   \* the credential presented
   ask : SUBSET Scopes,                     \* the scopes asked for
   proof : Keys \cup {None},                \* thumbprint of the DPoP proof
   won : BOOLEAN,                           \* did this request consume input?
   at : Nat,                                \* when minting began
   grant : Grant \cup {None},               \* what it mints
   heir : Tokens \cup {None},               \* the token it stored
   out : {"none", "ok", "rejected", "gone", "reuse", "failed", "revoked",
          "noop"}]

(* Past the peek a request holds a refresh token; while minting, a grant. *)
Request ==
  {q \in RequestRecord : /\ q.pc = "peeked" => q.input \in Tokens
                         /\ q.pc = "minting" => q.grant # None}

Idle == [pc |-> "idle", op |-> "none", input |-> None, ask |-> {},
         proof |-> None, won |-> FALSE, at |-> 0, grant |-> None,
         heir |-> None, out |-> "none"]

TypeOK ==
  /\ now \in Nat
  /\ codes \in [Codes -> StoredCode \cup {None}]
  /\ refresh \in [Tokens -> StoredRefresh \cup {None}]
  /\ req \in [Requests -> Request]
  /\ cut \subseteq Families

Init ==
  /\ now = 0
  /\ codes = [c \in Codes |-> None]
  /\ refresh = [t \in Tokens |-> None]
  /\ req = [r \in Requests |-> Idle]
  /\ cut = {}

----------------------------------------------------------------------------
(* Values randomId and randomToken have not drawn yet. *)
FreshCode(c) == codes[c] = None /\ \A r \in Requests : req[r].input # c
FreshToken(t) == \A r \in Requests : req[r].heir # t
FreshFamily(f) ==
  \A r \in Requests : req[r].grant # None => req[r].grant.family # f

(* verifyClientCredentials: a public client must present no secret, a      *)
(* confidential one the right secret.                                      *)
Secrets == {"none", "right", "wrong"}
Verified(client, secret) ==
  secret = IF client \in Confidential THEN "right" ELSE "none"

(* MemoryTokenStore.peekRefresh finds the token; consumedAt is not looked at. *)
Peekable(t) == refresh[t] # None /\ now < refresh[t].expiresAt

(* Variant for mutation: the claim looks at the expiry only. *)
ClaimableAgain(t) == refresh[t] # None /\ now < refresh[t].expiresAt

(* The three ways MemoryTokenStore.consumeRefresh answers. *)
Claimable(t) ==
  /\ refresh[t] # None
  /\ refresh[t].consumedAt = None
  /\ now < refresh[t].expiresAt

(* Variant for mutation: an expired row counts as reuse. *)
ReusedOrExpired(t, window) == refresh[t] # None /\ ~Claimable(t)

Reused(t, window) ==
  /\ refresh[t] # None
  /\ refresh[t].consumedAt # None
  /\ now - refresh[t].consumedAt <= window

(* Variants for mutation: the claim is not recorded; it is back-dated. *)
ClaimUnrecorded(t) == UNCHANGED refresh
ClaimBackdated(t) == refresh' = [refresh EXCEPT ![t].consumedAt = now - 1]

Claim(t) == refresh' = [refresh EXCEPT ![t].consumedAt = now]

(* MemoryTokenStore.revokeFamily and revokeBySubject delete rows, the      *)
(* consumed ones included.                                                 *)
InFamily(t, f) == refresh[t] # None /\ refresh[t].grant.family = f
OfSubject(t, s) == refresh[t] # None /\ refresh[t].grant.subject = s

RevokeFamily(f) ==
  /\ refresh' = [t \in Tokens |-> IF InFamily(t, f) THEN None ELSE refresh[t]]
  /\ cut' = cut \cup {f}

Becomes(r, q) == req' = [req EXCEPT ![r] = q]

(* The response goes out; the handler's local variables are gone. *)
Answered(q, result) ==
  [q EXCEPT !.pc = "done", !.out = result, !.ask = {}, !.at = 0]

Answer(r, result) == Becomes(r, Answered(req[r], result))

----------------------------------------------------------------------------
(* A completed login stores a code: saveEncryptedCode, called by the       *)
(* authorize, callback and method-route handlers.                          *)
SaveCode(c) ==
  /\ FreshCode(c)
  /\ \E client \in Clients, s \in Subjects, sc \in SUBSET Scopes,
        b \in Bindings :
       codes' = [codes EXCEPT ![c] =
                   [client |-> client, subject |-> s, scopes |-> sc,
                    binding |-> b, expiresAt |-> now + CodeTtl]]
  /\ UNCHANGED <<now, refresh, req, cut>>

(***************************************************************************)
(* exchangeCode.  The code is consumed before anything is checked, so every *)
(* refusal after that leaves it spent.                                     *)
(***************************************************************************)
ExchangeAccepts(row, client, secret, binding, proof) ==
  /\ client = row.client
  /\ Verified(client, secret)
  /\ client \in DpopRequired => proof # None
  /\ binding = row.binding

(* consumeCode: unknown or already consumed. *)
ExchangeUnknown(r, c) ==
  /\ req[r].pc = "idle"
  /\ codes[c] = None
  /\ Becomes(r, Answered([Idle EXCEPT !.op = "exchange"], "gone"))
  /\ UNCHANGED <<now, store, cut>>

(* consumeCode deletes the row before it looks at the expiry. *)
ExchangeExpired(r, c) ==
  /\ req[r].pc = "idle"
  /\ codes[c] # None
  /\ now >= codes[c].expiresAt
  /\ codes' = [codes EXCEPT ![c] = None]
  /\ Becomes(r, Answered([Idle EXCEPT !.op = "exchange", !.input = c], "gone"))
  /\ UNCHANGED <<now, refresh, cut>>

(* The code is consumed and the request is then refused or goes on to mint *)
(* in a family of its own.                                                 *)
ExchangeConsume(r, c, client, secret, binding, proof) ==
  LET row == codes[c]
      won == [Idle EXCEPT !.op = "exchange", !.input = c, !.proof = proof,
                          !.won = TRUE]
  IN /\ req[r].pc = "idle"
     /\ row # None
     /\ now < row.expiresAt
     /\ codes' = [codes EXCEPT ![c] = None]
     /\ \/ /\ ~ExchangeAccepts(row, client, secret, binding, proof)
           /\ Becomes(r, Answered(won, "rejected"))
        \/ /\ ExchangeAccepts(row, client, secret, binding, proof)
           /\ \E f \in Families :
                /\ FreshFamily(f)
                /\ Becomes(r, [won EXCEPT
                     !.pc = "minting", !.at = now,
                     !.grant = [client |-> client, subject |-> row.subject,
                                scopes |-> row.scopes, jkt |-> proof,
                                family |-> f]])
     /\ UNCHANGED <<now, refresh, cut>>

(***************************************************************************)
(* refreshTokens.  Peek, authenticate, check the DPoP key and the scopes,  *)
(* and only then consume.                                                  *)
(***************************************************************************)
(* Variants for mutation: any DPoP key will do; the scopes are left to the *)
(* check after the consume.                                                *)
RefreshAcceptsAnyKey(g, client, secret, proof, asked) ==
  /\ IF client = None THEN g.client \notin Confidential
                      ELSE client = g.client /\ Verified(client, secret)
  /\ asked \subseteq g.scopes

RefreshAcceptsAnyScope(g, client, secret, proof, asked) ==
  /\ IF client = None THEN g.client \notin Confidential
                      ELSE client = g.client /\ Verified(client, secret)
  /\ g.jkt # None => proof = g.jkt

RefreshAccepts(g, client, secret, proof, asked) ==
  /\ IF client = None THEN g.client \notin Confidential
                      ELSE client = g.client /\ Verified(client, secret)
  /\ g.jkt # None => proof = g.jkt
  /\ asked \subseteq g.scopes

RefreshPeek(r, t, client, secret, proof, asked) ==
  /\ req[r].pc = "idle"
  /\ \/ /\ Peekable(t)
        /\ RefreshAccepts(refresh[t].grant, client, secret, proof, asked)
        /\ Becomes(r, [Idle EXCEPT !.pc = "peeked", !.op = "refresh",
                         !.input = t, !.ask = asked, !.proof = proof])
     \/ /\ Peekable(t)
        /\ ~RefreshAccepts(refresh[t].grant, client, secret, proof, asked)
        /\ Becomes(r, Answered([Idle EXCEPT !.op = "refresh"], "rejected"))
     \/ /\ ~Peekable(t)
        /\ Becomes(r, Answered([Idle EXCEPT !.op = "refresh"], "gone"))
  /\ UNCHANGED <<now, store, cut>>

Peeked(r, op) == req[r].pc = "peeked" /\ req[r].op = op

(* consumeRefresh claims the token; the scopes are checked once more        *)
(* against the consumed payload.                                           *)
RefreshClaim(r) ==
  LET t == req[r].input
      g == refresh[t].grant
  IN /\ Peeked(r, "refresh")
     /\ Claimable(t)
     /\ Claim(t)
     /\ \/ /\ req[r].ask \subseteq g.scopes
           /\ Becomes(r, [req[r] EXCEPT !.pc = "minting", !.won = TRUE,
                            !.at = now, !.ask = {},
                            !.grant = [g EXCEPT !.scopes = req[r].ask]])
        \/ /\ ~(req[r].ask \subseteq g.scopes)
           /\ Becomes(r, Answered([req[r] EXCEPT !.won = TRUE], "rejected"))
     /\ UNCHANGED <<now, codes, cut>>

(* A second presentation within the window: the family is revoked and      *)
(* refresh_reuse_detected is audited.                                      *)
RefreshReuse(r) ==
  LET t == req[r].input
  IN /\ Peeked(r, "refresh")
     /\ Reused(t, ReuseWindow)
     /\ RevokeFamily(refresh[t].grant.family)
     /\ Answer(r, "reuse")
     /\ UNCHANGED <<now, codes>>

(* Variant for mutation: a token consumed long ago is not answered. *)
RefreshMissUnknown(r) ==
  /\ Peeked(r, "refresh")
  /\ refresh[req[r].input] = None
  /\ Answer(r, "gone")
  /\ UNCHANGED <<now, store, cut>>

(* Unknown by now, expired, or consumed longer ago than the window. *)
RefreshMiss(r) ==
  LET t == req[r].input
  IN /\ Peeked(r, "refresh")
     /\ ~Claimable(t) /\ ~Reused(t, ReuseWindow)
     /\ Answer(r, "gone")
     /\ UNCHANGED <<now, store, cut>>

(***************************************************************************)
(* mintTokens, for both grants.  The host's hooks and the signing run      *)
(* first and may fail; saveRefresh stores the new token; the id_token is   *)
(* signed after that and may fail too.                                     *)
(***************************************************************************)
MintFails(r) ==
  /\ req[r].pc \in {"minting", "saved"}
  /\ Answer(r, "failed")
  /\ UNCHANGED <<now, store, cut>>

(* issuedAt is read when mintTokens starts, some time after the consume. *)
SaveRefresh(r, t) ==
  /\ req[r].pc = "minting"
  /\ FreshToken(t)
  /\ \E issuedAt \in req[r].at .. now :
       refresh' = [refresh EXCEPT ![t] =
                     [grant |-> req[r].grant,
                      expiresAt |-> issuedAt + RefreshTtl,
                      consumedAt |-> None]]
  /\ Becomes(r, [req[r] EXCEPT !.pc = "saved", !.heir = t, !.at = 0])
  /\ UNCHANGED <<now, codes, cut>>

Respond(r) ==
  /\ req[r].pc = "saved"
  /\ Answer(r, "ok")
  /\ UNCHANGED <<now, store, cut>>

(***************************************************************************)
(* revokeToken: peek, authenticate, then consume with a window of zero.    *)
(* A token of another client is left alone, and the answer is a success    *)
(* like the answer for a token that is unknown.                            *)
(***************************************************************************)
RevokePeek(r, t, client, secret) ==
  LET owner == refresh[t].grant.client
      anonymous == client = None \/ secret = "none"
      begun == [Idle EXCEPT !.op = "revoke", !.input = t]
  IN /\ req[r].pc = "idle"
     /\ \/ /\ ~Peekable(t)
           /\ Becomes(r, Answered(begun, "noop"))
        \/ /\ Peekable(t)
           /\ owner \in Confidential /\ anonymous
           /\ Becomes(r, Answered(begun, "rejected"))
        \/ /\ Peekable(t)
           /\ ~(owner \in Confidential /\ anonymous)
           /\ client # None /\ client # owner
           /\ Becomes(r, Answered(begun, "noop"))
        \/ /\ Peekable(t)
           /\ client = owner /\ ~Verified(owner, secret)
           /\ ~(owner \in Confidential /\ anonymous)
           /\ Becomes(r, Answered(begun, "rejected"))
        \/ /\ Peekable(t)
           /\ \/ client = None /\ owner \notin Confidential
              \/ client = owner /\ Verified(owner, secret)
           /\ Becomes(r, [begun EXCEPT !.pc = "peeked"])
     /\ UNCHANGED <<now, store, cut>>

RevokeConsume(r) ==
  LET t == req[r].input
  IN /\ Peeked(r, "revoke")
     /\ \/ /\ Claimable(t)
           /\ Claim(t)
           /\ Becomes(r, Answered([req[r] EXCEPT !.won = TRUE], "revoked"))
           /\ UNCHANGED cut
        \/ /\ Reused(t, 0)
           /\ RevokeFamily(refresh[t].grant.family)
           /\ Answer(r, "noop")
        \/ /\ ~Claimable(t) /\ ~Reused(t, 0)
           /\ Answer(r, "noop")
           /\ UNCHANGED <<refresh, cut>>
     /\ UNCHANGED <<now, codes>>

(* revokeAllForSubject: called by /end_session, by the upstream-logout path *)
(* and by the host.                                                        *)
RevokeSubject(s) ==
  /\ \E t \in Tokens : OfSubject(t, s)
  /\ refresh' = [t \in Tokens |-> IF OfSubject(t, s) THEN None ELSE refresh[t]]
  /\ cut' = cut \cup
       {f \in Families : \E t \in Tokens : OfSubject(t, s) /\ InFamily(t, f)}
  /\ UNCHANGED <<now, codes, req>>

Tick ==
  /\ now < MaxTime
  /\ now' = now + 1
  /\ UNCHANGED <<store, req, cut>>

----------------------------------------------------------------------------
Exchange(r) ==
  \E c \in Codes :
    \/ ExchangeUnknown(r, c)
    \/ ExchangeExpired(r, c)
    \/ \E client \in Clients, secret \in Secrets, b \in Bindings,
          proof \in Keys \cup {None} :
         ExchangeConsume(r, c, client, secret, b, proof)

Refresh(r) ==
  \E t \in Tokens, client \in Clients \cup {None}, secret \in Secrets,
     proof \in Keys \cup {None}, asked \in SUBSET Scopes :
    RefreshPeek(r, t, client, secret, proof, asked)

Revoke(r) ==
  \E t \in Tokens, client \in Clients \cup {None}, secret \in Secrets :
    RevokePeek(r, t, client, secret)

(* What the server does for a request it has begun to handle. *)
Continue(r) ==
  \/ RefreshClaim(r)
  \/ RefreshReuse(r)
  \/ RefreshMiss(r)
  \/ MintFails(r)
  \/ \E t \in Tokens : SaveRefresh(r, t)
  \/ Respond(r)
  \/ RevokeConsume(r)

Next ==
  \/ \E c \in Codes : SaveCode(c)
  \/ \E r \in Requests : Exchange(r) \/ Refresh(r) \/ Revoke(r) \/ Continue(r)
  \/ \E s \in Subjects : RevokeSubject(s)
  \/ Tick

Spec == Init /\ [][Next]_vars

(* The event loop eventually runs the continuation of every settled await. *)
(* Hooks and stores are assumed to settle.                                 *)
FairSpec == Spec /\ \A r \in Requests : WF_vars(Continue(r))
============================================================================

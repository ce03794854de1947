------------------------------ MODULE Upstream ------------------------------
(***************************************************************************)
(* A login at another provider (methods/oauth2-generic.ts, which every     *)
(* OAuth2 and OIDC provider wraps), running on the flows of module Flows.  *)
(*                                                                         *)
(* The provider's answer arrives at /cb with the flow's envelope, or, with *)
(* the flow's cookie alone, at the method's own /callback route: there the *)
(* flow is read and not yet consumed.  In both cases the code in the       *)
(* answer may be any the provider has issued, for this flow or another.    *)
(*                                                                         *)
(* A verifier and its challenge are named by the authorize request that    *)
(* drew it, and the provider's code by the flow whose redirect it answers. *)
(* The signature and audience of the id_token are not told apart from      *)
(* other reasons to fail.                                                  *)
(***************************************************************************)
EXTENDS Flows

CONSTANT Accounts   \* of users, at the provider

VARIABLES
  pkce,      \* whether the method was built with pkce = "S256"
  granted,   \* granted[f]: the provider's code for the redirect of flow f
  brought,   \* brought[r]: the code in the answer that request r carries
  subject    \* subject[r]: whose tokens request r got for it

UpstreamAssumption == None \notin [account : Accounts, spent : BOOLEAN]

upstreamVars == <<vars, pkce, granted, brought, subject>>

UpstreamInit ==
  /\ Init
  /\ pkce \in BOOLEAN
  /\ granted = [f \in Requests |-> None]
  /\ brought = [r \in Requests |-> None]
  /\ subject = [r \in Requests |-> None]

Own == <<granted, brought, subject>>
Redirected(r) == req[r].pc = "handling" /\ req[r].op = "authorize"
Answered(r) == req[r].pc = "handling" /\ req[r].op \in {"callback", "route"}

----------------------------------------------------------------------------
StartLogin(r) ==
  /\ \E a \in Ask : StartAuthorize(r, a)
  /\ UNCHANGED <<pkce, Own>>

(* Variant for mutation: one verifier, drawn when the method is built. *)
DrawnOnce(f) == "verifier"

(* The verifier drawn for flow f. *)
Verifier(f) == f

(* buildAuthorizeRedirect: with PKCE the verifier is saved before the      *)
(* redirect goes out, without it nothing is saved.                         *)
BuildAuthorizeRedirect(r) ==
  /\ Redirected(r)
  /\ IF pkce THEN HandlerSaves(r) ELSE HandlerChallenges(r)
  /\ UNCHANGED <<pkce, Own>>

(* A user follows the redirect and signs in. *)
Grant(f, account) ==
  /\ Surfaced(f) /\ granted[f] = None
  /\ granted' = [granted EXCEPT ![f] = [account |-> account, spent |-> FALSE]]
  /\ UNCHANGED <<vars, pkce, brought, subject>>

(* Any answer reaches the server: with a code, or (None) an error or       *)
(* nothing at all.                                                         *)
Bring(r, code) ==
  /\ code # None => granted[code] # None
  /\ brought' = [brought EXCEPT ![r] = code]
  /\ UNCHANGED <<pkce, granted, subject>>

AtCallback(r, f, code) ==
  /\ \/ \E host \in Hosts, m \in Methods : CallbackConsume(r, f, host, m)
     \/ CallbackReplayed(r, f)
  /\ Bring(r, code)

AtRoute(r, f, code) ==
  /\ \E h \in Handler : RouteRead(r, f, h)
  /\ Bring(r, code)

----------------------------------------------------------------------------
(* exchangeAndSucceed.  The provider trades a code once, for the verifier  *)
(* of the challenge it came with.                                          *)
Fits(r) ==
  pkce => req[r].seen # None /\ Verifier(req[r].seen) = Verifier(brought[r])

ExchangeCode(r) ==
  LET code == brought[r]
  IN /\ Answered(r) /\ code # None /\ subject[r] = None
     /\ ~granted[code].spent /\ Fits(r)
     /\ granted' = [granted EXCEPT ![code].spent = TRUE]
     /\ subject' = [subject EXCEPT ![r] = granted[code].account]
     /\ UNCHANGED <<vars, pkce, brought>>

(* The method does not load; or no code, a refusal, an answer lost after   *)
(* the code was traded, an id_token that does not verify, no subject.      *)
Fails(r) ==
  /\ HandlerFails(r)
  /\ UNCHANGED <<pkce, Own>>

Succeed(r) ==
  /\ Answered(r) /\ subject[r] # None
  /\ CallbackSucceeds(r) \/ FlowSucceeds(r)
  /\ UNCHANGED <<pkce, Own>>

Framework(r) ==
  /\ Surface(r) \/ IssueCode(r) \/ IssueFails(r)
  /\ UNCHANGED <<pkce, Own>>

UpstreamTick == Tick /\ UNCHANGED <<pkce, Own>>

UpstreamNext ==
  \/ UpstreamTick
  \/ \E r \in Requests :
       \/ StartLogin(r) \/ BuildAuthorizeRedirect(r)
       \/ \E account \in Accounts : Grant(r, account)
       \/ \E f \in Requests, code \in Requests \cup {None} :
            AtCallback(r, f, code) \/ AtRoute(r, f, code)
       \/ ExchangeCode(r) \/ Fails(r) \/ Succeed(r)
       \/ Framework(r)

UpstreamSpec == UpstreamInit /\ [][UpstreamNext]_upstreamVars

----------------------------------------------------------------------------
(* A code goes to the app in exchange for one answer of the provider, and  *)
(* with PKCE that answer is the one to this flow's own redirect: a code    *)
(* from another login is of no use, at /cb or at the route                 *)
(* (buildAuthorizeRedirect, exchangeAndSucceed).                           *)
LoginsAnswerTheirRedirect ==
  \A r \in Requests :
    req[r].out = "code" =>
      /\ brought[r] # None /\ subject[r] = granted[brought[r]].account
      /\ pkce => brought[r] = req[r].flow
      /\ \A q \in Requests \ {r} :
           req[q].out = "code" => brought[q] # brought[r] /\ req[q].flow # req[r].flow

(* Conversely the verifier is there when the provider's answer to this     *)
(* flow comes: it was durable before the redirect went out.                *)
OwnAnswersFit ==
  \A r \in Requests : Answered(r) /\ brought[r] = req[r].flow => Fits(r)

AnswersFitTheirFlow == LoginsAnswerTheirRedirect /\ OwnAnswersFit
=============================================================================

-------------------------------- MODULE Par --------------------------------
(***************************************************************************)
(* Pushed authorization requests (domain/par.ts, http/handlers/par.ts) and *)
(* the part of /authorize that takes them up and that offers a choice of   *)
(* methods (http/handlers/authorize.ts, ui/picker.ts).  A request_uri      *)
(* names its client but no tenant; /authorize consumes it before it looks  *)
(* at anything else, in the in-memory store, the only one that can.  A     *)
(* request works on the registrations it found when it came in.            *)
(***************************************************************************)
EXTENDS Naturals, FiniteSets

CONSTANTS
  Nothing,
  ParTenants, ParClients,
  ManyMethods,       \* tenants with more than one enabled method
  Registrations,     \* the kinds of clients
  Confidential,      \* those that authenticate
  MustPush,          \* those with requirePushedAuthorizationRequests
  RequestUris,
  AuthorizeRequests,
  ParTtl,
  MaxParTime,        \* bounds the clock
  MaxChanges         \* bounds the changes of registrations

(* What varies in a request besides its client: does it name a method, and *)
(* does it ask for claims.                                                 *)
Params == [method : BOOLEAN, claims : BOOLEAN]

PushAssumption ==
  /\ ParTtl \in Nat /\ MaxChanges \in Nat
  /\ Nothing \notin RequestUris
  /\ Nothing \notin [tenant : ParTenants, client : ParClients, params : Params]

VARIABLES
  parNow,
  registered,        \* tenant -> client -> registration or Nothing
  changes,
  par,               \* the store: request_uri -> [client, params, expires]
  pushedBy,          \* history: request_uri -> [tenant, client, params]
  authorizes,        \* requests in progress
  opened             \* history: the requests that were given a flow

parVars == <<parNow, registered, changes, par, pushedBy, authorizes, opened>>

(* asked is history: the parameters before a method was picked.            *)
NoAuthorize == [pc |-> "idle", uri |-> Nothing, tenant |-> Nothing,
                client |-> Nothing, kind |-> Nothing, params |-> Nothing,
                asked |-> Nothing]

Init ==
  /\ parNow = 0
  /\ registered \in [ParTenants -> [ParClients -> Registrations \cup {Nothing}]]
  /\ changes = 0
  /\ par = [u \in RequestUris |-> Nothing]
  /\ pushedBy = [u \in RequestUris |-> Nothing]
  /\ authorizes = [r \in AuthorizeRequests |-> NoAuthorize]
  /\ opened = {}

----------------------------------------------------------------------------
(* pushAuthorizationRequest: the client authenticates in its tenant; the   *)
(* body must not name another one.                                         *)
Authenticates(kind, secret) ==
  kind # Nothing /\ secret = (IF kind \in Confidential THEN "right" ELSE "none")

PushAuthorizationRequest(u) ==
  /\ pushedBy[u] = Nothing
  /\ \E t \in ParTenants, c \in ParClients, named \in ParClients \cup {Nothing},
        secret \in {"right", "wrong", "none"}, params \in Params :
       /\ Authenticates(registered[t][c], secret)
       /\ named \in {c, Nothing}
       /\ par' = [par EXCEPT ![u] =
                    [client |-> c, params |-> params, expires |-> parNow + ParTtl]]
       /\ pushedBy' = [pushedBy EXCEPT ![u] =
                         [tenant |-> t, client |-> c, params |-> params]]
  /\ UNCHANGED <<parNow, registered, changes, authorizes, opened>>

Becomes(r, q) == authorizes' = [authorizes EXCEPT ![r] = q]
Ends(r) == Becomes(r, [authorizes[r] EXCEPT !.pc = "done"])
NothingPushed == UNCHANGED <<parNow, registered, changes, par, pushedBy>>

(* /authorize with a request_uri.                                          *)
AuthorizePushed(r) ==
  /\ authorizes[r].pc = "idle"
  /\ \E u \in RequestUris, t \in ParTenants, c \in ParClients :
       /\ pushedBy[u] # Nothing
       /\ Becomes(r, [NoAuthorize EXCEPT !.pc = "consume", !.uri = u, !.tenant = t,
                        !.client = c, !.kind = registered[t][c]])
  /\ UNCHANGED opened /\ NothingPushed

(* Without one, it is refused to a client that must push.                  *)
AuthorizeDirectly(r) ==
  /\ authorizes[r].pc = "idle"
  /\ \E t \in ParTenants, c \in ParClients, params \in Params :
       LET q == [NoAuthorize EXCEPT !.tenant = t, !.client = c,
                   !.kind = registered[t][c], !.params = params, !.asked = params]
       IN Becomes(r, [q EXCEPT !.pc = IF q.kind \in MustPush THEN "done" ELSE "start"])
  /\ UNCHANGED opened /\ NothingPushed

(* Variant for mutation: consumePar leaves the record where it is. *)
ReadPar(u) == UNCHANGED par

(* consumePar: gone, whether it has expired or not, and before its client  *)
(* is compared with the one in the query.                                  *)
ConsumePar(u) == par' = [par EXCEPT ![u] = Nothing]

Rehydrate(r) ==
  LET q == authorizes[r]
      u == q.uri
  IN /\ q.pc = "consume"
     /\ ConsumePar(u)
     /\ IF par[u] # Nothing /\ parNow < par[u].expires /\ par[u].client = q.client
        THEN Becomes(r, [q EXCEPT !.pc = "start", !.params = par[u].params,
                                  !.asked = par[u].params])
        ELSE Ends(r)
     /\ UNCHANGED <<parNow, registered, changes, pushedBy, opened>>

(* startAuthorize, as far as it matters here: a client of this tenant is   *)
(* given a flow if the method is clear, a page to pick one on otherwise,   *)
(* or something else is wrong.                                             *)
StartAuthorize(r) ==
  LET q == authorizes[r]
  IN /\ q.pc = "start"
     /\ IF q.kind = Nothing THEN Ends(r) /\ UNCHANGED opened
        ELSE \/ Ends(r) /\ UNCHANGED opened
             \/ /\ q.params.method \/ q.tenant \notin ManyMethods
                /\ opened' = opened \cup {[request |-> r, of |-> q]}
                /\ Ends(r)
             \/ /\ ~q.params.method /\ q.tenant \in ManyMethods
                /\ Becomes(r, [q EXCEPT !.pc = "picker"]) /\ UNCHANGED opened
     /\ NothingPushed

(* A link of that page: a new request, without a request_uri, with the     *)
(* parameters of the page's context, which has no claims.                  *)
BuildMethodLink(params) == [method |-> TRUE, claims |-> FALSE]

FollowLink(r) ==
  LET q == authorizes[r]
      kind == registered[q.tenant][q.client]
      again == [q EXCEPT !.uri = Nothing, !.kind = kind,
                         !.params = BuildMethodLink(q.params)]
  IN /\ q.pc = "picker"
     /\ Becomes(r, [again EXCEPT !.pc = IF kind \in MustPush THEN "done" ELSE "start"])
     /\ UNCHANGED opened /\ NothingPushed

(* The host changes a registration. *)
Reconfigure ==
  /\ changes < MaxChanges
  /\ changes' = changes + 1
  /\ \E t \in ParTenants, c \in ParClients, k \in Registrations \cup {Nothing} :
       registered' = [registered EXCEPT ![t][c] = k]
  /\ UNCHANGED <<parNow, par, pushedBy, authorizes, opened>>

Tick ==
  /\ parNow < MaxParTime
  /\ parNow' = parNow + 1
  /\ UNCHANGED <<registered, changes, par, pushedBy, authorizes, opened>>

Next ==
  \/ \E u \in RequestUris : PushAuthorizationRequest(u)
  \/ \E r \in AuthorizeRequests :
       \/ AuthorizePushed(r) \/ AuthorizeDirectly(r) \/ Rehydrate(r)
       \/ StartAuthorize(r) \/ FollowLink(r)
  \/ Reconfigure \/ Tick

Spec == Init /\ [][Next]_parVars

----------------------------------------------------------------------------
(* A pushed request opens one flow at most, for the client that pushed it  *)
(* and with what it pushed, whoever else presents its request_uri and      *)
(* however registrations change; and a client that must push, by the       *)
(* registration its request met, has no flow without (consumePar,          *)
(* makeAuthorizeHandler).  The tenant of the flow may be another than that *)
(* of the push: the record does not say.                                   *)
FlowsKeepToThePush ==
  \A f \in opened :
    LET q == f.of
    IN /\ q.uri # Nothing =>
            /\ pushedBy[q.uri].client = q.client
            /\ pushedBy[q.uri].params = q.params
            /\ \A g \in opened : g.of.uri = q.uri => g = f
       /\ q.kind \in MustPush => q.uri # Nothing

(* A link of the picker page is "carrying every other OAuth param through  *)
(* unchanged" (ui/picker.ts, buildMethodLink): the claims a request asked  *)
(* for are those its flow is opened with.                                  *)
LinksKeepTheRequest == \A f \in opened : f.of.params.claims = f.of.asked.claims
=============================================================================

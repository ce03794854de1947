-------------------------- MODULE ComponentProofs --------------------------
(***************************************************************************)
(* Proofs about components that share no state, for any values of their    *)
(* constants.  Each component is an instance, with variables of its own.   *)
(* Those whose business is to keep things are in StoreProofs.              *)
(***************************************************************************)
EXTENDS Components, Integers, FiniteSetTheorems, TLAPS

----------------------------------------------------------------------------
(* Pushed authorization requests.                                          *)

Params == Pushed!Params
PushRecord == [tenant : ParTenants, client : ParClients, params : Params]
ParRecord == [client : ParClients, params : Params, expires : Nat]
AuthorizeRecord ==
  [pc : {"idle", "consume", "start", "picker", "done"},
   uri : RequestUris \cup {Nothing}, tenant : ParTenants \cup {Nothing},
   client : ParClients \cup {Nothing}, kind : Registrations \cup {Nothing},
   params : Params \cup {Nothing}, asked : Params \cup {Nothing}]

PushTypeOK ==
  /\ parNow \in Nat /\ changes \in Nat
  /\ registered \in [ParTenants -> [ParClients -> Registrations \cup {Nothing}]]
  /\ par \in [RequestUris -> ParRecord \cup {Nothing}]
  /\ pushedBy \in [RequestUris -> PushRecord \cup {Nothing}]
  /\ authorizes \in [AuthorizeRequests -> AuthorizeRecord]
  /\ \A r \in AuthorizeRequests :
       authorizes[r].pc \in {"consume", "start", "picker"} =>
         authorizes[r].tenant \in ParTenants /\ authorizes[r].client \in ParClients
  /\ \A r \in AuthorizeRequests :
       authorizes[r].pc = "consume" => authorizes[r].uri # Nothing
  /\ opened \subseteq [request : AuthorizeRequests, of : AuthorizeRecord]

(* A record says who pushed it and what; a request_uri that is presented   *)
(* was pushed.                                                             *)
RecordsTell ==
  /\ \A u \in RequestUris :
       par[u] # Nothing =>
         /\ pushedBy[u] # Nothing
         /\ par[u].client = pushedBy[u].client /\ par[u].params = pushedBy[u].params
  /\ \A r \in AuthorizeRequests :
       authorizes[r].uri # Nothing => pushedBy[authorizes[r].uri] # Nothing

(* What holds of a request that goes on with what its record said, and of  *)
(* the flow it is given.                                                   *)
Keeps(q) ==
  /\ q.uri # Nothing =>
       /\ par[q.uri] = Nothing /\ pushedBy[q.uri] # Nothing
       /\ pushedBy[q.uri].client = q.client /\ pushedBy[q.uri].params = q.params
  /\ q.kind \in MustPush => q.uri # Nothing

Holding(r) == authorizes[r].pc \in {"start", "picker"}

AllKeep ==
  /\ \A r \in AuthorizeRequests : Holding(r) => Keeps(authorizes[r])
  /\ \A f \in opened : Keeps(f.of)

(* Nobody else goes on with, or was given a flow for, the same push.       *)
TakenOnce ==
  /\ \A r, s \in AuthorizeRequests :
       /\ Holding(r) /\ Holding(s)
       /\ authorizes[r].uri # Nothing /\ authorizes[r].uri = authorizes[s].uri
       => r = s
  /\ \A f \in opened, r \in AuthorizeRequests :
       Holding(r) /\ authorizes[r].uri # Nothing => f.of.uri # authorizes[r].uri
  /\ \A f, g \in opened : f.of.uri # Nothing /\ f.of.uri = g.of.uri => f = g

PushInv == RecordsTell /\ AllKeep /\ TakenOnce

LEMMA PushRecordsDiffer ==
  ASSUME Pushed!PushAssumption
  PROVE  /\ Nothing \notin RequestUris /\ Nothing \notin PushRecord
         /\ ParTtl \in Nat /\ MaxChanges \in Nat
  BY DEF Pushed!PushAssumption, PushRecord, Params

(* A push touches only its own request_uri, which nobody has presented.    *)
LEMMA PushKeeps ==
  ASSUME Pushed!PushAssumption, PushTypeOK, PushInv, NEW u \in RequestUris,
         Pushed!PushAuthorizationRequest(u)
  PROVE  PushTypeOK' /\ PushInv'
<1>1. PICK t \in ParTenants, c \in ParClients, params \in Params :
        /\ par' = [par EXCEPT ![u] =
                     [client |-> c, params |-> params, expires |-> parNow + ParTtl]]
        /\ pushedBy' = [pushedBy EXCEPT ![u] =
                          [tenant |-> t, client |-> c, params |-> params]]
  BY DEF Pushed!PushAuthorizationRequest, Params
<1>2. /\ pushedBy[u] = Nothing
      /\ UNCHANGED <<parNow, registered, changes, authorizes, opened>>
  BY DEF Pushed!PushAuthorizationRequest
<1>3. PushTypeOK'
  BY <1>1, <1>2, PushRecordsDiffer DEF PushTypeOK, ParRecord, PushRecord
<1>4. /\ pushedBy'[u] # Nothing /\ pushedBy'[u].client = par'[u].client
      /\ pushedBy'[u].params = par'[u].params
      /\ \A v \in RequestUris \ {u} : par'[v] = par[v] /\ pushedBy'[v] = pushedBy[v]
  BY <1>1, PushRecordsDiffer DEF PushTypeOK, PushRecord
<1>5. RecordsTell'
  BY <1>2, <1>4 DEF RecordsTell, PushInv, PushTypeOK, AuthorizeRecord
<1>6. AllKeep'
  BY <1>2, <1>4 DEF PushInv, AllKeep, Keeps, Holding, PushTypeOK, AuthorizeRecord
<1>7. TakenOnce'
  BY <1>2 DEF PushInv, TakenOnce, Holding
<1>8. QED
  BY <1>3, <1>5, <1>6, <1>7 DEF PushInv

(* A request becomes q and goes on with nothing it did not hold before.    *)
LEMMA BecomesKeeps ==
  ASSUME PushTypeOK, PushInv, NEW r \in AuthorizeRequests, NEW q \in AuthorizeRecord,
         Pushed!Becomes(r, q), UNCHANGED <<parNow, registered, changes, par, pushedBy, opened>>,
         q.pc \in {"consume", "start", "picker"} =>
           q.tenant \in ParTenants /\ q.client \in ParClients,
         q.uri # Nothing => pushedBy[q.uri] # Nothing, q.pc = "consume" => q.uri # Nothing,
         q.pc \in {"start", "picker"} =>
           /\ q.kind \in MustPush => q.uri # Nothing
           /\ q.uri # Nothing => /\ Holding(r) /\ q.uri = authorizes[r].uri
                                 /\ q.client = authorizes[r].client
                                 /\ q.params = authorizes[r].params
  PROVE  PushTypeOK' /\ PushInv'
<1>1. /\ authorizes'[r] = q
      /\ \A s \in AuthorizeRequests \ {r} : authorizes'[s] = authorizes[s]
      /\ authorizes' \in [AuthorizeRequests -> AuthorizeRecord]
  BY DEF Pushed!Becomes, PushTypeOK
<1>2. PushTypeOK'
  BY <1>1 DEF PushTypeOK
<1>3. RecordsTell'
  BY <1>1 DEF RecordsTell, PushInv
<1>4. AllKeep'
  BY <1>1 DEF AllKeep, Keeps, Holding, PushInv
<1>5. TakenOnce'
  BY <1>1 DEF TakenOnce, Holding, PushInv
<1>6. QED
  BY <1>2, <1>3, <1>4, <1>5 DEF PushInv

LEMMA EndsKeep ==
  ASSUME PushTypeOK, NEW r \in AuthorizeRequests
  PROVE  /\ [authorizes[r] EXCEPT !.pc = "done"] \in AuthorizeRecord
         /\ [authorizes[r] EXCEPT !.pc = "done"].pc = "done"
         /\ [authorizes[r] EXCEPT !.pc = "done"].uri = authorizes[r].uri
  BY DEF PushTypeOK, AuthorizeRecord

LEMMA AuthorizeKeeps ==
  ASSUME Pushed!PushAssumption, PushTypeOK, PushInv, NEW r \in AuthorizeRequests,
         Pushed!AuthorizePushed(r) \/ Pushed!AuthorizeDirectly(r)
  PROVE  PushTypeOK' /\ PushInv'
<1>1. CASE Pushed!AuthorizePushed(r)
  <2>1. PICK u \in RequestUris, t \in ParTenants, c \in ParClients :
          /\ pushedBy[u] # Nothing
          /\ Pushed!Becomes(r, [Pushed!NoAuthorize EXCEPT !.pc = "consume", !.uri = u,
               !.tenant = t, !.client = c, !.kind = registered[t][c]])
    BY <1>1 DEF Pushed!AuthorizePushed
  <2> DEFINE q == [Pushed!NoAuthorize EXCEPT !.pc = "consume", !.uri = u,
               !.tenant = t, !.client = c, !.kind = registered[t][c]]
  <2>2. /\ q \in AuthorizeRecord /\ q.pc = "consume" /\ q.uri = u
        /\ q.tenant = t /\ q.client = c
    <3>1. registered[t][c] \in Registrations \cup {Nothing}
      BY DEF PushTypeOK
    <3>2. QED
      BY <3>1 DEF Pushed!NoAuthorize, AuthorizeRecord
  <2>3. UNCHANGED <<parNow, registered, changes, par, pushedBy, opened>>
    BY <1>1 DEF Pushed!AuthorizePushed, Pushed!NothingPushed
  <2>4. Pushed!Becomes(r, q)
    BY <2>1
  <2> HIDE DEF q
  <2>5. QED
    BY <2>1, <2>2, <2>3, <2>4, BecomesKeeps, PushRecordsDiffer
<1>2. CASE Pushed!AuthorizeDirectly(r)
  <2>1. PICK t \in ParTenants, c \in ParClients, params \in Params :
          LET q == [Pushed!NoAuthorize EXCEPT !.tenant = t, !.client = c,
                      !.kind = registered[t][c], !.params = params, !.asked = params]
          IN Pushed!Becomes(r, [q EXCEPT !.pc = IF q.kind \in MustPush THEN "done" ELSE "start"])
    BY <1>2 DEF Pushed!AuthorizeDirectly, Params
  <2> DEFINE p == [Pushed!NoAuthorize EXCEPT !.tenant = t, !.client = c,
                      !.kind = registered[t][c], !.params = params, !.asked = params]
             q == [p EXCEPT !.pc = IF p.kind \in MustPush THEN "done" ELSE "start"]
  <2>2. /\ q \in AuthorizeRecord /\ q.uri = Nothing /\ q.tenant = t /\ q.client = c
        /\ q.pc \in {"start", "done"}
        /\ q.pc = "start" => q.kind \notin MustPush
    <3>1. registered[t][c] \in Registrations \cup {Nothing}
      BY DEF PushTypeOK
    <3>2. QED
      BY <3>1 DEF Pushed!NoAuthorize, AuthorizeRecord
  <2>3. UNCHANGED <<parNow, registered, changes, par, pushedBy, opened>>
    BY <1>2 DEF Pushed!AuthorizeDirectly, Pushed!NothingPushed
  <2>4. Pushed!Becomes(r, q)
    BY <2>1
  <2> HIDE DEF p, q
  <2>5. QED
    BY <2>2, <2>3, <2>4, BecomesKeeps
<1>3. QED
  BY <1>1, <1>2

(* consumePar: whoever takes the record is the first to.                   *)
LEMMA RehydrateKeeps ==
  ASSUME Pushed!PushAssumption, PushTypeOK, PushInv, NEW r \in AuthorizeRequests,
         Pushed!Rehydrate(r)
  PROVE  PushTypeOK' /\ PushInv'
<1> DEFINE u == authorizes[r].uri
           p == [authorizes[r] EXCEPT !.pc = "start", !.params = par[u].params,
                                      !.asked = par[u].params]
<1>1. /\ authorizes[r] \in AuthorizeRecord /\ authorizes[r].pc = "consume"
      /\ par' = [par EXCEPT ![u] = Nothing]
      /\ UNCHANGED <<parNow, registered, changes, pushedBy, opened>>
  BY DEF Pushed!Rehydrate, Pushed!ConsumePar, PushTypeOK
<1>2. /\ \A v \in RequestUris : par'[v] \in {par[v], Nothing}
      /\ par' \in [RequestUris -> ParRecord \cup {Nothing}]
      /\ u \in RequestUris => par'[u] = Nothing
  BY <1>1 DEF PushTypeOK
<1>3. u \in RequestUris /\ \A q \in AuthorizeRecord : Keeps(q) => Keeps(q)'
  BY <1>1, <1>2 DEF Keeps, AuthorizeRecord, PushTypeOK
<1>4. CASE par[u] # Nothing /\ par[u].client = authorizes[r].client
           /\ Pushed!Becomes(r, p)
  <2>1. par[u] \in ParRecord /\ pushedBy[u] # Nothing
        /\ par[u].client = pushedBy[u].client /\ par[u].params = pushedBy[u].params
    BY <1>3, <1>4 DEF PushTypeOK, PushInv, RecordsTell
  <2>2. /\ p \in AuthorizeRecord /\ p.pc = "start" /\ p.uri = u
        /\ p.client = authorizes[r].client /\ p.tenant = authorizes[r].tenant
        /\ p.params = par[u].params
    BY <1>1, <2>1 DEF AuthorizeRecord, ParRecord
  <2>3. /\ authorizes'[r] = p
        /\ \A s \in AuthorizeRequests \ {r} : authorizes'[s] = authorizes[s]
        /\ authorizes' \in [AuthorizeRequests -> AuthorizeRecord]
    BY <1>4, <2>2 DEF Pushed!Becomes, PushTypeOK
  <2> HIDE DEF p
  <2>4. PushTypeOK'
    BY <1>1, <1>2, <2>2, <2>3 DEF PushTypeOK
  <2>5. RecordsTell'
    BY <1>1, <1>2, <2>1, <2>2, <2>3 DEF PushInv, RecordsTell
  <2>6. AllKeep'
    <3>1. Keeps(authorizes[r])' 
      BY <1>1, <1>2, <1>3, <1>4, <2>1, <2>2, <2>3, PushRecordsDiffer DEF Keeps
    <3>2. QED
      BY <1>1, <1>3, <2>3, <3>1 DEF PushInv, AllKeep, Holding, PushTypeOK
  <2>7. \A s \in AuthorizeRequests : Holding(s) => authorizes[s].uri # u
    BY <1>3, <1>4, PushRecordsDiffer DEF PushInv, AllKeep, Keeps
  <2>8. \A f \in opened : f.of.uri # u
    BY <1>3, <1>4, PushRecordsDiffer DEF PushInv, AllKeep, Keeps
  <2>9. TakenOnce'
    BY <1>1, <2>2, <2>3, <2>7, <2>8 DEF PushInv, TakenOnce, Holding
  <2>10. QED
    BY <2>4, <2>5, <2>6, <2>9 DEF PushInv
<1>5. CASE Pushed!Ends(r)
  <2>1. /\ authorizes'[r].pc = "done" /\ authorizes'[r].uri = u
        /\ \A s \in AuthorizeRequests \ {r} : authorizes'[s] = authorizes[s]
        /\ authorizes' \in [AuthorizeRequests -> AuthorizeRecord]
    BY <1>5, EndsKeep DEF Pushed!Ends, Pushed!Becomes, PushTypeOK
  <2>2. PushTypeOK'
    BY <1>1, <1>2, <2>1 DEF PushTypeOK
  <2>3. RecordsTell'
    BY <1>1, <1>2, <2>1 DEF PushInv, RecordsTell
  <2>4. AllKeep'
    BY <1>1, <1>3, <2>1 DEF PushInv, AllKeep, Holding, PushTypeOK
  <2>5. TakenOnce'
    BY <1>1, <2>1 DEF PushInv, TakenOnce, Holding
  <2>6. QED
    BY <2>2, <2>3, <2>4, <2>5 DEF PushInv
<1>6. QED
  BY <1>3, <1>4, <1>5 DEF Pushed!Rehydrate

LEMMA StartKeeps ==
  ASSUME Pushed!PushAssumption, PushTypeOK, PushInv, NEW r \in AuthorizeRequests,
         Pushed!StartAuthorize(r)
  PROVE  PushTypeOK' /\ PushInv'
<1> DEFINE a == authorizes[r]
           flow == [request |-> r, of |-> a]
<1>1. /\ a \in AuthorizeRecord /\ a.pc = "start" /\ Keeps(a)
      /\ UNCHANGED <<parNow, registered, changes, par, pushedBy>>
      /\ a.uri # Nothing => pushedBy[a.uri] # Nothing
  BY DEF Pushed!StartAuthorize, Pushed!NothingPushed, PushTypeOK, PushInv, AllKeep,
         Holding, RecordsTell
<1>2. CASE Pushed!Ends(r) /\ UNCHANGED opened
  <2> DEFINE q == [a EXCEPT !.pc = "done"]
  <2>1. q \in AuthorizeRecord /\ q.pc = "done" /\ q.uri = a.uri /\ Pushed!Becomes(r, q)
    BY <1>2, EndsKeep DEF Pushed!Ends
  <2> HIDE DEF q
  <2>2. QED
    BY <1>1, <1>2, <2>1, BecomesKeeps
<1>3. CASE Pushed!Becomes(r, [a EXCEPT !.pc = "picker"]) /\ UNCHANGED opened
  <2> DEFINE q == [a EXCEPT !.pc = "picker"]
  <2>1. /\ q \in AuthorizeRecord /\ q.pc = "picker" /\ q.uri = a.uri /\ q.kind = a.kind
        /\ q.client = a.client /\ q.params = a.params /\ q.tenant = a.tenant
    BY <1>1 DEF AuthorizeRecord
  <2>2. Pushed!Becomes(r, q)
    BY <1>3
  <2>3. Holding(r) /\ a.tenant \in ParTenants /\ a.client \in ParClients
    BY <1>1 DEF Holding, PushTypeOK
  <2>4. q.kind \in MustPush => q.uri # Nothing
    BY <1>1, <2>1 DEF Keeps
  <2> HIDE DEF q
  <2>5. QED
    BY <1>1, <1>3, <2>1, <2>2, <2>3, <2>4, BecomesKeeps
<1>4. CASE Pushed!Ends(r) /\ opened' = opened \cup {flow}
  <2>1. /\ authorizes'[r].pc = "done" /\ authorizes'[r].uri = a.uri
        /\ \A s \in AuthorizeRequests \ {r} : authorizes'[s] = authorizes[s]
        /\ authorizes' \in [AuthorizeRequests -> AuthorizeRecord]
    BY <1>4, EndsKeep DEF Pushed!Ends, Pushed!Becomes, PushTypeOK
  <2>2. PushTypeOK'
    BY <1>1, <1>4, <2>1 DEF PushTypeOK
  <2>3. RecordsTell'
    BY <1>1, <2>1 DEF PushInv, RecordsTell
  <2>4. AllKeep'
    BY <1>1, <1>4, <2>1 DEF PushInv, AllKeep, Holding, Keeps
  <2>5. TakenOnce'
    <3>1. Holding(r) /\ flow.of = a
      BY <1>1 DEF Holding
    <3>2. \A s \in AuthorizeRequests : Holding(s)' => s # r /\ Holding(s)
      BY <2>1 DEF Holding
    <3>3. \A f \in opened' : f \in opened \/ f = flow
      BY <1>4
    <3> HIDE DEF flow
    <3>4. QED
      BY <2>1, <3>1, <3>2, <3>3 DEF PushInv, TakenOnce
  <2>6. QED
    BY <2>2, <2>3, <2>4, <2>5 DEF PushInv
<1>5. QED
  BY <1>1, <1>2, <1>3, <1>4 DEF Pushed!StartAuthorize

(* A link of the picker page begins anew, without the push.                *)
LEMMA LinkKeeps ==
  ASSUME Pushed!PushAssumption, PushTypeOK, PushInv, NEW r \in AuthorizeRequests,
         Pushed!FollowLink(r)
  PROVE  PushTypeOK' /\ PushInv'
<1> DEFINE a == authorizes[r]
           kind == registered[a.tenant][a.client]
           again == [a EXCEPT !.uri = Nothing, !.kind = kind,
                              !.params = Pushed!BuildMethodLink(a.params)]
           q == [again EXCEPT !.pc = IF kind \in MustPush THEN "done" ELSE "start"]
<1>1. /\ a \in AuthorizeRecord /\ a.tenant \in ParTenants /\ a.client \in ParClients
      /\ kind \in Registrations \cup {Nothing}
  BY DEF Pushed!FollowLink, PushTypeOK
<1>2. Pushed!BuildMethodLink(a.params) \in Params
  BY DEF Pushed!BuildMethodLink, Params, Pushed!Params
<1>3. /\ q \in AuthorizeRecord /\ q.uri = Nothing /\ q.tenant = a.tenant
      /\ q.client = a.client /\ q.pc \in {"start", "done"}
      /\ q.pc = "start" => q.kind \notin MustPush
  BY <1>1, <1>2 DEF AuthorizeRecord
<1>4. Pushed!Becomes(r, q) /\ UNCHANGED <<parNow, registered, changes, par, pushedBy, opened>>
  BY DEF Pushed!FollowLink, Pushed!NothingPushed
<1> HIDE DEF q
<1>5. QED
  BY <1>1, <1>3, <1>4, BecomesKeeps

(* The invariant of the push, whoever presents which request_uri when.     *)
LEMMA PushInvariance ==
  ASSUME Pushed!PushAssumption PROVE Pushed!Spec => [](PushTypeOK /\ PushInv)
<1>1. Pushed!Init => PushTypeOK /\ PushInv
  <2> SUFFICES ASSUME Pushed!Init PROVE PushTypeOK /\ PushInv
    OBVIOUS
  <2>1. \A r \in AuthorizeRequests :
          /\ authorizes[r] \in AuthorizeRecord /\ authorizes[r].pc = "idle"
          /\ authorizes[r].uri = Nothing
    BY DEF Pushed!Init, Pushed!NoAuthorize, AuthorizeRecord
  <2>2. PushTypeOK
    BY <2>1 DEF Pushed!Init, PushTypeOK
  <2>3. QED
    BY <2>1, <2>2 DEF Pushed!Init, PushInv, RecordsTell, AllKeep, TakenOnce, Holding
<1>2. PushTypeOK /\ PushInv /\ [Pushed!Next]_(Pushed!parVars) => PushTypeOK' /\ PushInv'
  <2> SUFFICES ASSUME PushTypeOK, PushInv, [Pushed!Next]_(Pushed!parVars)
               PROVE  PushTypeOK' /\ PushInv'
    OBVIOUS
  <2>1. CASE Pushed!Reconfigure \/ Pushed!Tick \/ UNCHANGED Pushed!parVars
    <3>1. /\ UNCHANGED <<par, pushedBy, authorizes, opened>>
          /\ parNow' \in Nat /\ changes' \in Nat
          /\ registered' \in [ParTenants -> [ParClients -> Registrations \cup {Nothing}]]
      BY <2>1 DEF Pushed!Reconfigure, Pushed!Tick, Pushed!parVars, PushTypeOK
    <3>2. PushTypeOK'
      BY <3>1 DEF PushTypeOK
    <3>3. QED
      BY <3>1, <3>2 DEF PushInv, RecordsTell, AllKeep, Keeps, TakenOnce, Holding
  <2>2. QED
    BY <2>1, PushKeeps, AuthorizeKeeps, RehydrateKeeps, StartKeeps, LinkKeeps
       DEF Pushed!Next
<1>3. QED
  BY <1>1, <1>2, PTL DEF Pushed!Spec

(* A pushed request opens one flow at most, for the client that pushed it  *)
(* and with what it pushed, however many requests present its request_uri  *)
(* and however registrations change (consumePar, makeAuthorizeHandler).    *)
THEOREM PushesAreKept ==
  ASSUME Pushed!PushAssumption PROVE Pushed!Spec => []Pushed!FlowsKeepToThePush
<1>1. PushTypeOK /\ PushInv => Pushed!FlowsKeepToThePush
  BY DEF PushInv, AllKeep, Keeps, TakenOnce, Pushed!FlowsKeepToThePush
<1>2. QED
  BY <1>1, PushInvariance, PTL

----------------------------------------------------------------------------
(* What tokens say along refreshes and exchanges.                          *)

GrantRecord ==
  [tenant : AccessTenants, client : AccessClients, claim : Claims,
   scopes : SUBSET AccessScopes, audience : AccessClients \cup Audiences \cup {Absent},
   auth : Nat \cup {Absent}, kind : {"login", "m2m"}]
TokenRecord ==
  [tenant : AccessTenants, claim : Claims, scopes : SUBSET AccessScopes,
   auth : Nat \cup {Absent}, kind : {"login", "m2m"}, at : Nat,
   aud : AccessClients \cup Audiences]
ExchangeRecord ==
  [pc : {"asking", "minting"}, subject : TokenRecord, client : AccessClients,
   scopes : SUBSET AccessScopes, target : AccessTenants, claim : Claims \cup {Absent}]

GrantTypeOK ==
  /\ accessNow \in Nat /\ enrolments \in Nat
  /\ enrolled \in [AccessTenants -> [AccessClients -> Granted!Types]]
  /\ root \in GrantRecord \cup {Absent}
  /\ issued \subseteq TokenRecord
  /\ chains \subseteq GrantRecord /\ idTokens \subseteq GrantRecord
  /\ exchange \in ExchangeRecord \cup {Absent}
  /\ exchange # Absent /\ exchange.pc = "minting" => exchange.claim \in Claims

(* A payload may be minted from: it descends from the grant, as the tokens *)
(* made of it will.                                                        *)
MayMint(p) == Granted!Descends(p, Granted!AudienceOf(p))

(* Before the first grant there is nothing; after it, all there is and all *)
(* an exchange under way works on descends from it.                        *)
Lineage ==
  /\ root = Absent => issued = {} /\ chains = {} /\ exchange = Absent
  /\ root # Absent /\ root.kind = "login" => root.auth # Absent
  /\ \A t \in issued : Granted!Descends(t, t.aud)
  /\ \A c \in chains : MayMint(c)

ExchangeDescends ==
  exchange # Absent =>
    /\ Granted!Descends(exchange.subject, exchange.subject.aud)
    /\ exchange.scopes \subseteq exchange.subject.scopes
    /\ exchange.pc = "minting" =>
         Granted!Vouch(exchange.target, exchange.claim) \in vouched

GrantInv == Lineage /\ ExchangeDescends

LEMMA GrantsDiffer ==
  ASSUME Granted!AccessAssumption
  PROVE  /\ Absent \notin AccessClients \cup Audiences /\ Absent \notin Nat /\ Absent \notin GrantRecord
         /\ MaxEnrolments \in Nat
  BY DEF Granted!AccessAssumption, GrantRecord

(* mintTokens issues tokens that say what the payload says.                *)
LEMMA MintsDescend ==
  ASSUME Granted!AccessAssumption, accessNow \in Nat, NEW p \in GrantRecord,
         NEW others \in SUBSET GrantRecord, NEW skip,
         issued \subseteq TokenRecord, idTokens \subseteq GrantRecord,
         Granted!MintTokens(p, others, skip)
  PROVE  /\ issued' \subseteq TokenRecord /\ chains' \subseteq GrantRecord
         /\ idTokens' \subseteq GrantRecord /\ issued' # {}
         /\ \A t \in issued' : t \in issued \/
              /\ t.tenant = p.tenant /\ t.claim = p.claim /\ t.scopes = p.scopes
              /\ t.auth = p.auth /\ t.kind = p.kind /\ t.aud = Granted!AudienceOf(p)
         /\ \A c \in chains' : c \in others \/
              /\ c.tenant = p.tenant /\ c.claim = p.claim /\ c.scopes = p.scopes
              /\ c.kind = p.kind /\ Granted!AudienceOf(c) = Granted!AudienceOf(p)
              /\ p.auth # Absent => c.auth = p.auth
<1> DEFINE t == Granted!AccessTokenOf(p)
           c == Granted!Chain(p)
<1>1. /\ issued' = issued \cup {t} /\ chains' \subseteq others \cup {c}
      /\ idTokens' \subseteq idTokens \cup {p}
  BY DEF Granted!MintTokens
<1>2. /\ t \in TokenRecord /\ t.tenant = p.tenant /\ t.claim = p.claim
      /\ t.scopes = p.scopes /\ t.auth = p.auth /\ t.kind = p.kind /\ t.aud = Granted!AudienceOf(p)
  BY DEF Granted!AccessTokenOf, TokenRecord, GrantRecord, Granted!AudienceOf
<1>3. /\ c \in GrantRecord /\ c.tenant = p.tenant /\ c.claim = p.claim
      /\ c.scopes = p.scopes /\ c.kind = p.kind /\ Granted!AudienceOf(c) = Granted!AudienceOf(p)
      /\ p.auth # Absent => c.auth = p.auth
  BY DEF Granted!Chain, GrantRecord, Granted!AudienceOf
<1> HIDE DEF t, c
<1>4. QED
  BY <1>1, <1>2, <1>3

LEMMA GrantBegins ==
  ASSUME Granted!AccessAssumption, GrantTypeOK, GrantInv,
         NEW t \in AccessTenants, NEW c \in AccessClients, NEW claim \in Claims,
         NEW scopes \in SUBSET AccessScopes,
         \/ \E audience \in Audiences \cup {Absent} :
              Granted!Login(t, c, claim, scopes, audience)
         \/ Granted!ClientCredentialsGrant(t, c, claim, scopes)
  PROVE  GrantTypeOK' /\ GrantInv'
<1>1. PICK p \in GrantRecord, skip \in BOOLEAN :
        /\ p.kind = "login" => p.auth # Absent
        /\ Granted!Begins(p) /\ Granted!MintTokens(p, chains, skip)
  <2> DEFINE l(a) == Granted!Payload(t, c, claim, scopes, a, accessNow, "login")
             m == Granted!Payload(t, c, claim, scopes, Absent, Absent, "m2m")
  <2>1. /\ \A a \in Audiences \cup {Absent} : l(a) \in GrantRecord /\ l(a).auth # Absent
        /\ m \in GrantRecord /\ m.kind = "m2m"
    BY GrantsDiffer DEF Granted!Payload, GrantRecord, GrantTypeOK
  <2>2. \/ \E a \in Audiences \cup {Absent} :
             Granted!Begins(l(a)) /\ Granted!MintTokens(l(a), chains, FALSE)
        \/ Granted!Begins(m) /\ Granted!MintTokens(m, chains, TRUE)
    BY DEF Granted!Login, Granted!ClientCredentialsGrant
  <2> HIDE DEF l, m
  <2>3. QED
    BY <2>1, <2>2
<1>2. /\ UNCHANGED <<accessNow, enrolled, enrolments, exchange>>
      /\ root = Absent /\ root' = p
      /\ vouched' = vouched \cup {Granted!Vouch(p.tenant, p.claim)}
      /\ issued = {} /\ chains = {} /\ exchange = Absent
  BY <1>1 DEF Granted!Login, Granted!ClientCredentialsGrant, Granted!Begins, GrantInv, Lineage
<1>3. /\ issued' \subseteq TokenRecord /\ chains' \subseteq GrantRecord
      /\ idTokens' \subseteq GrantRecord /\ issued' # {}
      /\ \A x \in issued' :
           /\ x.tenant = p.tenant /\ x.claim = p.claim /\ x.scopes = p.scopes
           /\ x.auth = p.auth /\ x.kind = p.kind /\ x.aud = Granted!AudienceOf(p)
      /\ \A x \in chains' :
           /\ x.tenant = p.tenant /\ x.claim = p.claim /\ x.scopes = p.scopes
           /\ x.kind = p.kind /\ Granted!AudienceOf(x) = Granted!AudienceOf(p)
           /\ p.auth # Absent => x.auth = p.auth
  <2>1. /\ accessNow \in Nat /\ chains \in SUBSET GrantRecord
        /\ issued \subseteq TokenRecord /\ idTokens \subseteq GrantRecord
    BY DEF GrantTypeOK
  <2>2. Granted!MintTokens(p, chains, skip)
    BY <1>1
  <2>3. QED
    BY <1>2, <2>1, <2>2, MintsDescend
<1>4. p # Absent
  BY <1>1, GrantsDiffer
<1>5. GrantTypeOK'
  BY <1>2, <1>3 DEF GrantTypeOK
<1>6. Lineage'
  BY <1>1, <1>2, <1>3, <1>4 DEF Lineage, MayMint, Granted!Descends, Granted!AudienceOf
<1>7. ExchangeDescends'
  BY <1>2 DEF ExchangeDescends
<1>8. QED
  BY <1>5, <1>6, <1>7 DEF GrantInv

(* Minting from what descends from the grant.                              *)
LEMMA GrantGoesOn ==
  ASSUME Granted!AccessAssumption, GrantTypeOK, GrantInv, NEW p \in GrantRecord,
         NEW others \in SUBSET chains, MayMint(p), root # Absent,
         Granted!MintTokens(p, others, FALSE),
         UNCHANGED <<accessNow, enrolled, enrolments, root, vouched>>,
         exchange' \in {exchange, Absent}
  PROVE  GrantTypeOK' /\ GrantInv'
<1>1. /\ others \subseteq GrantRecord
      /\ root.kind = "login" => root.auth # Absent
  BY DEF GrantTypeOK, GrantInv, Lineage
<1>2. /\ issued' \subseteq TokenRecord /\ chains' \subseteq GrantRecord
      /\ idTokens' \subseteq GrantRecord
      /\ \A t \in issued' : t \in issued \/
           /\ t.tenant = p.tenant /\ t.claim = p.claim /\ t.scopes = p.scopes
           /\ t.auth = p.auth /\ t.kind = p.kind /\ t.aud = Granted!AudienceOf(p)
      /\ \A c \in chains' : c \in others \/
           /\ c.tenant = p.tenant /\ c.claim = p.claim /\ c.scopes = p.scopes
           /\ c.kind = p.kind /\ Granted!AudienceOf(c) = Granted!AudienceOf(p)
           /\ p.auth # Absent => c.auth = p.auth
  BY <1>1, MintsDescend DEF GrantTypeOK
<1>3. GrantTypeOK'
  BY <1>2 DEF GrantTypeOK
<1>4. \A t \in issued' : Granted!Descends(t, t.aud)'
  BY <1>2 DEF GrantInv, Lineage, MayMint, Granted!Descends
<1>5. \A c \in chains' : MayMint(c)'
  BY <1>1, <1>2 DEF GrantInv, Lineage, MayMint, Granted!Descends, Granted!AudienceOf
<1>6. Lineage'
  BY <1>1, <1>4, <1>5 DEF Lineage
<1>7. ExchangeDescends'
  BY DEF GrantInv, ExchangeDescends, Granted!Descends
<1>8. QED
  BY <1>3, <1>6, <1>7 DEF GrantInv

LEMMA RefreshDescends ==
  ASSUME Granted!AccessAssumption, GrantTypeOK, GrantInv, NEW chain \in chains,
         NEW scopes \in SUBSET AccessScopes, NEW secret \in BOOLEAN,
         Granted!Refresh(chain, scopes, secret)
  PROVE  GrantTypeOK' /\ GrantInv'
<1> DEFINE p == [chain EXCEPT !.scopes = scopes]
<1>1. chain \in GrantRecord /\ MayMint(chain) /\ root # Absent
  BY DEF GrantTypeOK, GrantInv, Lineage
<1>2. /\ p \in GrantRecord /\ p.tenant = chain.tenant /\ p.client = chain.client
      /\ p.claim = chain.claim /\ p.scopes = scopes /\ p.audience = chain.audience
      /\ p.auth = chain.auth /\ p.kind = chain.kind
  BY <1>1 DEF GrantRecord
<1>3. /\ scopes \subseteq chain.scopes
      /\ Granted!MintTokens(p, chains \ {chain}, FALSE)
      /\ UNCHANGED <<accessNow, enrolled, enrolments, root, exchange, vouched>>
  BY DEF Granted!Refresh
<1> HIDE DEF p
<1>4. MayMint(p)
  BY <1>1, <1>2, <1>3 DEF MayMint, Granted!Descends, Granted!AudienceOf
<1>5. QED
  BY <1>1, <1>2, <1>3, <1>4, GrantGoesOn

(* An exchange carries on what its subject token says, for a subject the   *)
(* host named in the target tenant.                                        *)
LEMMA ExchangeKeeps ==
  ASSUME Granted!AccessAssumption, GrantTypeOK, GrantInv, Granted!FinishExchange
  PROVE  GrantTypeOK' /\ GrantInv'
<1> DEFINE p == Granted!Exchanged(exchange)
           s == exchange.subject
<1>1. /\ exchange \in ExchangeRecord /\ exchange # Absent /\ exchange.pc = "minting"
      /\ exchange.claim \in Claims /\ root # Absent
  BY DEF Granted!FinishExchange, GrantTypeOK, GrantInv, Lineage
<1>2. /\ s \in TokenRecord /\ exchange.scopes \subseteq s.scopes
      /\ Granted!Descends(s, s.aud)
      /\ Granted!Vouch(exchange.target, exchange.claim) \in vouched
  BY <1>1 DEF ExchangeRecord, GrantInv, ExchangeDescends
<1>3. /\ p \in GrantRecord /\ p.tenant = exchange.target /\ p.claim = exchange.claim
      /\ p.scopes = exchange.scopes /\ p.auth = s.auth /\ p.kind = s.kind
      /\ p.client = exchange.client
      /\ p.audience = IF s.aud = exchange.client THEN Absent ELSE s.aud
  BY <1>1, <1>2 DEF Granted!Exchanged, Granted!Payload, GrantRecord, ExchangeRecord, TokenRecord
<1>4. Granted!AudienceOf(p) = s.aud
  BY <1>2, <1>3, GrantsDiffer DEF Granted!AudienceOf, TokenRecord
<1>5. /\ Granted!MintTokens(p, chains, FALSE) /\ exchange' = Absent
      /\ UNCHANGED <<accessNow, enrolled, enrolments, root, vouched>>
  BY DEF Granted!FinishExchange
<1> HIDE DEF p
<1>6. MayMint(p)
  BY <1>2, <1>3, <1>4 DEF MayMint, Granted!Descends
<1>7. QED
  BY <1>1, <1>3, <1>5, <1>6, GrantGoesOn

LEMMA ExchangeGoesOn ==
  ASSUME Granted!AccessAssumption, GrantTypeOK, GrantInv,
         \/ \E token \in issued, c \in AccessClients, secret \in BOOLEAN,
               scopes \in SUBSET AccessScopes, target \in AccessTenants :
              Granted!BeginExchange(token, c, secret, scopes, target)
         \/ \E claim \in Claims : Granted!ExchangeAudience(claim)
         \/ Granted!ExchangeRefused
  PROVE  GrantTypeOK' /\ GrantInv'
<1>1. UNCHANGED <<accessNow, enrolled, enrolments, root, issued, chains, idTokens>>
  BY DEF Granted!BeginExchange, Granted!ExchangeAudience, Granted!ExchangeRefused
<1>2. vouched \subseteq vouched'
  BY DEF Granted!BeginExchange, Granted!ExchangeAudience, Granted!ExchangeRefused
<1>3. Lineage'
  BY <1>1, <1>2 DEF GrantInv, Lineage, MayMint, Granted!Descends,
     Granted!BeginExchange, Granted!ExchangeAudience, Granted!ExchangeRefused
<1>4. ASSUME NEW token \in issued, NEW c \in AccessClients, NEW secret \in BOOLEAN,
             NEW scopes \in SUBSET AccessScopes, NEW target \in AccessTenants,
             Granted!BeginExchange(token, c, secret, scopes, target)
      PROVE  GrantTypeOK' /\ ExchangeDescends'
  <2> DEFINE x == [pc |-> "asking", subject |-> token, client |-> c,
                   scopes |-> scopes, target |-> target, claim |-> Absent]
  <2>1. exchange' = x /\ scopes \subseteq token.scopes /\ token \in TokenRecord
    BY <1>4 DEF Granted!BeginExchange, GrantTypeOK
  <2>2. /\ x \in ExchangeRecord /\ x.pc = "asking" /\ x.subject = token
        /\ x.scopes = scopes
    BY <2>1 DEF ExchangeRecord
  <2> HIDE DEF x
  <2>3. GrantTypeOK'
    BY <1>1, <2>1, <2>2 DEF GrantTypeOK
  <2>4. Granted!Descends(token, token.aud)'
    BY <1>1, <1>2 DEF GrantInv, Lineage, Granted!Descends
  <2>5. QED
    BY <2>1, <2>2, <2>3, <2>4 DEF ExchangeDescends, Granted!Descends
<1>5. ASSUME NEW claim \in Claims, Granted!ExchangeAudience(claim)
      PROVE  GrantTypeOK' /\ ExchangeDescends'
  <2> DEFINE x == [exchange EXCEPT !.pc = "minting", !.claim = claim]
  <2>1. /\ exchange' = x /\ exchange \in ExchangeRecord /\ exchange # Absent
        /\ vouched' = vouched \cup {Granted!Vouch(exchange.target, claim)}
    BY <1>5 DEF Granted!ExchangeAudience, GrantTypeOK
  <2>2. /\ x \in ExchangeRecord /\ x.subject = exchange.subject /\ x.claim = claim
        /\ x.scopes = exchange.scopes /\ x.target = exchange.target
    BY <2>1 DEF ExchangeRecord
  <2> HIDE DEF x
  <2>3. GrantTypeOK'
    BY <1>1, <2>1, <2>2 DEF GrantTypeOK
  <2>4. QED
    BY <1>1, <1>2, <2>1, <2>2, <2>3 DEF GrantInv, ExchangeDescends, Granted!Descends
<1>6. ASSUME Granted!ExchangeRefused
      PROVE  GrantTypeOK' /\ ExchangeDescends'
  <2>1. exchange' = Absent
    BY <1>6 DEF Granted!ExchangeRefused
  <2>2. QED
    BY <1>1, <2>1 DEF GrantTypeOK, ExchangeDescends
<1>7. QED
  BY <1>3, <1>4, <1>5, <1>6 DEF GrantInv

LEMMA GrantInvariance ==
  ASSUME Granted!AccessAssumption PROVE Granted!Spec => [](GrantTypeOK /\ GrantInv)
<1>1. Granted!Init => GrantTypeOK /\ GrantInv
  BY DEF Granted!Init, Granted!AccessAssumption, GrantTypeOK, GrantInv, Lineage,
         ExchangeDescends
<1>2. GrantTypeOK /\ GrantInv /\ [Granted!Next]_(Granted!accessVars)
        => GrantTypeOK' /\ GrantInv'
  <2> SUFFICES ASSUME GrantTypeOK, GrantInv, [Granted!Next]_(Granted!accessVars)
               PROVE  GrantTypeOK' /\ GrantInv'
    OBVIOUS
  <2>1. CASE \/ \E change \in Changes : Granted!Enrol(change)
             \/ Granted!Tick \/ UNCHANGED Granted!accessVars
    <3>1. UNCHANGED <<root, issued, chains, idTokens, exchange, vouched>>
      BY <2>1 DEF Granted!Enrol, Granted!Tick, Granted!accessVars
    <3>2. /\ accessNow' \in Nat /\ enrolments' \in Nat
          /\ enrolled' \in [AccessTenants -> [AccessClients -> Granted!Types]]
      <4>1. ASSUME NEW change \in Changes, Granted!Enrol(change)
            PROVE  enrolled' \in [AccessTenants -> [AccessClients -> Granted!Types]]
        <5>1. /\ change.tenant \in AccessTenants /\ change.client \in AccessClients
              /\ change.type \in Granted!Types
          BY DEF Granted!AccessAssumption
        <5>2. QED
          BY <4>1, <5>1 DEF Granted!Enrol, GrantTypeOK
      <4>2. accessNow' \in {accessNow, accessNow + 1}
            /\ enrolments' \in {enrolments, enrolments + 1}
        BY <2>1 DEF Granted!Enrol, Granted!Tick, Granted!accessVars
      <4>3. Granted!Tick \/ UNCHANGED Granted!accessVars => enrolled' = enrolled
        BY DEF Granted!Tick, Granted!accessVars
      <4>4. QED
        BY <2>1, <4>1, <4>2, <4>3 DEF GrantTypeOK
    <3>3. GrantTypeOK'
      BY <3>1, <3>2 DEF GrantTypeOK
    <3>4. QED
      BY <3>1, <3>3 DEF GrantInv, Lineage, ExchangeDescends, MayMint, Granted!Descends
  <2>2. QED
    BY <2>1, GrantBegins, RefreshDescends, ExchangeGoesOn, ExchangeKeeps DEF Granted!Next
<1>3. QED
  BY <1>1, <1>2, PTL DEF Granted!Spec

(* Whatever is refreshed and exchanged, by whatever clients and while      *)
(* tenants change, descends from the first grant (mintTokens,              *)
(* exchangeToken).                                                         *)
THEOREM LineageIsKept ==
  ASSUME Granted!AccessAssumption
  PROVE  Granted!Spec => []Granted!TokensKeepTheirLineage
<1>1. GrantInv => Granted!TokensKeepTheirLineage
  BY DEF GrantInv, Lineage, MayMint, Granted!AudienceOf, Granted!TokensKeepTheirLineage
<1>2. QED
  BY <1>1, GrantInvariance, PTL

----------------------------------------------------------------------------
(* DPoP proofs and how long their jtis are remembered.                     *)

DpopResult ==
  {"none", "invalid_proof", "not_bound", "claims", "replay", "wrong_key", "accepted"}
DpopRecord ==
  [pc : {"idle", "record", "done"}, proof : Proofs \cup {Unbound},
   token : AccessTokens \cup {Unbound}, result : DpopResult]

DpopTypeOK ==
  /\ dpopNow \in Nat
  /\ dpopJtis \in [Proofs -> Nat]
  /\ dpopRequests \in [DpopRequests -> DpopRecord]
  /\ firstUse \in [Proofs -> Nat \cup {-1}]
  /\ usedAgain \in [Proofs -> Nat \cup {-1}]

(* A time at which a proof has been fresh, or later. *)
NotEarly(t, p) == ProofOf[p].iat - Tolerance <= Dpops!Seconds(t)

(* Whatever waits for the store was fresh when it was checked; the first   *)
(* record of a jti is there until it expires, and none other is made before. *)
JtisAreKept ==
  /\ \A r \in DpopRequests :
       dpopRequests[r].pc = "record" =>
         /\ dpopRequests[r].proof \in Proofs
         /\ NotEarly(dpopNow, dpopRequests[r].proof)
  /\ \A p \in Proofs :
       firstUse[p] # -1 =>
         /\ NotEarly(firstUse[p], p)
         /\ \/ dpopJtis[p] = firstUse[p] + Dpops!JtiTtl
            \/ firstUse[p] + Dpops!JtiTtl <= dpopNow
  /\ \A p \in Proofs :
       usedAgain[p] # -1 =>
         firstUse[p] # -1 /\ firstUse[p] + Dpops!JtiTtl <= usedAgain[p]

(* Whole seconds. *)
LEMMA WholeSeconds ==
  ASSUME Dpops!DpopAssumption, NEW t \in Nat
  PROVE  /\ Dpops!Seconds(t) \in Nat
         /\ Dpops!Seconds(t) * PerSecond <= t
         /\ t < (Dpops!Seconds(t) + 1) * PerSecond
  BY Z3 DEF Dpops!DpopAssumption, Dpops!Seconds

LEMMA SecondsReached ==
  ASSUME Dpops!DpopAssumption, NEW t \in Nat, NEW n \in Int, n * PerSecond <= t
  PROVE  n <= Dpops!Seconds(t)
<1> DEFINE s == Dpops!Seconds(t)
<1>1. /\ s \in Nat /\ t < (s + 1) * PerSecond /\ PerSecond \in Nat \ {0}
  BY WholeSeconds DEF Dpops!DpopAssumption
<1> HIDE DEF s
<1>2. ASSUME s + 1 <= n PROVE FALSE
  <2>1. (s + 1) * PerSecond <= n * PerSecond
    BY <1>1, <1>2, Z3
  <2>2. QED
    BY <1>1, <2>1
<1>3. QED
  BY <1>1, <1>2 DEF s

LEMMA SecondsGrow ==
  ASSUME Dpops!DpopAssumption, NEW t \in Nat, NEW u \in Nat, t <= u
  PROVE  Dpops!Seconds(t) <= Dpops!Seconds(u)
<1> DEFINE s == Dpops!Seconds(t)
<1>1. s \in Nat /\ s * PerSecond <= t /\ PerSecond \in Nat
  BY WholeSeconds DEF Dpops!DpopAssumption
<1> HIDE DEF s
<1>2. s * PerSecond <= u
  BY <1>1
<1>3. s <= Dpops!Seconds(u)
  BY <1>1, <1>2, SecondsReached
<1>4. QED
  BY <1>3 DEF s

(* A jti that is remembered for twice the tolerance outlives its proof,    *)
(* unless it was recorded in the first second of freshness.                *)
LEMMA TtlSpansTheWindow ==
  ASSUME Dpops!DpopAssumption, NEW p \in Proofs, NEW first \in Nat, NEW again \in Nat,
         NotEarly(first, p), first + Dpops!JtiTtl <= again
  PROVE  \/ Dpops!Seconds(first) = ProofOf[p].iat - Tolerance
         \/ Dpops!Seconds(again) > ProofOf[p].iat + Tolerance
<1> DEFINE i == ProofOf[p].iat
           s == Dpops!Seconds(first)
           K == PerSecond
<1>1. /\ i \in Int /\ Tolerance \in Nat /\ K \in Nat /\ s \in Nat
      /\ s * K <= first /\ i - Tolerance <= s
  BY WholeSeconds DEF NotEarly, Dpops!DpopAssumption
<1>2. first + 2 * Tolerance * K <= again
  BY DEF Dpops!JtiTtl
<1>3. Dpops!Seconds(again) \in Nat
  BY WholeSeconds
<1> HIDE DEF i, s, K
<1>4. ASSUME i - Tolerance + 1 <= s PROVE i + Tolerance + 1 <= Dpops!Seconds(again)
  <2>1. i + Tolerance + 1 <= s + 2 * Tolerance
    BY <1>1, <1>4
  <2>2. (s + 2 * Tolerance) * K = s * K + 2 * Tolerance * K
    BY <1>1, Z3
  <2>3. (s + 2 * Tolerance) * K <= again /\ s + 2 * Tolerance \in Int
    <3>1. s * K \in Nat /\ 2 * Tolerance * K \in Nat
      BY <1>1, Z3
    <3>2. QED
      BY <1>1, <1>2, <2>2, <3>1
  <2>4. s + 2 * Tolerance <= Dpops!Seconds(again)
    BY <2>3, SecondsReached DEF K
  <2>5. QED
    BY <1>1, <1>3, <2>1, <2>4
<1>5. QED
  BY <1>1, <1>3, <1>4 DEF i, s

(* A check of a proof leaves the store alone; what goes on to it is fresh. *)
LEMMA ChecksKeepJtis ==
  ASSUME Dpops!DpopAssumption, DpopTypeOK, JtisAreKept, NEW r \in DpopRequests,
         Dpops!Token(r) \/ Dpops!Userinfo(r)
  PROVE  DpopTypeOK' /\ JtisAreKept'
<1>1. UNCHANGED <<dpopNow, dpopJtis, firstUse, usedAgain>>
  BY DEF Dpops!Token, Dpops!Userinfo, Dpops!NothingRecorded
<1>2. PICK q \in DpopRecord :
        /\ Dpops!Becomes(r, q)
        /\ q.pc = "record" => q.proof \in Proofs /\ Dpops!Fresh(q.proof)
  <2>1. ASSUME NEW q \in DpopRecord, NEW result \in DpopResult
        PROVE  /\ [q EXCEPT !.pc = "done", !.result = result] \in DpopRecord
               /\ [q EXCEPT !.pc = "done", !.result = result].pc = "done"
               /\ [q EXCEPT !.pc = "record"] \in DpopRecord
               /\ [q EXCEPT !.pc = "record"].proof = q.proof
    BY DEF DpopRecord, DpopResult
  <2>2. ASSUME NEW q \in DpopRecord,
               \/ \E result \in DpopResult : Dpops!Ends(r, q, result)
               \/ /\ q.proof \in Proofs /\ Dpops!Fresh(q.proof)
                  /\ Dpops!Becomes(r, [q EXCEPT !.pc = "record"])
        PROVE  \E x \in DpopRecord :
                 /\ Dpops!Becomes(r, x)
                 /\ x.pc = "record" => x.proof \in Proofs /\ Dpops!Fresh(x.proof)
    <3>1. CASE \E result \in DpopResult : Dpops!Ends(r, q, result)
      <4>1. PICK result \in DpopResult : Dpops!Ends(r, q, result)
        BY <3>1
      <4> DEFINE z == [q EXCEPT !.pc = "done", !.result = result]
      <4>2. z \in DpopRecord /\ z.pc = "done"
        BY <2>1
      <4>3. Dpops!Becomes(r, z)
        BY <4>1 DEF Dpops!Ends
      <4>4. z.pc = "record" => z.proof \in Proofs /\ Dpops!Fresh(z.proof)
        BY <4>2
      <4>5. z \in DpopRecord
        BY <4>2
      <4> HIDE DEF z
      <4>6. QED
        BY <4>3, <4>4, <4>5
    <3>2. CASE /\ q.proof \in Proofs /\ Dpops!Fresh(q.proof)
               /\ Dpops!Becomes(r, [q EXCEPT !.pc = "record"])
      <4> DEFINE z == [q EXCEPT !.pc = "record"]
      <4>1. z \in DpopRecord /\ z.proof = q.proof
        <5>1. PICK result \in DpopResult : TRUE
          BY DEF DpopResult
        <5>2. QED
          BY <2>1, <5>1
      <4>2. Dpops!Becomes(r, z)
        BY <3>2
      <4> HIDE DEF z
      <4>3. QED
        BY <3>2, <4>1, <4>2
    <3>3. QED
      BY <2>2, <3>1, <3>2
  <2>3. Dpops!NoProof \in DpopRecord
    BY DEF Dpops!NoProof, DpopRecord, DpopResult
  <2>4. CASE Dpops!Userinfo(r)
    <3>1. PICK t \in AccessTokens, scheme \in {"DPoP", "Bearer"}, p \in Proofs \cup {Unbound} :
            LET q == [Dpops!NoProof EXCEPT !.token = t, !.proof = p]
            IN IF BoundTo[t] = Unbound
               THEN Dpops!Ends(r, q, IF scheme = "DPoP" THEN "not_bound" ELSE "claims")
               ELSE IF scheme = "Bearer" \/ p = Unbound THEN Dpops!Ends(r, q, "invalid_proof")
               ELSE IF Dpops!VerifyDpopProof(p, "userinfo", t)
               THEN Dpops!Becomes(r, [q EXCEPT !.pc = "record"])
               ELSE Dpops!Ends(r, q, "invalid_proof")
      BY <2>4 DEF Dpops!Userinfo
    <3> DEFINE q == [Dpops!NoProof EXCEPT !.token = t, !.proof = p]
    <3>2. q \in DpopRecord /\ q.proof = p
      BY <2>3 DEF DpopRecord
    <3>3. \/ \E result \in DpopResult : Dpops!Ends(r, q, result)
          \/ /\ p \in Proofs /\ Dpops!Fresh(p)
             /\ Dpops!Becomes(r, [q EXCEPT !.pc = "record"])
      BY <3>1 DEF DpopResult, Dpops!VerifyDpopProof
    <3> HIDE DEF q
    <3>4. QED
      BY <2>2, <3>2, <3>3
  <2>5. CASE Dpops!Token(r)
    <3>1. PICK p \in Proofs :
            LET q == [Dpops!NoProof EXCEPT !.proof = p]
            IN IF Dpops!VerifyDpopProof(p, "token", Unbound)
               THEN Dpops!Becomes(r, [q EXCEPT !.pc = "record"])
               ELSE Dpops!Ends(r, q, "invalid_proof")
      BY <2>5 DEF Dpops!Token
    <3> DEFINE q == [Dpops!NoProof EXCEPT !.proof = p]
    <3>2. q \in DpopRecord /\ q.proof = p
      BY <2>3 DEF DpopRecord
    <3>3. \/ \E result \in DpopResult : Dpops!Ends(r, q, result)
          \/ /\ Dpops!Fresh(p) /\ Dpops!Becomes(r, [q EXCEPT !.pc = "record"])
      BY <3>1 DEF DpopResult, Dpops!VerifyDpopProof
    <3> HIDE DEF q
    <3>4. QED
      BY <2>2, <3>2, <3>3
  <2>6. QED
    BY <2>4, <2>5
<1>3. q.pc = "record" => NotEarly(dpopNow, q.proof)
  <2>1. ASSUME q.pc = "record" PROVE NotEarly(dpopNow, q.proof)
    <3>1. /\ q.proof \in Proofs /\ Dpops!Seconds(dpopNow) \in Nat
          /\ ProofOf[q.proof].iat \in Int /\ Tolerance \in Nat
      BY <1>2, <2>1, WholeSeconds DEF DpopTypeOK, Dpops!DpopAssumption
    <3>2. -Tolerance <= Dpops!Seconds(dpopNow) - ProofOf[q.proof].iat
      BY <1>2, <2>1 DEF Dpops!Fresh
    <3>3. QED
      BY <3>1, <3>2 DEF NotEarly
  <2>2. QED
    BY <2>1
<1>4. /\ dpopRequests'[r] = q
      /\ \A x \in DpopRequests \ {r} : dpopRequests'[x] = dpopRequests[x]
      /\ dpopRequests' \in [DpopRequests -> DpopRecord]
  BY <1>2 DEF Dpops!Becomes, DpopTypeOK
<1>5. DpopTypeOK'
  BY <1>1, <1>4 DEF DpopTypeOK
<1>6. JtisAreKept'
  BY <1>1, <1>2, <1>3, <1>4 DEF JtisAreKept, NotEarly, Dpops!Seconds, Dpops!JtiTtl
<1>7. QED
  BY <1>5, <1>6

(* recordDpopJti accepts a jti again only after its first record expired.  *)
LEMMA RecordingKeepsJtis ==
  ASSUME Dpops!DpopAssumption, DpopTypeOK, JtisAreKept, NEW r \in DpopRequests,
         Dpops!RecordDpopJti(r)
  PROVE  DpopTypeOK' /\ JtisAreKept'
<1> DEFINE p == dpopRequests[r].proof
<1>1. /\ dpopRequests[r] \in DpopRecord /\ dpopRequests[r].pc = "record"
      /\ p \in Proofs /\ NotEarly(dpopNow, p) /\ dpopNow' = dpopNow /\ dpopNow \in Nat
  BY DEF Dpops!RecordDpopJti, DpopTypeOK, JtisAreKept
<1>2. PICK ttl \in Nat : ttl = Dpops!JtiTtl
  <2>1. \A a, b \in Nat : 2 * a * b \in Nat
    BY Z3
  <2>2. QED
    BY <2>1 DEF Dpops!JtiTtl, Dpops!DpopAssumption
<1>3. PICK result \in {"replay", "wrong_key", "accepted"} :
        Dpops!Becomes(r, [dpopRequests[r] EXCEPT !.pc = "done", !.result = result])
  BY DEF Dpops!RecordDpopJti, Dpops!Ends
<1>4. /\ dpopRequests' \in [DpopRequests -> DpopRecord] /\ dpopRequests'[r].pc = "done"
      /\ \A x \in DpopRequests \ {r} : dpopRequests'[x] = dpopRequests[x]
  BY <1>1, <1>3 DEF Dpops!Becomes, DpopTypeOK, DpopRecord, DpopResult
<1>5. PICK swept \in [Proofs -> Nat] :
        /\ swept = [x \in Proofs |-> IF dpopJtis[x] <= dpopNow THEN 0 ELSE dpopJtis[x]]
        /\ \A x \in Proofs : \/ swept[x] = 0 /\ dpopJtis[x] <= dpopNow
                            \/ swept[x] = dpopJtis[x]
  <2> DEFINE s == [x \in Proofs |-> IF dpopJtis[x] <= dpopNow THEN 0 ELSE dpopJtis[x]]
  <2>1. s \in [Proofs -> Nat]
    BY DEF DpopTypeOK
  <2>2. \A x \in Proofs : \/ s[x] = 0 /\ dpopJtis[x] <= dpopNow
                         \/ s[x] = dpopJtis[x]
    OBVIOUS
  <2>3. QED
    BY <2>1, <2>2
<1>6. \/ dpopJtis' = swept /\ UNCHANGED <<firstUse, usedAgain>>
      \/ /\ swept[p] = 0 /\ dpopJtis' = [swept EXCEPT ![p] = dpopNow + ttl]
         /\ \/ /\ firstUse[p] = -1 /\ usedAgain' = usedAgain
               /\ firstUse' = [firstUse EXCEPT ![p] = dpopNow]
            \/ /\ firstUse[p] # -1 /\ firstUse' = firstUse
               /\ usedAgain' = [usedAgain EXCEPT ![p] = dpopNow]
  BY <1>2, <1>5 DEF Dpops!RecordDpopJti
<1>7. ASSUME NEW x \in Proofs, firstUse[x] # -1
      PROVE  /\ NotEarly(firstUse[x], x) /\ firstUse[x] \in Nat
             /\ \/ swept[x] = firstUse[x] + ttl
                \/ firstUse[x] + ttl <= dpopNow
             /\ swept[x] = 0 => firstUse[x] + ttl <= dpopNow
  <2>1. firstUse[x] \in Nat
    BY <1>7 DEF DpopTypeOK
  <2>2. /\ NotEarly(firstUse[x], x)
        /\ \/ dpopJtis[x] = firstUse[x] + ttl
           \/ firstUse[x] + ttl <= dpopNow
    BY <1>2, <1>7 DEF JtisAreKept
  <2>3. \/ swept[x] = 0 /\ dpopJtis[x] <= dpopNow
        \/ swept[x] = dpopJtis[x]
    BY <1>5
  <2>4. dpopJtis[x] \in Nat
    BY DEF DpopTypeOK
  <2>5. CASE firstUse[x] + ttl <= dpopNow
    BY <2>1, <2>2, <2>5
  <2>6. CASE dpopJtis[x] = firstUse[x] + ttl
    <3>1. ASSUME swept[x] = 0 PROVE firstUse[x] + ttl <= dpopNow
      <4>1. dpopJtis[x] <= dpopNow
        <5>1. dpopNow \in Nat
          BY <1>1
        <5>2. QED
          BY <2>3, <3>1, <5>1
      <4>2. QED
        BY <2>6, <4>1
    <3>2. \/ swept[x] = firstUse[x] + ttl
          \/ firstUse[x] + ttl <= dpopNow
      BY <2>3, <2>6, <3>1
    <3>3. QED
      BY <2>1, <2>2, <3>1, <3>2
  <2>7. QED
    BY <2>2, <2>5, <2>6
<1>8. /\ dpopJtis' \in [Proofs -> Nat]
      /\ firstUse' \in [Proofs -> Nat \cup {-1}] /\ usedAgain' \in [Proofs -> Nat \cup {-1}]
  <2>1. firstUse \in [Proofs -> Nat \cup {-1}] /\ usedAgain \in [Proofs -> Nat \cup {-1}]
    BY DEF DpopTypeOK
  <2>2. dpopNow + ttl \in Nat
    <3>1. dpopNow \in Nat
      BY <1>1
    <3>2. QED
      BY <1>2, <3>1
  <2>3. QED
    BY <1>1, <1>5, <1>6, <2>1, <2>2
<1>9. \A x \in DpopRequests :
        dpopRequests'[x].pc = "record" =>
          /\ dpopRequests'[x].proof \in Proofs
          /\ NotEarly(dpopNow, dpopRequests'[x].proof)
  BY <1>4 DEF JtisAreKept
<1>10. ASSUME NEW x \in Proofs
       PROVE  /\ firstUse'[x] # -1 =>
                   /\ NotEarly(firstUse'[x], x)
                   /\ \/ dpopJtis'[x] = firstUse'[x] + ttl
                      \/ firstUse'[x] + ttl <= dpopNow
              /\ usedAgain'[x] # -1 =>
                   firstUse'[x] # -1 /\ firstUse'[x] + ttl <= usedAgain'[x]
  <2>1. usedAgain[x] # -1 => firstUse[x] # -1 /\ firstUse[x] + ttl <= usedAgain[x]
    BY <1>2 DEF JtisAreKept
  <2>2. CASE UNCHANGED <<firstUse, usedAgain>> /\ dpopJtis' = swept
    BY <1>7, <2>1, <2>2
  <2>3. CASE /\ swept[p] = 0 /\ dpopJtis' = [swept EXCEPT ![p] = dpopNow + ttl]
             /\ firstUse[p] = -1 /\ usedAgain' = usedAgain
             /\ firstUse' = [firstUse EXCEPT ![p] = dpopNow]
    <3>1. /\ firstUse'[p] = dpopNow /\ dpopJtis'[p] = dpopNow + ttl /\ usedAgain[p] = -1
          /\ x # p => firstUse'[x] = firstUse[x] /\ dpopJtis'[x] = swept[x]
      BY <1>1, <1>5, <2>3 DEF DpopTypeOK, JtisAreKept
    <3>2. QED
      BY <1>1, <1>7, <2>1, <2>3, <3>1
  <2>4. CASE /\ swept[p] = 0 /\ dpopJtis' = [swept EXCEPT ![p] = dpopNow + ttl]
             /\ firstUse[p] # -1 /\ firstUse' = firstUse
             /\ usedAgain' = [usedAgain EXCEPT ![p] = dpopNow]
    <3>1. /\ usedAgain'[p] = dpopNow /\ firstUse[p] + ttl <= dpopNow
          /\ x # p => usedAgain'[x] = usedAgain[x] /\ dpopJtis'[x] = swept[x]
      BY <1>1, <1>5, <1>7, <2>4 DEF DpopTypeOK
    <3>2. QED
      BY <1>1, <1>7, <2>1, <2>4, <3>1
  <2>5. QED
    BY <1>6, <2>2, <2>3, <2>4
<1>11. DpopTypeOK'
  BY <1>1, <1>4, <1>8 DEF DpopTypeOK
<1>12. JtisAreKept'
  BY <1>1, <1>2, <1>9, <1>10 DEF JtisAreKept, NotEarly, Dpops!Seconds, Dpops!JtiTtl
<1>13. QED
  BY <1>11, <1>12

LEMMA DpopInvariance ==
  ASSUME Dpops!DpopAssumption PROVE Dpops!Spec => [](DpopTypeOK /\ JtisAreKept)
<1>1. Dpops!Init => DpopTypeOK /\ JtisAreKept
  BY DEF Dpops!Init, Dpops!NoProof, DpopTypeOK, DpopRecord, DpopResult, JtisAreKept
<1>2. DpopTypeOK /\ JtisAreKept /\ [Dpops!Next]_(Dpops!dpopVars)
        => DpopTypeOK' /\ JtisAreKept'
  <2> SUFFICES ASSUME DpopTypeOK, JtisAreKept, [Dpops!Next]_(Dpops!dpopVars)
               PROVE  DpopTypeOK' /\ JtisAreKept'
    OBVIOUS
  <2>1. CASE Dpops!Tick
    <3>1. /\ dpopNow \in Nat /\ dpopNow' = dpopNow + 1
          /\ UNCHANGED <<dpopJtis, dpopRequests, firstUse, usedAgain>>
      BY <2>1 DEF Dpops!Tick, DpopTypeOK
    <3>2. DpopTypeOK'
      BY <3>1 DEF DpopTypeOK
    <3>3. ASSUME NEW p \in Proofs, NotEarly(dpopNow, p) PROVE NotEarly(dpopNow + 1, p)
      <4>1. /\ Dpops!Seconds(dpopNow) <= Dpops!Seconds(dpopNow + 1)
            /\ Dpops!Seconds(dpopNow) \in Nat /\ Dpops!Seconds(dpopNow + 1) \in Nat
        BY <3>1, SecondsGrow, WholeSeconds
      <4>2. ProofOf[p].iat \in Int /\ Tolerance \in Nat
        BY DEF Dpops!DpopAssumption
      <4>3. QED
        BY <3>3, <4>1, <4>2 DEF NotEarly
    <3>4. Dpops!JtiTtl \in Nat
      <4>1. \A a, b \in Nat : 2 * a * b \in Nat
        BY Z3
      <4>2. QED
        BY <4>1 DEF Dpops!JtiTtl, Dpops!DpopAssumption
    <3>5. \A r \in DpopRequests :
            dpopRequests[r].pc = "record" =>
              dpopRequests[r].proof \in Proofs /\ NotEarly(dpopNow + 1, dpopRequests[r].proof)
      BY <3>3 DEF JtisAreKept
    <3>6. \A p \in Proofs :
            firstUse[p] # -1 =>
              /\ NotEarly(firstUse[p], p)
              /\ \/ dpopJtis[p] = firstUse[p] + Dpops!JtiTtl
                 \/ firstUse[p] + Dpops!JtiTtl <= dpopNow + 1
      BY <3>1, <3>4 DEF JtisAreKept, DpopTypeOK
    <3>7. JtisAreKept'
      BY <3>1, <3>5, <3>6 DEF JtisAreKept, NotEarly, Dpops!Seconds, Dpops!JtiTtl
    <3>8. QED
      BY <3>2, <3>7
  <2>2. CASE UNCHANGED Dpops!dpopVars
    BY <2>2 DEF Dpops!dpopVars, DpopTypeOK, JtisAreKept, NotEarly, Dpops!Seconds, Dpops!JtiTtl
  <2>3. QED
    BY <2>1, <2>2, ChecksKeepJtis, RecordingKeepsJtis DEF Dpops!Next
<1>3. QED
  BY <1>1, <1>2, PTL DEF Dpops!Spec

(* A proof is good for one request, but for a second at the two ends of    *)
(* its window, whatever the tolerance and the resolution of the clock      *)
(* (recordDpopJti, DEFAULT_DPOP_JTI_TTL_MS).                               *)
THEOREM ProofsAreForOneUse ==
  ASSUME Dpops!DpopAssumption PROVE Dpops!Spec => []Dpops!ProofsAreUsedOnce
<1>1. DpopTypeOK /\ JtisAreKept => Dpops!ProofsAreUsedOnce
  BY TtlSpansTheWindow DEF DpopTypeOK, JtisAreKept, Dpops!ProofsAreUsedOnce
<1>2. QED
  BY <1>1, DpopInvariance, PTL

----------------------------------------------------------------------------
(* The passkey method and its credential stores. *)

CredentialRecord == [user : KeyUsers \cup {Nobody}, counter : Nat]
OptionsRecord == [phase : {"auth", "register"}, challenge : Nat, user : KeyUsers]
KeyPostRecord ==
  [pc : {"idle", "verify", "create", "success", "error"},
   credential : Credentials \cup {Nobody}, count : Nat, seen : Nat,
   user : KeyUsers \cup {Nobody}]

PasskeyTypeOK ==
  /\ credentialStore \in {"memory", "postgres", "dynamo"}
  /\ creds \in [Credentials -> CredentialRecord \cup {Nobody}]
  /\ methodState \in [KeyFlows -> OptionsRecord \cup {Nobody}]
  /\ challenges \in [KeyFlows -> Nat] /\ signed \in [Devices -> Nat]
  /\ keyPosts \in [KeyPosts -> KeyPostRecord]
  /\ accepted \in [Credentials -> Nat] /\ disturbed \subseteq Credentials

(* A verification under way has seen the counter that is stored, unless    *)
(* others disturbed the credential; and it is the only one.                *)
VerifiesTell ==
  \A p \in KeyPosts :
    LET c == keyPosts[p].credential
    IN /\ keyPosts[p].pc = "create" => c \in Credentials
       /\ keyPosts[p].pc = "verify" =>
            /\ c \in Credentials /\ creds[c] # Nobody
            /\ c \notin disturbed =>
                 /\ keyPosts[p].seen = creds[c].counter
                 /\ \A r \in KeyPosts \ {p} :
                      keyPosts[r].pc = "verify" => keyPosts[r].credential # c

NoLoginBefore == \A c \in Credentials : creds[c] = Nobody => accepted[c] = 0

CountersHold ==
  \A c \in Credentials :
    creds[c] # Nobody /\ c \notin disturbed => accepted[c] <= creds[c].counter

PasskeyInv == VerifiesTell /\ NoLoginBefore /\ CountersHold

LEMMA KeyPostsChange ==
  ASSUME PasskeyTypeOK, NEW p \in KeyPosts, NEW q \in KeyPostRecord,
         Authenticators!Becomes(p, q)
  PROVE  /\ keyPosts' \in [KeyPosts -> KeyPostRecord]
         /\ keyPosts'[p] = q
         /\ \A r \in KeyPosts \ {p} : keyPosts'[r] = keyPosts[r]
BY DEF PasskeyTypeOK, Authenticators!Becomes

(* A step that changes no credential and starts no verification.           *)
LEMMA OtherKeyStepsKeep ==
  ASSUME PasskeyTypeOK, PasskeyInv, NEW p \in KeyPosts, NEW q \in KeyPostRecord,
         Authenticators!Becomes(p, q), q.pc # "verify",
         q.pc = "create" => q.credential \in Credentials,
         signed' \in [Devices -> Nat],
         UNCHANGED <<credentialStore, creds, methodState, challenges, accepted, disturbed>>
  PROVE  PasskeyTypeOK' /\ PasskeyInv'
<1>1. /\ keyPosts' \in [KeyPosts -> KeyPostRecord]
      /\ keyPosts'[p] = q
      /\ \A r \in KeyPosts \ {p} : keyPosts'[r] = keyPosts[r]
  BY KeyPostsChange
<1>2. PasskeyTypeOK'
  BY <1>1 DEF PasskeyTypeOK
<1>3. VerifiesTell'
  BY <1>1 DEF PasskeyInv, VerifiesTell
<1>4. QED
  BY <1>2, <1>3 DEF PasskeyInv, NoLoginBefore, CountersHold

LEMMA Signing ==
  ASSUME PasskeyTypeOK, NEW d \in Devices, Authenticators!Sign(d)
  PROVE  signed' \in [Devices -> Nat] /\ signed'[d] \in Nat
<1>1. signed \in [Devices -> Nat]
  BY DEF PasskeyTypeOK
<1>2. signed[d] + (IF Counts[d] THEN 1 ELSE 0) \in Nat
  BY <1>1
<1>3. QED
  BY <1>1, <1>2 DEF Authenticators!Sign

(* authVerify up to its lookup. *)
LEMMA VerifyingKeeps ==
  ASSUME Authenticators!PasskeyAssumption, PasskeyTypeOK, PasskeyInv, NEW p \in KeyPosts,
         Authenticators!AuthVerify(p)
  PROVE  PasskeyTypeOK' /\ PasskeyInv'
<1>1. PICK f \in KeyFlows, d \in Devices :
        LET c == CredentialOf[d]
            q == [Authenticators!IdlePost EXCEPT !.credential = c]
        IN \E given \in 1..challenges[f] :
           IF /\ methodState[f].phase = "auth"
              /\ Authenticators!FindById(c) # Nobody
              /\ given = methodState[f].challenge
           THEN /\ Authenticators!Sign(d)
                /\ Authenticators!Becomes(p, [q EXCEPT !.pc = "verify", !.count = signed'[d],
                     !.seen = Authenticators!FindById(c).counter,
                     !.user = Authenticators!FindById(c).user])
                /\ disturbed' = IF Authenticators!Pending(c) # {} THEN disturbed \cup {c}
                                ELSE disturbed
           ELSE /\ Authenticators!Becomes(p, Authenticators!Done(q, "error"))
                /\ UNCHANGED <<signed, disturbed>>
  BY DEF Authenticators!AuthVerify
<1> DEFINE c == CredentialOf[d]
           base == [Authenticators!IdlePost EXCEPT !.credential = c]
<1>2. /\ c \in Credentials /\ base \in KeyPostRecord
      /\ keyPosts[p].pc = "idle"
      /\ UNCHANGED <<credentialStore, creds, methodState, challenges, accepted>>
  BY DEF Authenticators!PasskeyAssumption, Authenticators!IdlePost, KeyPostRecord,
         Authenticators!AuthVerify
<1>3. CASE Authenticators!Becomes(p, Authenticators!Done(base, "error"))
           /\ UNCHANGED <<signed, disturbed>>
  <2> DEFINE z == Authenticators!Done(base, "error")
  <2>1. z \in KeyPostRecord /\ z.pc = "error"
    BY <1>2 DEF Authenticators!Done, KeyPostRecord
  <2>2. Authenticators!Becomes(p, z) /\ signed' \in [Devices -> Nat]
    BY <1>3 DEF PasskeyTypeOK
  <2> HIDE DEF z
  <2>3. UNCHANGED disturbed
    BY <1>3
  <2>4. QED
    BY <1>2, <2>1, <2>2, <2>3, OtherKeyStepsKeep
<1>4. ASSUME Authenticators!FindById(c) # Nobody, Authenticators!Sign(d),
             Authenticators!Becomes(p, [base EXCEPT !.pc = "verify", !.count = signed'[d],
                 !.seen = Authenticators!FindById(c).counter,
                 !.user = Authenticators!FindById(c).user]),
             disturbed' = IF Authenticators!Pending(c) # {} THEN disturbed \cup {c}
                          ELSE disturbed
      PROVE  PasskeyTypeOK' /\ PasskeyInv'
  <2>1. Authenticators!FindById(c) = creds[c]
    BY DEF PasskeyTypeOK, Authenticators!FindById, Authenticators!MemoryFindById,
           Authenticators!PostgresFindById, Authenticators!DynamoFindById
  <2>2. creds[c] \in CredentialRecord
    BY <1>2, <1>4, <2>1 DEF PasskeyTypeOK
  <2>3. signed' \in [Devices -> Nat] /\ signed'[d] \in Nat
    BY <1>4, Signing
  <2>4. PICK n \in Nat : n = signed'[d]
    BY <2>3
  <2> DEFINE z == [base EXCEPT !.pc = "verify", !.count = n,
                     !.seen = creds[c].counter, !.user = creds[c].user]
  <2>5. /\ z \in KeyPostRecord /\ z.pc = "verify" /\ z.credential = c
        /\ z.seen = creds[c].counter
    BY <1>2, <2>2 DEF KeyPostRecord, CredentialRecord
  <2>6. Authenticators!Becomes(p, z)
    BY <1>4, <2>1, <2>4
  <2> HIDE DEF z, base, c
  <2>7. /\ keyPosts' \in [KeyPosts -> KeyPostRecord]
        /\ keyPosts'[p] = z
        /\ \A r \in KeyPosts \ {p} : keyPosts'[r] = keyPosts[r]
    BY <2>5, <2>6, KeyPostsChange
  <2>8. /\ disturbed \subseteq disturbed' /\ disturbed' \subseteq disturbed \cup {c}
        /\ disturbed' \subseteq Credentials
    BY <1>2, <1>4 DEF PasskeyTypeOK
  <2>9. PasskeyTypeOK'
    BY <1>2, <2>3, <2>7, <2>8 DEF PasskeyTypeOK
  <2>10. ASSUME NEW r \in KeyPosts \ {p}, keyPosts[r].pc = "verify", keyPosts[r].credential = c
         PROVE  c \in disturbed'
    <3>1. r \in Authenticators!Pending(c)
      BY <2>10 DEF Authenticators!Pending
    <3>2. QED
      BY <1>4, <3>1
  <2>11. VerifiesTell'
    <3>1. ASSUME NEW x \in KeyPosts, NEW k, k = keyPosts'[x].credential,
                 keyPosts'[x].pc = "verify"
          PROVE  /\ k \in Credentials /\ creds[k] # Nobody
                 /\ k \notin disturbed' =>
                      /\ keyPosts'[x].seen = creds[k].counter
                      /\ \A r \in KeyPosts \ {x} :
                           keyPosts'[r].pc = "verify" => keyPosts'[r].credential # k
      <4>1. CASE x = p
        BY <1>2, <1>4, <2>1, <2>5, <2>7, <2>10, <3>1, <4>1
      <4>2. CASE x # p
        <5>1. /\ k \in Credentials /\ creds[k] # Nobody
              /\ k \notin disturbed =>
                   /\ keyPosts[x].seen = creds[k].counter
                   /\ \A r \in KeyPosts \ {x} :
                        keyPosts[r].pc = "verify" => keyPosts[r].credential # k
          BY <2>7, <3>1, <4>2 DEF PasskeyInv, VerifiesTell
        <5>2. k \notin disturbed' => k # c
          BY <2>7, <2>10, <3>1, <4>2
        <5>3. QED
          BY <2>5, <2>7, <2>8, <3>1, <4>2, <5>1, <5>2
      <4>3. QED
        BY <4>1, <4>2
    <3>2. ASSUME NEW x \in KeyPosts, keyPosts'[x].pc = "create"
          PROVE  keyPosts'[x].credential \in Credentials
      BY <2>5, <2>7, <3>2 DEF PasskeyInv, VerifiesTell
    <3>3. QED
      BY <1>2, <3>1, <3>2 DEF VerifiesTell
  <2>12. NoLoginBefore' /\ CountersHold'
    BY <1>2, <2>8 DEF PasskeyInv, NoLoginBefore, CountersHold
  <2>13. QED
    BY <2>9, <2>11, <2>12 DEF PasskeyInv
<1>5. QED
  BY <1>1, <1>3, <1>4

(* The rest of authVerify: the counter that is stored has advanced from    *)
(* the one that was read.                                                  *)
LEMMA AdvancingKeeps ==
  ASSUME Authenticators!PasskeyAssumption, PasskeyTypeOK, PasskeyInv, NEW p \in KeyPosts,
         Authenticators!FinishAuthVerify(p)
  PROVE  PasskeyTypeOK' /\ PasskeyInv'
<1> DEFINE old == keyPosts[p]
           c == old.credential
<1>1. /\ old \in KeyPostRecord /\ old.pc = "verify"
      /\ c \in Credentials /\ creds[c] # Nobody
      /\ old.count > old.seen \/ (old.count = 0 /\ old.seen = 0)
      /\ UNCHANGED <<credentialStore, methodState, challenges, signed, disturbed>>
  BY DEF Authenticators!FinishAuthVerify, PasskeyTypeOK, PasskeyInv, VerifiesTell,
         Authenticators!CounterAdvances
<1>2. creds[c] \in CredentialRecord
  BY <1>1 DEF PasskeyTypeOK
<1>3. creds' = [creds EXCEPT ![c].counter = old.count]
  BY <1>1 DEF Authenticators!FinishAuthVerify, PasskeyTypeOK, Authenticators!UpdateCounter,
     Authenticators!MemoryUpdateCounter, Authenticators!PostgresUpdateCounter,
     Authenticators!DynamoUpdateCounter, Authenticators!Known, Authenticators!WithCounter
<1>4. old.count \in Nat /\ old.seen \in Nat
  BY <1>1 DEF KeyPostRecord
<1>5. /\ creds' \in [Credentials -> CredentialRecord \cup {Nobody}]
      /\ creds'[c] # Nobody /\ creds'[c].counter = old.count
      /\ \A k \in Credentials \ {c} : creds'[k] = creds[k]
  <2>1. PICK rec \in CredentialRecord : rec = creds[c]
    BY <1>2
  <2> DEFINE new == [rec EXCEPT !.counter = old.count]
  <2>2. new \in CredentialRecord /\ new.counter = old.count
    BY <1>4, <2>1 DEF CredentialRecord
  <2>3. creds' = [creds EXCEPT ![c] = new]
    BY <1>3, <2>1
  <2> HIDE DEF new
  <2>4. QED
    BY <1>1, <2>2, <2>3 DEF PasskeyTypeOK, Authenticators!PasskeyAssumption, CredentialRecord
<1>6. PICK q \in KeyPostRecord : Authenticators!Becomes(p, q) /\ q.pc \in {"success", "error"}
  <2>1. PICK end \in {"success", "error"} :
          Authenticators!Becomes(p, Authenticators!Done(old, end))
    BY DEF Authenticators!FinishAuthVerify
  <2> DEFINE z == Authenticators!Done(old, end)
  <2>2. z \in KeyPostRecord /\ z.pc = end
    BY <1>1 DEF Authenticators!Done, KeyPostRecord
  <2>3. Authenticators!Becomes(p, z)
    BY <2>1
  <2> HIDE DEF z
  <2>4. QED
    BY <2>2, <2>3
<1>7. /\ keyPosts' \in [KeyPosts -> KeyPostRecord]
      /\ keyPosts'[p] = q
      /\ \A r \in KeyPosts \ {p} : keyPosts'[r] = keyPosts[r]
  BY <1>6, KeyPostsChange
<1>8. /\ accepted \in [Credentials -> Nat] /\ accepted' \in [Credentials -> Nat]
      /\ accepted'[c] \in {accepted[c], old.count}
      /\ accepted'[c] = accepted[c] \/ accepted'[c] = old.count
      /\ \A k \in Credentials \ {c} : accepted'[k] = accepted[k]
  <2>1. accepted \in [Credentials -> Nat]
    BY DEF PasskeyTypeOK
  <2>2. \/ accepted' = accepted
        \/ accepted' = [accepted EXCEPT ![c] =
                          IF old.count > accepted[c] THEN old.count ELSE accepted[c]]
    BY DEF Authenticators!FinishAuthVerify
  <2>3. QED
    BY <1>1, <1>4, <2>1, <2>2
<1>9. PasskeyTypeOK'
  BY <1>1, <1>5, <1>7, <1>8 DEF PasskeyTypeOK
<1>10. c \notin disturbed =>
         /\ old.seen = creds[c].counter
         /\ \A r \in KeyPosts \ {p} : keyPosts[r].pc = "verify" => keyPosts[r].credential # c
  BY <1>1 DEF PasskeyInv, VerifiesTell
<1>11. VerifiesTell'
  <2>1. ASSUME NEW x \in KeyPosts, NEW k, k = keyPosts'[x].credential
        PROVE  /\ keyPosts'[x].pc = "create" => k \in Credentials
               /\ keyPosts'[x].pc = "verify" =>
                    /\ k \in Credentials /\ creds'[k] # Nobody
                    /\ k \notin disturbed =>
                         /\ keyPosts'[x].seen = creds'[k].counter
                         /\ \A r \in KeyPosts \ {x} :
                              keyPosts'[r].pc = "verify" => keyPosts'[r].credential # k
    <3>1. CASE x = p
      BY <1>6, <1>7, <3>1
    <3>2. CASE x # p
      <4>1. /\ keyPosts'[x] = keyPosts[x]
            /\ keyPosts[x].pc = "create" => k \in Credentials
            /\ keyPosts[x].pc = "verify" =>
                 /\ k \in Credentials /\ creds[k] # Nobody
                 /\ k \notin disturbed =>
                      /\ keyPosts[x].seen = creds[k].counter
                      /\ \A r \in KeyPosts \ {x} :
                           keyPosts[r].pc = "verify" => keyPosts[r].credential # k
        BY <1>7, <2>1, <3>2 DEF PasskeyInv, VerifiesTell
      <4>2. keyPosts[x].pc = "verify" /\ k \notin disturbed => k # c
        BY <1>10, <2>1, <3>2, <4>1
      <4>3. QED
        BY <1>5, <1>6, <1>7, <2>1, <3>2, <4>1, <4>2
    <3>3. QED
      BY <3>1, <3>2
  <2>2. QED
    BY <1>1, <2>1 DEF VerifiesTell
<1>12. NoLoginBefore'
  BY <1>5, <1>8 DEF PasskeyInv, NoLoginBefore
<1>13. CountersHold'
  <2>1. c \notin disturbed => accepted'[c] <= old.count
    <3>1. c \notin disturbed => accepted[c] <= creds[c].counter
      BY <1>1 DEF PasskeyInv, CountersHold
    <3>2. c \notin disturbed => accepted[c] <= old.seen
      BY <1>10, <3>1
    <3>3. accepted[c] \in Nat
      BY <1>1, <1>8
    <3>4. QED
      BY <1>1, <1>4, <1>8, <3>2, <3>3
  <2>2. QED
    BY <1>1, <1>5, <1>8, <2>1 DEF PasskeyInv, CountersHold
<1>14. QED
  BY <1>9, <1>11, <1>12, <1>13 DEF PasskeyInv

(* create is an upsert: a credential registered again counts as disturbed. *)
LEMMA CreatingKeepsCounters ==
  ASSUME Authenticators!PasskeyAssumption, PasskeyTypeOK, PasskeyInv, NEW p \in KeyPosts,
         Authenticators!FinishRegisterVerify(p)
  PROVE  PasskeyTypeOK' /\ PasskeyInv'
<1> DEFINE old == keyPosts[p]
           c == old.credential
           new == [user |-> old.user, counter |-> old.count]
<1>1. /\ old \in KeyPostRecord /\ old.pc = "create" /\ c \in Credentials
      /\ UNCHANGED <<credentialStore, methodState, challenges, signed, accepted>>
  BY DEF Authenticators!FinishRegisterVerify, PasskeyTypeOK, PasskeyInv, VerifiesTell
<1>2. creds' = [creds EXCEPT ![c] = new]
  BY DEF Authenticators!FinishRegisterVerify, PasskeyTypeOK, Authenticators!Create,
     Authenticators!MemoryCreate, Authenticators!PostgresCreate,
     Authenticators!DynamoCreate, Authenticators!With
<1>3. new \in CredentialRecord /\ new.counter \in Nat
  BY <1>1 DEF KeyPostRecord, CredentialRecord
<1>4. disturbed' = IF creds[c] # Nobody THEN disturbed \cup {c} ELSE disturbed
  BY DEF Authenticators!FinishRegisterVerify, Authenticators!Known
<1>5. PICK q \in KeyPostRecord : Authenticators!Becomes(p, q) /\ q.pc \in {"success", "error"}
  <2>1. PICK end \in {"success", "error"} :
          Authenticators!Becomes(p, Authenticators!Done(old, end))
    BY DEF Authenticators!FinishRegisterVerify
  <2> DEFINE z == Authenticators!Done(old, end)
  <2>2. z \in KeyPostRecord /\ z.pc = end
    BY <1>1 DEF Authenticators!Done, KeyPostRecord
  <2>3. Authenticators!Becomes(p, z)
    BY <2>1
  <2> HIDE DEF z
  <2>4. QED
    BY <2>2, <2>3
<1> HIDE DEF new
<1>6. /\ keyPosts' \in [KeyPosts -> KeyPostRecord]
      /\ keyPosts'[p] = q
      /\ \A r \in KeyPosts \ {p} : keyPosts'[r] = keyPosts[r]
  BY <1>5, KeyPostsChange
<1>7. /\ creds' \in [Credentials -> CredentialRecord \cup {Nobody}]
      /\ creds'[c] = new /\ new # Nobody
      /\ \A k \in Credentials \ {c} : creds'[k] = creds[k]
  BY <1>1, <1>2, <1>3 DEF PasskeyTypeOK, Authenticators!PasskeyAssumption, CredentialRecord
<1>8. PasskeyTypeOK'
  BY <1>1, <1>4, <1>6, <1>7 DEF PasskeyTypeOK
<1>9. VerifiesTell'
  <2>1. ASSUME NEW x \in KeyPosts, NEW k, k = keyPosts'[x].credential
        PROVE  /\ keyPosts'[x].pc = "create" => k \in Credentials
               /\ keyPosts'[x].pc = "verify" =>
                    /\ k \in Credentials /\ creds'[k] # Nobody
                    /\ k \notin disturbed' =>
                         /\ keyPosts'[x].seen = creds'[k].counter
                         /\ \A r \in KeyPosts \ {x} :
                              keyPosts'[r].pc = "verify" => keyPosts'[r].credential # k
    <3>1. CASE x = p
      BY <1>5, <1>6, <3>1
    <3>2. CASE x # p
      <4>1. /\ keyPosts'[x] = keyPosts[x]
            /\ keyPosts[x].pc = "create" => k \in Credentials
            /\ keyPosts[x].pc = "verify" =>
                 /\ k \in Credentials /\ creds[k] # Nobody
                 /\ k \notin disturbed =>
                      /\ keyPosts[x].seen = creds[k].counter
                      /\ \A r \in KeyPosts \ {x} :
                           keyPosts[r].pc = "verify" => keyPosts[r].credential # k
        BY <1>6, <2>1, <3>2 DEF PasskeyInv, VerifiesTell
      <4>2. keyPosts[x].pc = "verify" /\ k \notin disturbed' => k # c /\ k \notin disturbed
        BY <1>4, <4>1
      <4>3. QED
        BY <1>5, <1>6, <1>7, <2>1, <3>2, <4>1, <4>2
    <3>3. QED
      BY <3>1, <3>2
  <2>2. QED
    BY <2>1 DEF VerifiesTell
<1>10. NoLoginBefore'
  BY <1>1, <1>7 DEF PasskeyInv, NoLoginBefore
<1>11. CountersHold'
  <2>1. c \notin disturbed' => accepted[c] <= new.counter
    <3>1. c \notin disturbed' => accepted[c] = 0
      BY <1>1, <1>4 DEF PasskeyInv, NoLoginBefore
    <3>2. QED
      BY <1>3, <3>1
  <2>2. QED
    BY <1>1, <1>4, <1>7, <2>1 DEF PasskeyInv, CountersHold
<1>12. QED
  BY <1>8, <1>9, <1>10, <1>11 DEF PasskeyInv

LEMMA PasskeyInvariance ==
  ASSUME Authenticators!PasskeyAssumption
  PROVE  Authenticators!Spec => [](PasskeyTypeOK /\ PasskeyInv)
<1>1. Authenticators!Init => PasskeyTypeOK /\ PasskeyInv
  <2> SUFFICES ASSUME Authenticators!Init PROVE PasskeyTypeOK /\ PasskeyInv
    OBVIOUS
  <2>1. Authenticators!IdlePost \in KeyPostRecord /\ Authenticators!IdlePost.pc = "idle"
    BY DEF Authenticators!IdlePost, KeyPostRecord
  <2>2. PasskeyTypeOK
    BY <2>1 DEF Authenticators!Init, PasskeyTypeOK
  <2>3. VerifiesTell
    BY <2>1 DEF Authenticators!Init, VerifiesTell
  <2>4. NoLoginBefore /\ CountersHold
    BY DEF Authenticators!Init, NoLoginBefore, CountersHold
  <2>5. QED
    BY <2>2, <2>3, <2>4 DEF PasskeyInv
<1>2. PasskeyTypeOK /\ PasskeyInv /\ [Authenticators!Next]_(Authenticators!keyVars)
        => PasskeyTypeOK' /\ PasskeyInv'
  <2> SUFFICES ASSUME PasskeyTypeOK, PasskeyInv, [Authenticators!Next]_(Authenticators!keyVars)
               PROVE  PasskeyTypeOK' /\ PasskeyInv'
    OBVIOUS
  <2>1. CASE UNCHANGED Authenticators!keyVars
    BY <2>1 DEF Authenticators!keyVars, PasskeyTypeOK, PasskeyInv, VerifiesTell, NoLoginBefore,
                CountersHold
  <2>2. ASSUME NEW f \in KeyFlows,
               Authenticators!AuthOptions(f) \/ Authenticators!RegisterOptions(f)
        PROVE  PasskeyTypeOK' /\ PasskeyInv'
    <3>1. PICK phase \in {"auth", "register"}, u \in KeyUsers : Authenticators!Challenge(f, phase, u)
      BY <2>2 DEF Authenticators!AuthOptions, Authenticators!RegisterOptions
    <3>2. challenges' \in [KeyFlows -> Nat] /\ challenges'[f] \in Nat
      BY <3>1 DEF Authenticators!Challenge, PasskeyTypeOK
    <3>3. PICK n \in Nat : n = challenges'[f]
      BY <3>2
    <3>4. [phase |-> phase, challenge |-> n, user |-> u] \in OptionsRecord
      BY DEF OptionsRecord
    <3>5. methodState' = [methodState EXCEPT ![f] = [phase |-> phase, challenge |-> n, user |-> u]]
      BY <3>1, <3>3 DEF Authenticators!Challenge
    <3>6. methodState' \in [KeyFlows -> OptionsRecord \cup {Nobody}]
      BY <3>4, <3>5 DEF PasskeyTypeOK
    <3>7. UNCHANGED <<credentialStore, creds, signed, keyPosts, accepted, disturbed>>
      BY <3>1 DEF Authenticators!Challenge
    <3>8. PasskeyTypeOK'
      BY <3>2, <3>6, <3>7 DEF PasskeyTypeOK
    <3>9. QED
      BY <3>7, <3>8 DEF PasskeyInv, VerifiesTell, NoLoginBefore, CountersHold
  <2>3. ASSUME NEW p \in KeyPosts, Authenticators!RegisterVerify(p)
        PROVE  PasskeyTypeOK' /\ PasskeyInv'
    <3>1. PICK f \in KeyFlows, d \in Devices :
            LET q == [Authenticators!IdlePost EXCEPT !.credential = CredentialOf[d]]
            IN /\ methodState[f] # Nobody
               /\ \E given \in 1..challenges[f] :
                  IF methodState[f].phase = "register"
                     /\ given = methodState[f].challenge
                  THEN /\ Authenticators!Sign(d)
                       /\ Authenticators!Becomes(p, [q EXCEPT !.pc = "create",
                            !.count = signed'[d], !.user = methodState[f].user])
                  ELSE /\ Authenticators!Becomes(p, Authenticators!Done(q, "error"))
                       /\ UNCHANGED signed
      BY <2>3 DEF Authenticators!RegisterVerify
    <3> DEFINE base == [Authenticators!IdlePost EXCEPT !.credential = CredentialOf[d]]
    <3>2. /\ CredentialOf[d] \in Credentials /\ base \in KeyPostRecord
          /\ UNCHANGED <<credentialStore, creds, methodState, challenges, accepted, disturbed>>
      BY <2>3 DEF Authenticators!PasskeyAssumption, Authenticators!IdlePost, KeyPostRecord,
                  Authenticators!RegisterVerify
    <3>3. CASE Authenticators!Becomes(p, Authenticators!Done(base, "error")) /\ UNCHANGED signed
      <4> DEFINE z == Authenticators!Done(base, "error")
      <4>1. z \in KeyPostRecord /\ z.pc = "error"
        BY <3>2 DEF Authenticators!Done, KeyPostRecord
      <4>2. Authenticators!Becomes(p, z) /\ signed' \in [Devices -> Nat]
        BY <3>3 DEF PasskeyTypeOK
      <4> HIDE DEF z
      <4>3. QED
        BY <3>2, <4>1, <4>2, OtherKeyStepsKeep
    <3>4. ASSUME Authenticators!Sign(d),
                 Authenticators!Becomes(p, [base EXCEPT !.pc = "create",
                   !.count = signed'[d], !.user = methodState[f].user])
          PROVE  PasskeyTypeOK' /\ PasskeyInv'
      <4>1. signed' \in [Devices -> Nat] /\ signed'[d] \in Nat
        BY <3>4, Signing
      <4>2. PICK n \in Nat : n = signed'[d]
        BY <4>1
      <4>3. methodState[f].user \in KeyUsers
        BY <3>1 DEF PasskeyTypeOK, OptionsRecord
      <4> DEFINE z == [base EXCEPT !.pc = "create", !.count = n, !.user = methodState[f].user]
      <4>4. z \in KeyPostRecord /\ z.pc = "create" /\ z.credential = CredentialOf[d]
        BY <3>2, <4>3 DEF KeyPostRecord
      <4>5. Authenticators!Becomes(p, z)
        BY <3>4, <4>2
      <4> HIDE DEF z
      <4>6. QED
        BY <3>2, <4>1, <4>4, <4>5, OtherKeyStepsKeep
    <3>5. QED
      BY <3>1, <3>3, <3>4
  <2>4. ASSUME NEW p \in KeyPosts,
               Authenticators!RefuseAuthVerify(p) \/ Authenticators!StoreFails(p)
        PROVE  PasskeyTypeOK' /\ PasskeyInv'
    <3> DEFINE z == Authenticators!Done(keyPosts[p], "error")
    <3>1. z \in KeyPostRecord /\ z.pc = "error"
      BY DEF Authenticators!Done, KeyPostRecord, PasskeyTypeOK
    <3>2. /\ Authenticators!Becomes(p, z) /\ signed' \in [Devices -> Nat]
          /\ UNCHANGED <<credentialStore, creds, methodState, challenges, accepted, disturbed>>
      BY <2>4 DEF Authenticators!RefuseAuthVerify, Authenticators!StoreFails, PasskeyTypeOK
    <3> HIDE DEF z
    <3>3. QED
      BY <3>1, <3>2, OtherKeyStepsKeep
  <2>5. QED
    BY <2>1, <2>2, <2>3, <2>4, VerifyingKeeps, AdvancingKeeps, CreatingKeepsCounters
    DEF Authenticators!Next
<1>3. QED
  BY <1>1, <1>2, PTL DEF Authenticators!Spec

(* The stored signature counter is at least the highest that logged in, on *)
(* every store and for any number of posts and devices, unless             *)
(* verifications of the credential overlapped or it was registered again   *)
(* (authVerify, updateCounter, create).                                    *)
THEOREM CountersStay ==
  ASSUME Authenticators!PasskeyAssumption
  PROVE  Authenticators!Spec => []Authenticators!CountersAreKept
<1>1. PasskeyTypeOK /\ PasskeyInv => Authenticators!CountersAreKept
  <2> SUFFICES ASSUME PasskeyTypeOK, PasskeyInv, NEW c \in Credentials,
                      creds[c] # Nobody, c \notin disturbed
               PROVE  creds[c].counter >= accepted[c]
    BY DEF Authenticators!CountersAreKept, Authenticators!Known
  <2>1. creds[c].counter \in Nat /\ accepted[c] \in Nat
    BY DEF PasskeyTypeOK, CredentialRecord
  <2>2. QED
    BY <2>1 DEF PasskeyInv, CountersHold
<1>2. QED
  BY <1>1, PasskeyInvariance, PTL

----------------------------------------------------------------------------
(* The password method. *)

Account == [address : Addresses, password : Passwords, by : PasswordPosts]
PostRecord ==
  [pc : {"idle", "verify", "hash", "create", "done"}, address : Addresses \cup {""},
   password : Passwords \cup {""}, found : SUBSET Account, able : BOOLEAN,
   result : {"none", "challenge", "form", "form_with_error", "success", "error"}]

PasswordTypeOK ==
  /\ storeRefuses \in BOOLEAN /\ registration \in BOOLEAN /\ errorSaved \in BOOLEAN
  /\ accounts \subseteq Account
  /\ passwordPosts \in [PasswordPosts -> PostRecord]
  /\ overlapped \subseteq Addresses

Registers(q) == q.pc \in {"hash", "create"}

(* What a login that is to be verified found, and what a post may say of   *)
(* the account it was for.                                                 *)
LookupsTell ==
  \A p \in PasswordPosts :
    LET q == passwordPosts[p]
    IN /\ q.able => q.pc \in {"verify", "done"}
       /\ q.pc # "done" => q.result = "none"
       /\ Registers(q) => q.address \in Addresses /\ q.password \in Passwords
       /\ q.pc = "verify" =>
            /\ q.found # {} /\ q.found \subseteq Users!Of(q.address)
            /\ q.able => \E a \in Users!Of(q.address) : a.password = q.password

(* A registration that did not overlap another one is the only one of its  *)
(* address: nobody else is registering it, and it has no account.          *)
OverlapsTell ==
  \A p \in PasswordPosts :
    LET q == passwordPosts[p]
    IN Registers(q) /\ q.address \notin overlapped =>
         /\ Users!Of(q.address) = {}
         /\ \A r \in PasswordPosts \ {p} :
              Registers(passwordPosts[r]) => passwordPosts[r].address # q.address

AccountsDiffer ==
  \A a, b \in accounts :
    a.address = b.address /\ a # b => a.address \in overlapped /\ ~storeRefuses

PasswordInv == LookupsTell /\ OverlapsTell /\ AccountsDiffer /\ Users!RegistrantsGetIn

LEMMA PostsChange ==
  ASSUME PasswordTypeOK, NEW p \in PasswordPosts, NEW q \in PostRecord, Users!Becomes(p, q)
  PROVE  /\ passwordPosts' \in [PasswordPosts -> PostRecord]
         /\ passwordPosts'[p] = q
         /\ \A r \in PasswordPosts \ {p} : passwordPosts'[r] = passwordPosts[r]
BY DEF PasswordTypeOK, Users!Becomes

(* A post that registers nothing, neither before nor after.                *)
LEMMA OtherPostsKeep ==
  ASSUME PasswordTypeOK, PasswordInv, NEW p \in PasswordPosts, NEW q \in PostRecord,
         Users!Becomes(p, q), UNCHANGED <<storeRefuses, registration, accounts, overlapped>>,
         errorSaved' \in BOOLEAN,
         Registers(q) => Registers(passwordPosts[p]) /\ q.address = passwordPosts[p].address
                         /\ q.password = passwordPosts[p].password,
         q.able => q.pc \in {"verify", "done"},
         q.pc # "done" => q.result = "none",
         q.pc = "verify" =>
           /\ q.found # {} /\ q.found \subseteq Users!Of(q.address)
           /\ q.able => \E a \in Users!Of(q.address) : a.password = q.password,
         q.able /\ q.result = "challenge" => q.address \in overlapped /\ ~storeRefuses
  PROVE  PasswordTypeOK' /\ PasswordInv'
<1>1. /\ passwordPosts' \in [PasswordPosts -> PostRecord]
      /\ passwordPosts'[p] = q
      /\ \A r \in PasswordPosts \ {p} : passwordPosts'[r] = passwordPosts[r]
  BY PostsChange
<1>2. PasswordTypeOK'
  BY <1>1 DEF PasswordTypeOK
<1>3. \A address : (Users!Of(address))' = Users!Of(address)
  BY DEF Users!Of
<1>4. LookupsTell'
  BY <1>1, <1>3 DEF PasswordInv, LookupsTell, Registers
<1>5. OverlapsTell'
  <2>1. \A r \in PasswordPosts :
          Registers(passwordPosts'[r]) =>
            Registers(passwordPosts[r]) /\ passwordPosts'[r].address = passwordPosts[r].address
    BY <1>1
  <2>2. QED
    BY <1>3, <2>1 DEF PasswordInv, OverlapsTell, Registers
<1>6. AccountsDiffer'
  BY DEF PasswordInv, AccountsDiffer
<1>7. Users!RegistrantsGetIn'
  BY <1>1 DEF PasswordInv, Users!RegistrantsGetIn
<1>8. QED
  BY <1>2, <1>4, <1>5, <1>6, <1>7 DEF PasswordInv

(* handleRegister: the address is looked up before it is registered.       *)
LEMMA RegisteringKeeps ==
  ASSUME PasswordTypeOK, PasswordInv, NEW p \in PasswordPosts,
         NEW address \in Addresses, NEW password \in Passwords,
         Users!Becomes(p, [Users!NewPost EXCEPT !.pc = "hash", !.address = address,
                             !.password = password]),
         passwordPosts[p].pc = "idle", Users!Of(address) = {},
         overlapped' = IF Users!Registering(address) = {} THEN overlapped
                       ELSE overlapped \cup {address},
         UNCHANGED <<storeRefuses, registration, accounts, errorSaved>>
  PROVE  PasswordTypeOK' /\ PasswordInv'
<1>1. PICK q \in PostRecord :
        /\ Users!Becomes(p, q)
        /\ q.pc = "hash" /\ q.address = address /\ q.password = password
        /\ ~q.able /\ q.result = "none"
  <2> DEFINE z == [Users!NewPost EXCEPT !.pc = "hash", !.address = address,
                     !.password = password]
  <2>1. /\ z \in PostRecord /\ z.pc = "hash" /\ z.address = address
        /\ z.password = password /\ ~z.able /\ z.result = "none"
    BY DEF PostRecord, Users!NewPost
  <2>2. Users!Becomes(p, z)
    OBVIOUS
  <2> HIDE DEF z
  <2>3. QED
    BY <2>1, <2>2
<1>2. /\ passwordPosts' \in [PasswordPosts -> PostRecord]
      /\ passwordPosts'[p] = q
      /\ \A r \in PasswordPosts \ {p} : passwordPosts'[r] = passwordPosts[r]
  BY <1>1, PostsChange
<1>3. overlapped \subseteq overlapped' /\ overlapped' \subseteq Addresses
  BY DEF PasswordTypeOK
<1>4. PasswordTypeOK'
  BY <1>2, <1>3 DEF PasswordTypeOK
<1>5. \A a : (Users!Of(a))' = Users!Of(a)
  BY DEF Users!Of
<1>6. LookupsTell'
  BY <1>1, <1>2, <1>5 DEF PasswordInv, LookupsTell, Registers
<1>7. OverlapsTell'
  <2>1. ASSUME NEW r \in PasswordPosts \ {p}, Registers(passwordPosts[r]),
               passwordPosts[r].address = address
        PROVE  address \in overlapped'
    <3>1. r \in Users!Registering(address)
      BY <2>1 DEF Registers, Users!Registering
    <3>2. QED
      BY <3>1
  <2>2. ASSUME NEW x \in PasswordPosts, Registers(passwordPosts'[x]),
               passwordPosts'[x].address \notin overlapped'
        PROVE  /\ Users!Of(passwordPosts'[x].address) = {}
               /\ \A r \in PasswordPosts \ {x} :
                    Registers(passwordPosts'[r]) =>
                      passwordPosts'[r].address # passwordPosts'[x].address
    <3>1. CASE x = p
      BY <1>1, <1>2, <2>1, <2>2, <3>1
    <3>2. CASE x # p
      <4>1. passwordPosts'[x] = passwordPosts[x] /\ passwordPosts[x].address \notin overlapped
        BY <1>2, <1>3, <2>2, <3>2
      <4>2. passwordPosts[x].address # address
        BY <2>1, <2>2, <3>2, <4>1
      <4>3. QED
        BY <1>1, <1>2, <2>2, <3>2, <4>1, <4>2 DEF PasswordInv, OverlapsTell
    <3>3. QED
      BY <3>1, <3>2
  <2>3. QED
    BY <1>5, <2>2 DEF OverlapsTell, Registers
<1>8. AccountsDiffer'
  BY <1>3 DEF PasswordInv, AccountsDiffer
<1>9. Users!RegistrantsGetIn'
  BY <1>1, <1>2, <1>3 DEF PasswordInv, Users!RegistrantsGetIn
<1>10. QED
  BY <1>4, <1>6, <1>7, <1>8, <1>9 DEF PasswordInv

(* create: a second account of an address shows that registrations         *)
(* overlapped and that the store let it.                                   *)
LEMMA CreatingKeeps ==
  ASSUME PasswordTypeOK, PasswordInv, NEW p \in PasswordPosts, Users!CreateUser(p)
  PROVE  PasswordTypeOK' /\ PasswordInv'
<1> DEFINE old == passwordPosts[p]
<1>1. /\ old \in PostRecord /\ old.pc = "create" /\ ~old.able
      /\ old.address \in Addresses /\ old.password \in Passwords
      /\ UNCHANGED <<storeRefuses, registration, errorSaved, overlapped>>
  BY DEF Users!CreateUser, PasswordTypeOK, PasswordInv, LookupsTell, Registers
<1>2. PICK result \in {"success", "error"} :
        Users!Becomes(p, [old EXCEPT !.pc = "done", !.result = result])
  BY DEF Users!CreateUser, Users!Ends
<1>3. PICK q \in PostRecord : Users!Becomes(p, q) /\ q.pc = "done" /\ ~q.able
  <2> DEFINE z == [old EXCEPT !.pc = "done", !.result = result]
  <2>1. z \in PostRecord /\ z.pc = "done" /\ ~z.able
    BY <1>1 DEF PostRecord
  <2>2. Users!Becomes(p, z)
    BY <1>2
  <2> HIDE DEF z
  <2>3. QED
    BY <2>1, <2>2
<1>4. CASE accounts' = accounts
  <2>1. UNCHANGED <<storeRefuses, registration, accounts, overlapped>> /\ errorSaved' \in BOOLEAN
    BY <1>1, <1>4 DEF PasswordTypeOK
  <2>2. QED
    BY <1>3, <2>1, OtherPostsKeep DEF Registers
<1>5. ASSUME accounts' # accounts PROVE PasswordTypeOK' /\ PasswordInv'
  <2> DEFINE user == [address |-> old.address, password |-> old.password, by |-> p]
  <2>1. accounts' = accounts \cup {user} /\ ~(storeRefuses /\ Users!Of(old.address) # {})
    BY <1>5 DEF Users!CreateUser
  <2>2. user \in Account /\ user.address = old.address
    BY <1>1 DEF Account
  <2> HIDE DEF user
  <2>3. /\ passwordPosts' \in [PasswordPosts -> PostRecord]
        /\ passwordPosts'[p] = q
        /\ \A r \in PasswordPosts \ {p} : passwordPosts'[r] = passwordPosts[r]
    BY <1>3, PostsChange
  <2>4. PasswordTypeOK'
    BY <1>1, <2>1, <2>2, <2>3 DEF PasswordTypeOK
  <2>5. \A address : /\ Users!Of(address) \subseteq Users!Of(address)'
                     /\ address # old.address => Users!Of(address)' = Users!Of(address)
    BY <2>1, <2>2 DEF Users!Of
  <2>6. LookupsTell'
    BY <1>3, <2>3, <2>5 DEF PasswordInv, LookupsTell, Registers
  <2>7. Registers(old)
    BY <1>1 DEF Registers
  <2>8. OverlapsTell'
    <3>1. ASSUME NEW x \in PasswordPosts, Registers(passwordPosts'[x]),
                 NEW address, address = passwordPosts'[x].address, address \notin overlapped
          PROVE  /\ Users!Of(address)' = {}
                 /\ \A r \in PasswordPosts \ {x} :
                      Registers(passwordPosts'[r]) => passwordPosts'[r].address # address
      <4>1. x # p /\ passwordPosts'[x] = passwordPosts[x]
        BY <1>3, <2>3, <3>1 DEF Registers
      <4>2. /\ Users!Of(address) = {}
            /\ \A r \in PasswordPosts \ {x} :
                 Registers(passwordPosts[r]) => passwordPosts[r].address # address
        BY <3>1, <4>1 DEF PasswordInv, OverlapsTell
      <4>3. address # old.address
        BY <2>7, <4>1, <4>2
      <4>4. Users!Of(address)' = {}
        BY <2>5, <4>2, <4>3
      <4>5. ASSUME NEW r \in PasswordPosts \ {x}, Registers(passwordPosts'[r])
            PROVE  passwordPosts'[r].address # address
        BY <1>3, <2>3, <4>2, <4>5 DEF Registers
      <4>6. QED
        BY <4>4, <4>5
    <3>2. ASSUME NEW x \in PasswordPosts, Registers(passwordPosts'[x]),
                 passwordPosts'[x].address \notin overlapped'
          PROVE  /\ {a \in accounts' : a.address = passwordPosts'[x].address} = {}
                 /\ \A r \in PasswordPosts \ {x} :
                      Registers(passwordPosts'[r]) =>
                        passwordPosts'[r].address # passwordPosts'[x].address
      <4>1. PICK address : address = passwordPosts'[x].address
        OBVIOUS
      <4>2. Users!Of(address)' = {a \in accounts' : a.address = address}
        BY DEF Users!Of
      <4>3. QED
        BY <1>1, <3>1, <3>2, <4>1, <4>2
    <3>3. QED
      BY <3>2 DEF OverlapsTell, Registers, Users!Of
  <2>9. AccountsDiffer'
    <3>1. ASSUME NEW a \in accounts, a.address = user.address
          PROVE  a.address \in overlapped /\ ~storeRefuses
      <4>1. a \in Users!Of(old.address)
        BY <2>2, <3>1 DEF Users!Of
      <4>2. QED
        BY <2>1, <2>2, <2>7, <3>1, <4>1 DEF PasswordInv, OverlapsTell
    <3>2. QED
      BY <1>1, <2>1, <3>1 DEF PasswordInv, AccountsDiffer
  <2>10. Users!RegistrantsGetIn'
    BY <1>1, <1>3, <2>3 DEF PasswordInv, Users!RegistrantsGetIn
  <2>11. QED
    BY <2>4, <2>6, <2>8, <2>9, <2>10 DEF PasswordInv
<1>6. QED
  BY <1>4, <1>5

LEMMA PasswordInvariance == Users!Spec => [](PasswordTypeOK /\ PasswordInv)
<1>1. Users!Init => PasswordTypeOK /\ PasswordInv
  <2> SUFFICES ASSUME Users!Init PROVE PasswordTypeOK /\ PasswordInv
    OBVIOUS
  <2>1. /\ Users!NewPost \in PostRecord /\ Users!NewPost.pc = "idle"
        /\ Users!NewPost.result = "none" /\ ~Users!NewPost.able
    BY DEF Users!NewPost, PostRecord
  <2>2. PasswordTypeOK
    BY <2>1 DEF Users!Init, PasswordTypeOK
  <2>3. \A p \in PasswordPosts : passwordPosts[p] = Users!NewPost
    BY DEF Users!Init
  <2>4. LookupsTell /\ OverlapsTell /\ Users!RegistrantsGetIn
    BY <2>1, <2>3 DEF LookupsTell, OverlapsTell, Users!RegistrantsGetIn, Registers
  <2>5. AccountsDiffer
    BY DEF Users!Init, AccountsDiffer
  <2>6. QED
    BY <2>2, <2>4, <2>5 DEF PasswordInv
<1>2. PasswordTypeOK /\ PasswordInv /\ [Users!Next]_(Users!passwordVars)
        => PasswordTypeOK' /\ PasswordInv'
  <2> SUFFICES ASSUME PasswordTypeOK, PasswordInv, [Users!Next]_(Users!passwordVars)
               PROVE  PasswordTypeOK' /\ PasswordInv'
    OBVIOUS
  <2>1. CASE UNCHANGED Users!passwordVars
    BY <2>1 DEF Users!passwordVars, PasswordTypeOK, PasswordInv, LookupsTell, OverlapsTell,
                AccountsDiffer, Users!RegistrantsGetIn, Users!Of, Registers
  <2>2. ASSUME NEW p \in PasswordPosts,
               \/ Users!RenderLogin(p) \/ Users!HandleLogin(p) \/ Users!VerifyPassword(p)
               \/ Users!HandleRegister(p) \/ Users!HashPassword(p) \/ Users!CreateUser(p)
               \/ Users!UserStoreFails(p)
        PROVE  PasswordTypeOK' /\ PasswordInv'
    <3> DEFINE old == passwordPosts[p]
    <3>0. /\ old \in PostRecord /\ Users!NewPost \in PostRecord
          /\ ~Users!NewPost.able /\ errorSaved \in BOOLEAN
      BY DEF PasswordTypeOK, PostRecord, Users!NewPost
    <3>9. ASSUME NEW q \in PostRecord, ~q.able,
                 NEW result \in {"none", "challenge", "form", "form_with_error", "success", "error"},
                 Users!Ends(p, q, result), errorSaved' \in BOOLEAN,
                 UNCHANGED <<storeRefuses, registration, accounts, overlapped>>
          PROVE  PasswordTypeOK' /\ PasswordInv'
      <4> DEFINE z == [q EXCEPT !.pc = "done", !.result = result]
      <4>1. z \in PostRecord /\ z.pc = "done" /\ ~z.able
        BY <3>9 DEF PostRecord
      <4>2. Users!Becomes(p, z)
        BY <3>9 DEF Users!Ends
      <4> HIDE DEF z
      <4>3. QED
        BY <3>9, <4>1, <4>2, OtherPostsKeep DEF Registers
    <3>1. CASE Users!RenderLogin(p)
      BY <3>0, <3>1, <3>9 DEF Users!RenderLogin
    <3>2. CASE Users!HandleLogin(p)
      <4>1. CASE Users!ReLoginWithError(p, Users!NewPost)
        BY <3>0, <3>2, <3>9, <4>1 DEF Users!HandleLogin, Users!ReLoginWithError
      <4>2. ASSUME NEW address \in Addresses, NEW password \in Passwords,
                   NEW q, q = [Users!NewPost EXCEPT !.pc = "verify", !.address = address,
                                 !.password = password,
                                 !.able = \E a \in Users!Of(address) : a.password = password],
                   IF Users!Of(address) = {} THEN Users!ReLoginWithError(p, q)
                   ELSE /\ \E a \in Users!Of(address) :
                             Users!Becomes(p, [q EXCEPT !.found = {a}])
                        /\ UNCHANGED errorSaved
            PROVE  PasswordTypeOK' /\ PasswordInv'
        <5>1. /\ q \in PostRecord /\ q.pc = "verify" /\ q.address = address
              /\ q.password = password /\ q.result = "none"
              /\ q.able <=> \E a \in Users!Of(address) : a.password = password
          BY <4>2 DEF PostRecord, Users!NewPost
        <5>2. CASE Users!Of(address) = {}
          BY <3>2, <3>9, <4>2, <5>1, <5>2 DEF Users!HandleLogin, Users!ReLoginWithError
        <5>3. CASE Users!Of(address) # {}
          <6>1. PICK a \in Users!Of(address) : Users!Becomes(p, [q EXCEPT !.found = {a}])
            BY <4>2, <5>3
          <6> DEFINE z == [q EXCEPT !.found = {a}]
          <6>2. a \in Account
            BY <6>1 DEF Users!Of, PasswordTypeOK
          <6>3. /\ z \in PostRecord /\ z.pc = "verify" /\ z.address = address
                /\ z.password = password /\ z.result = "none" /\ z.found = {a}
                /\ z.able <=> \E b \in Users!Of(address) : b.password = password
            BY <5>1, <6>2 DEF PostRecord
          <6>4. Users!Becomes(p, z)
            BY <6>1
          <6> HIDE DEF z
          <6>5. /\ UNCHANGED <<storeRefuses, registration, accounts, overlapped>>
                /\ errorSaved' \in BOOLEAN
            BY <3>0, <3>2, <4>2, <5>3 DEF Users!HandleLogin
          <6>6. QED
            BY <6>1, <6>3, <6>4, <6>5, OtherPostsKeep DEF Registers
        <5>4. QED
          BY <5>2, <5>3
      <4>3. QED
        BY <3>2, <4>1, <4>2 DEF Users!HandleLogin
    <3>3. CASE Users!VerifyPassword(p)
      <4>1. /\ old.pc = "verify" /\ old.found # {} /\ old.found \subseteq Users!Of(old.address)
            /\ old.able => \E a \in Users!Of(old.address) : a.password = old.password
        BY <3>3 DEF Users!VerifyPassword, PasswordInv, LookupsTell
      <4>2. /\ UNCHANGED <<storeRefuses, registration, accounts, overlapped>>
            /\ errorSaved' \in BOOLEAN
        BY <3>0, <3>3 DEF Users!VerifyPassword, Users!ReLoginWithError
      <4>3. PICK result \in {"success", "challenge"} :
              /\ Users!Ends(p, old, result)
              /\ result = "challenge" => \A a \in old.found : a.password # old.password
        BY <3>3 DEF Users!VerifyPassword, Users!ReLoginWithError
      <4> DEFINE z == [old EXCEPT !.pc = "done", !.result = result]
      <4>4. /\ z \in PostRecord /\ z.pc = "done" /\ z.result = result
            /\ z.able = old.able /\ z.address = old.address
        BY <3>0 DEF PostRecord
      <4>5. Users!Becomes(p, z)
        BY <4>3 DEF Users!Ends
      <4> HIDE DEF z
      <4>6. z.able /\ z.result = "challenge" => z.address \in overlapped /\ ~storeRefuses
        BY <4>1, <4>3, <4>4 DEF PasswordInv, AccountsDiffer, Users!Of
      <4>7. QED
        BY <4>2, <4>4, <4>5, <4>6, OtherPostsKeep DEF Registers
    <3>4. CASE Users!HandleRegister(p)
      <4>1. ASSUME NEW q, q \in PostRecord, ~q.able, Users!ReLoginWithError(p, q), UNCHANGED overlapped
            PROVE  PasswordTypeOK' /\ PasswordInv'
        BY <3>4, <3>9, <4>1 DEF Users!HandleRegister, Users!ReLoginWithError
      <4>2. CASE Users!Ends(p, Users!NewPost, "error") /\ UNCHANGED <<errorSaved, overlapped>>
        BY <3>0, <3>4, <3>9, <4>2 DEF Users!HandleRegister
      <4>3. CASE Users!ReLoginWithError(p, Users!NewPost) /\ UNCHANGED overlapped
        BY <3>0, <4>1, <4>3
      <4>4. ASSUME NEW address \in Addresses, NEW password \in Passwords \ TooShort,
                   NEW q, q = [Users!NewPost EXCEPT !.pc = "hash", !.address = address,
                                 !.password = password],
                   IF Users!Of(address) # {}
                   THEN Users!ReLoginWithError(p, q) /\ UNCHANGED overlapped
                   ELSE /\ Users!Becomes(p, q) /\ UNCHANGED errorSaved
                        /\ overlapped' = IF Users!Registering(address) = {} THEN overlapped
                                         ELSE overlapped \cup {address}
            PROVE  PasswordTypeOK' /\ PasswordInv'
        <5>1. q \in PostRecord /\ ~q.able
          BY <4>4 DEF PostRecord, Users!NewPost
        <5>2. CASE Users!Of(address) # {}
          BY <4>1, <4>4, <5>1, <5>2
        <5>3. CASE Users!Of(address) = {}
          BY <3>4, <4>4, <5>3, RegisteringKeeps DEF Users!HandleRegister
        <5>4. QED
          BY <5>2, <5>3
      <4>5. QED
        BY <3>4, <4>2, <4>3, <4>4 DEF Users!HandleRegister
    <3>5. CASE Users!HashPassword(p)
      <4> DEFINE z == [old EXCEPT !.pc = "create"]
      <4>1. /\ old.pc = "hash" /\ ~old.able /\ old.result = "none"
            /\ UNCHANGED <<storeRefuses, registration, accounts, overlapped>>
            /\ errorSaved' \in BOOLEAN
        BY <3>0, <3>5 DEF Users!HashPassword, PasswordInv, LookupsTell
      <4>2. /\ z \in PostRecord /\ z.pc = "create" /\ ~z.able /\ z.result = "none"
            /\ z.address = old.address /\ z.password = old.password
        BY <3>0, <4>1 DEF PostRecord
      <4>3. Users!Becomes(p, z)
        BY <3>5 DEF Users!HashPassword
      <4> HIDE DEF z
      <4>4. QED
        BY <4>1, <4>2, <4>3, OtherPostsKeep DEF Registers
    <3>6. CASE Users!CreateUser(p)
      BY <3>6, CreatingKeeps
    <3>7. CASE Users!UserStoreFails(p)
      <4>1. ~old.able
        BY <3>7 DEF Users!UserStoreFails, PasswordInv, LookupsTell
      <4>2. QED
        BY <3>0, <3>7, <3>9, <4>1 DEF Users!UserStoreFails
    <3>8. QED
      BY <2>2, <3>1, <3>2, <3>3, <3>4, <3>5, <3>6, <3>7
  <2>3. QED
    BY <2>1, <2>2 DEF Users!Next
<1>3. QED
  BY <1>1, <1>2, PTL DEF Users!Spec

(* Whoever has registered gets in, for any number of posts and accounts,   *)
(* unless two registrations of the address overlapped and the store keeps  *)
(* both (handleRegister).                                                  *)
THEOREM RegistrantsAreLetIn == Users!Spec => []Users!RegistrantsGetIn
<1>1. PasswordInv => Users!RegistrantsGetIn
  BY DEF PasswordInv
<1>2. QED
  BY <1>1, PasswordInvariance, PTL

----------------------------------------------------------------------------
(* The one-shot contract that TokenGrants and Flows implement. *)
CONSTANTS Ticket, Root
VARIABLES status, heir

Tickets == INSTANCE OneShot

Chains == Tickets!TypeOK /\ Tickets!HeirsAreDistinct /\ Tickets!HeirsComeFromSpentTickets

(* Every step keeps the chains apart. *)
LEMMA ChainStep ==
  ASSUME None \notin Ticket, Chains, [Tickets!Next]_(Tickets!vars)
  PROVE  Chains'
<1> USE DEF Chains, Tickets!TypeOK, Tickets!Status, Tickets!HeirsAreDistinct,
        Tickets!HeirsComeFromSpentTickets
<1>1. ASSUME NEW t \in Ticket, Tickets!Issue(t) PROVE Chains'
  BY <1>1 DEF Tickets!Issue
<1>2. ASSUME NEW t \in Ticket, Tickets!Spend(t) PROVE Chains'
  BY <1>2 DEF Tickets!Spend
<1>3. ASSUME NEW t \in Ticket, NEW u \in Ticket, Tickets!Bear(t, u) PROVE Chains'
  <2>1. /\ status' = [status EXCEPT ![u] = "live"]
        /\ heir' = [heir EXCEPT ![t] = u]
        /\ status[t] = "spent" /\ status[u] = "unborn"
    BY <1>3 DEF Tickets!Bear
  <2>2. \A v \in Ticket : heir[v] # u
    BY <2>1
  <2>3. Tickets!TypeOK' /\ Tickets!HeirsAreDistinct'
    BY <2>1, <2>2
  <2>4. Tickets!HeirsComeFromSpentTickets'
    BY <2>1, <2>2
  <2>5. QED
    BY <2>3, <2>4
<1>4. ASSUME NEW S \in SUBSET Ticket, Tickets!Void(S) PROVE Chains'
  BY <1>4 DEF Tickets!Void
<1>5. CASE UNCHANGED Tickets!vars
  BY <1>5 DEF Tickets!vars
<1>6. QED
  BY <1>1, <1>2, <1>3, <1>4, <1>5 DEF Tickets!Next

(* Tickets form chains that neither fork nor merge (ports/token-store.ts). *)
THEOREM TicketsFormChains ==
  ASSUME None \notin Ticket
  PROVE  Tickets!Spec => [](Tickets!HeirsAreDistinct /\ Tickets!HeirsComeFromSpentTickets)
<1>1. Tickets!Init => Chains
  BY DEF Tickets!Init, Chains, Tickets!TypeOK, Tickets!Status, Tickets!HeirsAreDistinct,
         Tickets!HeirsComeFromSpentTickets
<1>2. Chains /\ [Tickets!Next]_(Tickets!vars) => Chains'
  BY ChainStep
<1>3. Chains => Tickets!HeirsAreDistinct /\ Tickets!HeirsComeFromSpentTickets
  BY DEF Chains
<1>4. QED
  BY <1>1, <1>2, <1>3, PTL DEF Tickets!Spec


----------------------------------------------------------------------------
(* A SAML service provider. *)

Message == Connection!Assertions \cup LogoutRequests \cup {NoAssertion}
SamlPostRecord ==
  [pc : {"idle", "lookup", "verify", "seen", "record", "slo", "hook", "revoke", "done"},
   message : Message, unsolicited : BOOLEAN, usedBefore : BOOLEAN, blind : BOOLEAN,
   recorded : BOOLEAN,
   result : {"none", "error", "denied", "success", "replay", "confirmed", "redirect",
             "acknowledged"}]

SamlTypeOK ==
  /\ samlConfig \in SamlConfigs /\ samlNow \in Nat
  /\ scratch \in [Connection!Keys -> Int]
  /\ samlFlows \in [LoginFlows -> {"none", "open", "taken"}]
  /\ posts \in [Posts -> SamlPostRecord]
  /\ used \subseteq Connection!Assertions

(* The id of a request that was answered is gone, unless its removal       *)
(* failed; the flow was started, so it does not come back.                 *)
Removed(a) ==
  samlFlows[a] # "none" /\ (scratch[<<"request", a>>] = 0 \/ a \in kept)

(* An assertion that logged somebody in is on record, for as long as it    *)
(* is valid.                                                               *)
OnRecord(a) ==
  /\ a \in LoginFlows => Removed(a)
  /\ a \in Unsolicited /\ ~Connection!OutlivesItsRecord(a) =>
       scratch[<<"assertion", a>>] >= AssertionOf[a].notOnOrAfter + samlConfig.clockSkew

(* What a post tells of its message at each stage. *)
Excused(q) ==
  \/ q.message \in LoginFlows /\ q.message \in kept
  \/ /\ q.message \in Unsolicited
     /\ q.blind \/ Connection!OutlivesItsRecord(q.message)
Tells(q) ==
  /\ q.pc # "done" => q.result = "none"
  /\ q.pc \in {"lookup", "verify", "seen", "record"} => q.message \in Connection!Assertions
  /\ q.pc = "lookup" => q.message \in LoginFlows
  /\ q.pc \in {"slo", "hook", "revoke"} => q.message \in LogoutRequests
  /\ q.recorded =>
       /\ q.pc \in {"hook", "revoke", "done"} /\ q.message \in LogoutRequests
       /\ q.result \in {"none", "error", "confirmed"}
  /\ q.pc \in {"lookup", "verify"} /\ q.message \in Unsolicited => q.unsolicited
  /\ q.pc \in {"lookup", "verify", "seen"} /\ q.message \in Unsolicited => ~q.usedBefore
  /\ q.pc \in {"lookup", "verify"} /\ q.message \in LoginFlows =>
       samlFlows[q.message] # "none"
  /\ q.pc \in {"seen", "record"} /\ q.message \in LoginFlows => Removed(q.message)
  /\ q.pc \in {"verify", "seen", "record"} \/ q.result = "success" =>
       (q.usedBefore => Excused(q))
  /\ q.result = "confirmed" => q.message \in carriedOut

(* Somebody put the logout request on record. *)
Logged(l) == \E q \in Posts : posts[q].message = l /\ posts[q].recorded

SamlInv ==
  /\ \A a \in used : OnRecord(a)
  /\ \A p \in Posts : Tells(posts[p])
  /\ \A l \in LogoutRequests : scratch[<<"logout", l>>] # 0 => Logged(l)
  /\ \A p \in Posts : posts[p].result = "replay" => Logged(posts[p].message)

LEMMA ScratchKeys ==
  /\ \A a \in LoginFlows : <<"request", a>> \in Connection!Keys
  /\ \A a \in Connection!Assertions : <<"assertion", a>> \in Connection!Keys
  /\ \A l \in LogoutRequests : <<"logout", l>> \in Connection!Keys
  /\ \A x, y : /\ <<"request", x>> # <<"assertion", y>>
               /\ <<"request", x>> # <<"logout", y>>
               /\ <<"assertion", x>> # <<"logout", y>>
               /\ <<"request", x>> = <<"request", y>> => x = y
               /\ <<"assertion", x>> = <<"assertion", y>> => x = y
               /\ <<"logout", x>> = <<"logout", y>> => x = y
<1>1. /\ \A a \in LoginFlows : <<"request", a>> \in Connection!Keys
      /\ \A a \in Connection!Assertions : <<"assertion", a>> \in Connection!Keys
      /\ \A l \in LogoutRequests : <<"logout", l>> \in Connection!Keys
  BY DEF Connection!Keys
<1>2. ASSUME NEW x, NEW y
      PROVE  /\ <<"request", x>> # <<"assertion", y>>
             /\ <<"request", x>> # <<"logout", y>>
             /\ <<"assertion", x>> # <<"logout", y>>
             /\ <<"request", x>> = <<"request", y>> => x = y
             /\ <<"assertion", x>> = <<"assertion", y>> => x = y
             /\ <<"logout", x>> = <<"logout", y>> => x = y
  OBVIOUS
<1>3. QED
  BY <1>1, <1>2

(* What a step may do to the rest, when the posts in S stay as they are.   *)
Onward(S) ==
  /\ \A q \in S : posts'[q] = posts[q]
  /\ samlConfig' = samlConfig
  /\ kept \subseteq kept' /\ carriedOut \subseteq carriedOut'
  /\ \A f \in LoginFlows :
       /\ samlFlows[f] # "none" => samlFlows'[f] # "none"
       /\ Removed(f) => Removed(f)'
  /\ \A p \in Posts :
       posts[p].recorded => posts'[p].recorded /\ posts'[p].message = posts[p].message

(* What the others tell stays true, and what is on record stays logged.    *)
LEMMA OnwardKeeps ==
  ASSUME SamlTypeOK, SamlInv, NEW S \in SUBSET Posts, Onward(S)
  PROVE  /\ \A q \in S : Tells(posts[q])'
         /\ \A l : Logged(l) => Logged(l)'
<1>1. ASSUME NEW q \in S PROVE Tells(posts[q])'
  <2>1. Tells(posts[q]) /\ posts'[q] = posts[q]
    BY DEF SamlInv, Onward
  <2>2. Excused(posts[q]) => Excused(posts[q])'
    BY <2>1 DEF Onward, Excused, Connection!OutlivesItsRecord
  <2>3. /\ posts[q].message \in LoginFlows /\ Removed(posts[q].message)
             => Removed(posts[q].message)'
        /\ posts[q].message \in LoginFlows /\ samlFlows[posts[q].message] # "none"
             => samlFlows'[posts[q].message] # "none"
        /\ posts[q].message \in carriedOut => posts[q].message \in carriedOut'
    BY <2>1 DEF Onward, Removed
  <2>4. QED
    BY <2>1, <2>2, <2>3 DEF Tells
<1>2. ASSUME NEW l, Logged(l) PROVE Logged(l)'
  BY <1>2 DEF Logged, Onward
<1>3. QED
  BY <1>1, <1>2

(* What is left to show of a step then. *)
LEMMA StepKeeps ==
  ASSUME SamlTypeOK, SamlInv, NEW S \in SUBSET Posts, Onward(S),
         \A p \in Posts \ S :
           /\ Tells(posts[p])'
           /\ posts'[p].result = "replay" => \E l : posts'[p].message = l /\ Logged(l),
         \A a \in used' : OnRecord(a)',
         \A l \in LogoutRequests :
           scratch'[<<"logout", l>>] # 0 => scratch[<<"logout", l>>] # 0 \/ Logged(l)'
  PROVE  SamlInv'
<1>1. /\ \A q \in S : Tells(posts[q])'
      /\ \A l : Logged(l) => Logged(l)'
  BY OnwardKeeps
<1>2. \A q \in Posts : Tells(posts[q])'
  BY <1>1
<1>3. \A l \in LogoutRequests : scratch'[<<"logout", l>>] # 0 => Logged(l)'
  BY <1>1 DEF SamlInv
<1>4. ASSUME NEW q \in Posts, posts'[q].result = "replay"
      PROVE  \E l : posts'[q].message = l /\ Logged(l)
  <2>1. CASE q \notin S
    BY <1>4, <2>1
  <2>2. CASE q \in S
    BY <1>4, <2>2 DEF Onward, SamlInv
  <2>3. QED
    BY <2>1, <2>2
<1>5. \A q \in Posts : (posts[q].result = "replay" => Logged(posts[q].message))'
  <2> SUFFICES ASSUME NEW q \in Posts, posts'[q].result = "replay"
               PROVE  Logged(posts[q].message)'
    OBVIOUS
  <2>1. PICK l : posts'[q].message = l /\ Logged(l)
    BY <1>4
  <2>2. Logged(l)'
    BY <1>1, <2>1
  <2>3. QED
    BY <2>1, <2>2 DEF Logged
<1>6. QED
  BY <1>2, <1>3, <1>5 DEF SamlInv

LEMMA Ending ==
  ASSUME SamlTypeOK, NEW p \in Posts, NEW q \in SamlPostRecord,
         NEW result \in {"error", "denied", "success", "replay", "confirmed", "redirect",
                         "acknowledged"},
         Connection!Ends(p, q, result)
  PROVE  /\ posts' \in [Posts -> SamlPostRecord]
         /\ posts'[p].pc = "done" /\ posts'[p].result = result
         /\ posts'[p].message = q.message /\ posts'[p].blind = q.blind
         /\ posts'[p].usedBefore = q.usedBefore /\ posts'[p].recorded = q.recorded
         /\ \A r \in Posts \ {p} : posts'[r] = posts[r]
<1> DEFINE z == [q EXCEPT !.pc = "done", !.result = result]
<1>1. /\ z \in SamlPostRecord /\ z.pc = "done" /\ z.result = result
      /\ z.message = q.message /\ z.blind = q.blind
      /\ z.usedBefore = q.usedBefore /\ z.recorded = q.recorded
  BY DEF SamlPostRecord
<1>2. posts' = [posts EXCEPT ![p] = z]
  BY DEF Connection!Ends, Connection!Becomes
<1> HIDE DEF z
<1>3. QED
  BY <1>1, <1>2 DEF SamlTypeOK

LEMMA Replacing ==
  ASSUME SamlTypeOK, NEW p \in Posts, NEW q \in SamlPostRecord, Connection!Becomes(p, q)
  PROVE  /\ posts' \in [Posts -> SamlPostRecord] /\ posts'[p] = q
         /\ \A r \in Posts \ {p} : posts'[r] = posts[r]
  BY DEF Connection!Becomes, SamlTypeOK

LEMMA Advancing ==
  ASSUME SamlTypeOK, NEW p \in Posts, NEW q \in SamlPostRecord,
         NEW pc \in {"lookup", "verify", "seen", "slo", "revoke"},
         Connection!Becomes(p, [q EXCEPT !.pc = pc])
  PROVE  /\ posts' \in [Posts -> SamlPostRecord]
         /\ posts'[p].pc = pc /\ posts'[p].result = q.result
         /\ posts'[p].message = q.message /\ posts'[p].unsolicited = q.unsolicited
         /\ posts'[p].usedBefore = q.usedBefore /\ posts'[p].recorded = q.recorded
         /\ \A r \in Posts \ {p} : posts'[r] = posts[r]
<1> DEFINE z == [q EXCEPT !.pc = pc]
<1>1. /\ z \in SamlPostRecord /\ z.pc = pc /\ z.result = q.result
      /\ z.message = q.message /\ z.unsolicited = q.unsolicited
      /\ z.usedBefore = q.usedBefore /\ z.recorded = q.recorded
  BY DEF SamlPostRecord
<1>2. Connection!Becomes(p, z)
  OBVIOUS
<1> HIDE DEF z
<1>3. QED
  BY <1>1, <1>2, Replacing

(* A post that ends without a login, a logout or a replay tells no more.   *)
LEMMA NothingToTell ==
  ASSUME NEW q \in SamlPostRecord, q.pc = "done", q.result \in {"error", "denied"},
         q.recorded => q.message \in LogoutRequests /\ q.result = "error"
  PROVE  Tells(q)
  BY DEF Tells

(* If the store keeps every record, what was used stays on record. *)
LEMMA RecordsStay ==
  ASSUME SamlInv, NEW S, Onward(S), used' = used,
         \A a \in Connection!Assertions :
           scratch'[<<"assertion", a>>] = scratch[<<"assertion", a>>],
         used \subseteq Connection!Assertions
  PROVE  \A a \in used' : OnRecord(a)'
<1> SUFFICES ASSUME NEW a \in used PROVE OnRecord(a)'
  OBVIOUS
<1>1. OnRecord(a) /\ a \in Connection!Assertions
  BY DEF SamlInv
<1>2. Connection!OutlivesItsRecord(a)' <=> Connection!OutlivesItsRecord(a)
  BY DEF Onward, Connection!OutlivesItsRecord
<1>3. a \in LoginFlows => Removed(a)'
  BY <1>1 DEF OnRecord, Onward
<1>4. QED
  BY <1>1, <1>2, <1>3 DEF OnRecord, Onward

----------------------------------------------------------------------------
(* A login starts: nobody has answered it yet. *)
LEMMA RedirectKeeps ==
  ASSUME Connection!SamlAssumption, SamlTypeOK, SamlInv, NEW f \in LoginFlows,
         Connection!BuildAuthnRequestRedirect(f)
  PROVE  SamlTypeOK' /\ SamlInv'
<1>1. /\ samlFlows[f] = "none"
      /\ UNCHANGED <<posts, used, kept, carriedOut, samlConfig, samlNow>>
      /\ \E flow \in {"open", "taken"} : samlFlows' = [samlFlows EXCEPT ![f] = flow]
      /\ \/ scratch' = [scratch EXCEPT ![<<"request", f>>] = samlNow + RequestTtl]
         \/ scratch' = scratch
  BY DEF Connection!BuildAuthnRequestRedirect, Connection!Aside, Connection!Puts
<1>2. samlNow + RequestTtl \in Int
  BY DEF Connection!SamlAssumption, SamlTypeOK
<1>3. SamlTypeOK'
  BY <1>1, <1>2 DEF SamlTypeOK
<1>4. /\ \A g \in LoginFlows \ {f} : /\ samlFlows'[g] = samlFlows[g]
                                     /\ scratch'[<<"request", g>>] = scratch[<<"request", g>>]
      /\ samlFlows'[f] # "none"
      /\ \A a \in Connection!Assertions : scratch'[<<"assertion", a>>] = scratch[<<"assertion", a>>]
      /\ \A l \in LogoutRequests : scratch'[<<"logout", l>>] = scratch[<<"logout", l>>]
  BY <1>1, ScratchKeys DEF SamlTypeOK
<1>5. Onward(Posts)
  BY <1>1, <1>4 DEF Onward, Removed
<1>6. \A a \in used' : OnRecord(a)'
  BY <1>1, <1>4, <1>5, RecordsStay DEF SamlTypeOK
<1>7. QED
  BY <1>3, <1>4, <1>5, <1>6, StepKeeps

(* An assertion arrives. *)
LEMMA ConsumingKeeps ==
  ASSUME Connection!SamlAssumption, SamlTypeOK, SamlInv, NEW p \in Posts,
         Connection!ConsumeAssertion(p)
  PROVE  SamlTypeOK' /\ SamlInv'
<1>1. PICK a \in Connection!Assertions, f \in LoginFlows \cup {NoAssertion}, u \in BOOLEAN,
           q \in SamlPostRecord :
        /\ u = (f = NoAssertion)
        /\ q = [Connection!Fresh EXCEPT !.message = a, !.unsolicited = u]
        /\ posts[p].pc = "idle"
        /\ a \in LoginFlows => samlFlows[a] # "none"
        /\ samlFlows' = IF u THEN samlFlows ELSE [samlFlows EXCEPT ![f] = "taken"]
        /\ \/ Connection!Ends(p, q, "error") \/ Connection!Ends(p, q, "denied")
           \/ a \in LoginFlows /\ Connection!Becomes(p, [q EXCEPT !.pc = "lookup"])
           \/ a \notin LoginFlows /\ u /\ Connection!Becomes(p, [q EXCEPT !.pc = "verify"])
  <2>1. PICK a \in Connection!Assertions, f \in LoginFlows \cup {NoAssertion} :
          LET u == f = NoAssertion
              q == [Connection!Fresh EXCEPT !.message = a, !.unsolicited = u]
          IN /\ a \in LoginFlows => samlFlows[a] # "none"
             /\ samlFlows' = IF u THEN samlFlows ELSE [samlFlows EXCEPT ![f] = "taken"]
             /\ IF (u /\ ~samlConfig.idpInitiated) \/ ~Connection!CanBuildSamlInstance
                THEN Connection!Ends(p, q, "error")
                ELSE IF a \in LoginFlows
                THEN Connection!Becomes(p, [q EXCEPT !.pc = "lookup"])
                ELSE IF u THEN Connection!Becomes(p, [q EXCEPT !.pc = "verify"])
                ELSE Connection!Ends(p, q, "denied")
    BY DEF Connection!ConsumeAssertion
  <2>2. PICK u \in BOOLEAN : u = (f = NoAssertion)
    OBVIOUS
  <2> DEFINE q == [Connection!Fresh EXCEPT !.message = a, !.unsolicited = u]
  <2>3. q \in SamlPostRecord
    BY DEF Connection!Fresh, SamlPostRecord, Message
  <2>4. posts[p].pc = "idle"
    BY DEF Connection!ConsumeAssertion
  <2>5. QED
    BY <2>1, <2>2, <2>3, <2>4
<1>2. /\ q.message = a /\ q.unsolicited = u /\ ~q.usedBefore /\ ~q.recorded
      /\ q.result = "none"
  BY <1>1 DEF Connection!Fresh
<1>3. UNCHANGED <<samlConfig, samlNow, scratch, used, kept, carriedOut>>
  BY DEF Connection!ConsumeAssertion, Connection!Aside
<1>4. /\ posts' \in [Posts -> SamlPostRecord]
      /\ \A r \in Posts \ {p} : posts'[r] = posts[r]
      /\ posts'[p].message = a /\ ~posts'[p].usedBefore /\ ~posts'[p].recorded
      /\ \/ posts'[p].pc = "done" /\ posts'[p].result \in {"error", "denied"}
         \/ /\ posts'[p].pc = "lookup" /\ posts'[p].result = "none" /\ a \in LoginFlows
         \/ /\ posts'[p].pc = "verify" /\ posts'[p].result = "none" /\ a \notin LoginFlows
            /\ posts'[p].unsolicited
  BY <1>1, <1>2, Ending, Advancing
<1>5. /\ samlFlows' \in [LoginFlows -> {"none", "open", "taken"}]
      /\ \A g \in LoginFlows : samlFlows[g] # "none" => samlFlows'[g] # "none"
  BY <1>1 DEF SamlTypeOK
<1>6. ~posts[p].recorded
  BY <1>1 DEF SamlInv, Tells
<1>7. Onward(Posts \ {p})
  BY <1>3, <1>4, <1>5, <1>6 DEF Onward, Removed
<1>8. \A x \in used' : OnRecord(x)'
  BY <1>3, <1>7, RecordsStay DEF SamlTypeOK
<1>9. Tells(posts[p])'
  <2>1. a \in Unsolicited => a \notin LoginFlows
    BY DEF Connection!SamlAssumption
  <2>2. QED
    BY <1>1, <1>4, <1>5, <2>1 DEF Tells
<1>10. SamlTypeOK'
  BY <1>3, <1>4, <1>5 DEF SamlTypeOK
<1>11. QED
  BY <1>3, <1>4, <1>7, <1>8, <1>9, <1>10, StepKeeps

(* A request id that is still there was not removed for an assertion that  *)
(* was used, unless the removal failed.                                    *)
LEMMA LookingUpKeeps ==
  ASSUME Connection!SamlAssumption, SamlTypeOK, SamlInv, NEW p \in Posts,
         Connection!GetAsync(p)
  PROVE  SamlTypeOK' /\ SamlInv'
<1>1. PICK a \in LoginFlows : a = posts[p].message
  BY DEF Connection!GetAsync, SamlInv, Tells
<1>2. PICK b \in BOOLEAN : b = (a \in used)
  <2>1. (a \in used) \in BOOLEAN
    OBVIOUS
  <2>2. QED
    BY <2>1, Zenon
<1> DEFINE q == [posts[p] EXCEPT !.usedBefore = b]
<1>3. posts[p] \in SamlPostRecord /\ posts[p].pc = "lookup" /\ posts[p].result = "none"
  BY DEF SamlTypeOK, Connection!GetAsync, SamlInv, Tells
<1>4. /\ q \in SamlPostRecord /\ q.message = a /\ q.usedBefore = b
      /\ q.recorded = posts[p].recorded /\ q.result = "none"
  BY <1>1, <1>3 DEF SamlPostRecord
<1>5. q = [posts[p] EXCEPT !.usedBefore = a \in used]
  BY <1>2
<1>6. /\ \/ Connection!Ends(p, q, "denied")
         \/ /\ samlNow < scratch[<<"request", a>>]
            /\ Connection!Becomes(p, [q EXCEPT !.pc = "verify"])
      /\ UNCHANGED <<samlConfig, samlNow, scratch, samlFlows, used, kept, carriedOut>>
  BY <1>1, <1>5 DEF Connection!GetAsync, Connection!NoLogin, Connection!Aside,
                    Connection!Holds
<1> HIDE DEF q
<1>7. ~posts[p].recorded /\ samlFlows[a] # "none" /\ a \notin Unsolicited
      /\ a \in Connection!Assertions
  BY <1>1, <1>3 DEF SamlInv, Tells, Connection!Assertions, Connection!SamlAssumption
<1>8. samlNow < scratch[<<"request", a>>] /\ a \in used => a \in kept
  <2>1. scratch[<<"request", a>>] \in Int /\ samlNow \in Nat
    BY ScratchKeys DEF SamlTypeOK
  <2>2. a \in used => Removed(a)
    BY DEF SamlInv, OnRecord
  <2>3. QED
    BY <2>1, <2>2 DEF Removed
<1>9. /\ posts' \in [Posts -> SamlPostRecord]
      /\ \A r \in Posts \ {p} : posts'[r] = posts[r]
      /\ posts'[p].message = a /\ ~posts'[p].recorded
      /\ \/ posts'[p].pc = "done" /\ posts'[p].result = "denied"
         \/ /\ posts'[p].pc = "verify" /\ posts'[p].result = "none"
            /\ posts'[p].usedBefore => a \in kept
  BY <1>2, <1>4, <1>6, <1>7, <1>8, Ending, Advancing
<1>10. Onward(Posts \ {p})
  BY <1>6, <1>7, <1>9 DEF Onward, Removed
<1>11. Tells(posts[p])'
  BY <1>6, <1>7, <1>9 DEF Tells, Excused
<1>12. \A x \in used' : OnRecord(x)'
  BY <1>6, <1>10, RecordsStay DEF SamlTypeOK
<1>13. SamlTypeOK'
  BY <1>6, <1>9 DEF SamlTypeOK
<1>14. QED
  BY <1>6, <1>9, <1>10, <1>11, <1>12, <1>13, StepKeeps

(* The id is removed before the assertion counts as used. *)
LEMMA VerifyingSamlKeeps ==
  ASSUME Connection!SamlAssumption, SamlTypeOK, SamlInv, NEW p \in Posts,
         Connection!Verify(p)
  PROVE  SamlTypeOK' /\ SamlInv'
<1>1. PICK a \in Connection!Assertions : a = posts[p].message
  BY DEF Connection!Verify, SamlInv, Tells
<1>2. PICK q \in SamlPostRecord : q = posts[p]
  BY DEF SamlTypeOK
<1>3. /\ q.pc = "verify" /\ q.message = a /\ q.result = "none" /\ ~q.recorded
      /\ a \in LoginFlows => samlFlows[a] # "none" /\ a \notin Unsolicited
      /\ a \notin LoginFlows => a \in Unsolicited /\ q.unsolicited /\ ~q.usedBefore
      /\ q.usedBefore => Excused(q)
  BY <1>1, <1>2 DEF Connection!Verify, SamlInv, Tells, Connection!Assertions,
                    Connection!SamlAssumption
<1>4. /\ \/ Connection!Ends(p, q, "denied") /\ used' = used
         \/ Connection!Becomes(p, [q EXCEPT !.pc = "seen"]) /\ used' = used
         \/ Connection!Ends(p, q, "success") /\ used' = used \cup {a} /\ a \in LoginFlows
      /\ UNCHANGED <<samlConfig, samlNow, samlFlows, carriedOut>>
  BY <1>1, <1>2, <1>3 DEF Connection!Verify, Connection!MapProfile, Connection!Aside
<1>5. /\ kept \subseteq kept'
      /\ \/ scratch' = scratch
         \/ a \in LoginFlows /\ scratch' = [scratch EXCEPT ![<<"request", a>>] = 0]
      /\ a \in LoginFlows =>
           \/ scratch' = [scratch EXCEPT ![<<"request", a>>] = 0]
           \/ a \in kept'
  BY <1>1 DEF Connection!Verify, Connection!RemoveAsync
<1>6. /\ scratch' \in [Connection!Keys -> Int]
      /\ \A f \in LoginFlows :
           scratch'[<<"request", f>>] = scratch[<<"request", f>>] \/ scratch'[<<"request", f>>] = 0
      /\ a \in LoginFlows => scratch'[<<"request", a>>] = 0 \/ a \in kept'
      /\ \A x \in Connection!Assertions : scratch'[<<"assertion", x>>] = scratch[<<"assertion", x>>]
      /\ \A l \in LogoutRequests : scratch'[<<"logout", l>>] = scratch[<<"logout", l>>]
  BY <1>5, ScratchKeys DEF SamlTypeOK
<1>7. /\ posts' \in [Posts -> SamlPostRecord]
      /\ \A r \in Posts \ {p} : posts'[r] = posts[r]
      /\ posts'[p].message = a /\ ~posts'[p].recorded
      /\ posts'[p].usedBefore = q.usedBefore
      /\ \/ posts'[p].pc = "done" /\ posts'[p].result = "denied"
         \/ posts'[p].pc = "seen" /\ posts'[p].result = "none"
         \/ posts'[p].pc = "done" /\ posts'[p].result = "success" /\ a \in LoginFlows
  BY <1>3, <1>4, Ending, Advancing
<1>8. Onward(Posts \ {p})
  BY <1>2, <1>3, <1>4, <1>5, <1>6, <1>7 DEF Onward, Removed
<1>9. a \in LoginFlows => Removed(a)'
  BY <1>3, <1>4, <1>6 DEF Removed
<1>10. Tells(posts[p])'
  <2>1. posts'[p].usedBefore => a \in LoginFlows /\ a \in kept'
    BY <1>3, <1>5, <1>7 DEF Excused
  <2>2. QED
    BY <1>3, <1>7, <1>9, <2>1 DEF Tells, Excused
<1>11. \A x \in used' : OnRecord(x)'
  <2>1. CASE used' = used
    BY <1>6, <1>8, <2>1, RecordsStay DEF SamlTypeOK
  <2>2. CASE used' = used \cup {a} /\ a \in LoginFlows
    <3>1. ASSUME NEW x \in used PROVE OnRecord(x)'
      <4>1. OnRecord(x) /\ x \in Connection!Assertions
        BY DEF SamlInv, SamlTypeOK
      <4>2. x \in LoginFlows => Removed(x)'
        BY <1>8, <4>1 DEF Onward, OnRecord
      <4>3. Connection!OutlivesItsRecord(x)' <=> Connection!OutlivesItsRecord(x)
        BY <1>4 DEF Connection!OutlivesItsRecord
      <4>4. QED
        BY <1>4, <1>6, <4>1, <4>2, <4>3 DEF OnRecord
    <3>2. OnRecord(a)'
      BY <1>3, <1>9, <2>2 DEF OnRecord
    <3>3. QED
      BY <2>2, <3>1, <3>2
  <2>3. QED
    BY <1>4, <2>1, <2>2
<1>12. SamlTypeOK'
  BY <1>4, <1>6, <1>7 DEF SamlTypeOK
<1>13. QED
  BY <1>6, <1>7, <1>8, <1>10, <1>11, <1>12, StepKeeps

(* A record is kept for as long as the assertion is valid. *)
LEMMA RecordsOutlive ==
  ASSUME Connection!SamlAssumption, SamlTypeOK, NEW a \in Connection!Assertions
  PROVE  /\ Connection!ReplayTtl(a) \in Int
         /\ ~Connection!OutlivesItsRecord(a) =>
              /\ AssertionOf[a].notOnOrAfter \in Nat
              /\ samlNow + Connection!ReplayTtl(a)
                   >= AssertionOf[a].notOnOrAfter + samlConfig.clockSkew
<1>1. /\ samlNow \in Nat /\ samlConfig.clockSkew \in Nat
      /\ AssertionOf[a].notOnOrAfter \in Nat \cup {Forever}
      /\ Minimum \in Nat /\ Longest \in Nat /\ Default \in Nat
  BY DEF Connection!SamlAssumption, SamlTypeOK
<1>2. CASE AssertionOf[a].notOnOrAfter = Forever
  BY <1>1, <1>2 DEF Connection!ReplayTtl, Connection!Least, Connection!Most,
                    Connection!OutlivesItsRecord
<1>3. CASE AssertionOf[a].notOnOrAfter # Forever
  BY <1>1, <1>3 DEF Connection!ReplayTtl, Connection!Least, Connection!Most,
                    Connection!OutlivesItsRecord
<1>4. QED
  BY <1>2, <1>3

(* An assertion that came by itself and was used is found on record, or    *)
(* the lookup was blind.                                                   *)
LEMMA LookingForReplayKeeps ==
  ASSUME Connection!SamlAssumption, SamlTypeOK, SamlInv, NEW p \in Posts,
         Connection!LookForReplay(p)
  PROVE  SamlTypeOK' /\ SamlInv'
<1>1. PICK a \in Connection!Assertions : a = posts[p].message
  BY DEF Connection!LookForReplay, SamlInv, Tells
<1>2. PICK q \in SamlPostRecord : q = posts[p]
  BY DEF SamlTypeOK
<1>3. /\ q.pc = "seen" /\ q.message = a /\ q.result = "none" /\ ~q.recorded
      /\ a \in LoginFlows => a \notin Unsolicited /\ Removed(a)
      /\ a \in Unsolicited => a \notin LoginFlows /\ ~q.usedBefore
      /\ q.usedBefore => Excused(q)
  BY <1>1, <1>2 DEF Connection!LookForReplay, SamlInv, Tells, Connection!SamlAssumption
<1>4. UNCHANGED <<samlConfig, samlNow, scratch, samlFlows, used, kept, carriedOut>>
  BY DEF Connection!LookForReplay, Connection!NoLogin, Connection!Aside
<1>5. PICK failed \in BOOLEAN :
        IF ~failed /\ Connection!Holds(<<"assertion", a>>) THEN Connection!Ends(p, q, "denied")
        ELSE Connection!Becomes(p, [q EXCEPT !.pc = "record",
               !.blind = failed \/ ~Connection!WithinConditions(a),
               !.usedBefore = @ \/ a \in used \cap Unsolicited])
  BY <1>1, <1>2 DEF Connection!LookForReplay
<1>6. PICK blind \in BOOLEAN : blind = (failed \/ ~Connection!WithinConditions(a))
  <2>1. (failed \/ ~Connection!WithinConditions(a)) \in BOOLEAN
    OBVIOUS
  <2>2. QED
    BY <2>1, Zenon
<1>7. PICK before \in BOOLEAN : before = (q.usedBefore \/ a \in used \cap Unsolicited)
  <2>1. (q.usedBefore \/ a \in used \cap Unsolicited) \in BOOLEAN
    OBVIOUS
  <2>2. QED
    BY <2>1, Zenon
<1> DEFINE z == [q EXCEPT !.pc = "record", !.blind = blind, !.usedBefore = before]
<1>8. /\ z \in SamlPostRecord /\ z.pc = "record" /\ z.blind = blind
      /\ z.usedBefore = before /\ z.recorded = q.recorded /\ z.message = q.message
      /\ z.result = q.result
  BY DEF SamlPostRecord
<1>9. \/ Connection!Ends(p, q, "denied")
      \/ /\ Connection!Becomes(p, z)
         /\ failed \/ ~Connection!Holds(<<"assertion", a>>)
  BY <1>5, <1>6, <1>7
<1> HIDE DEF z
<1>10. /\ posts' \in [Posts -> SamlPostRecord]
       /\ \A r \in Posts \ {p} : posts'[r] = posts[r]
       /\ posts'[p].message = a /\ ~posts'[p].recorded
       /\ \/ posts'[p].pc = "done" /\ posts'[p].result = "denied"
          \/ /\ posts'[p].pc = "record" /\ posts'[p].result = "none"
             /\ posts'[p].usedBefore = before /\ posts'[p].blind = blind
             /\ failed \/ ~Connection!Holds(<<"assertion", a>>)
  BY <1>3, <1>8, <1>9, Ending, Replacing
<1>11. Onward(Posts \ {p})
  BY <1>2, <1>3, <1>4, <1>10 DEF Onward, Removed
<1>12. ASSUME before, failed \/ ~Connection!Holds(<<"assertion", a>>)
       PROVE  \/ a \in LoginFlows /\ a \in kept
              \/ a \in Unsolicited /\ (blind \/ Connection!OutlivesItsRecord(a))
  <2>1. CASE a \in LoginFlows
    BY <1>3, <1>7, <1>12, <2>1 DEF Excused
  <2>2. CASE a \notin LoginFlows
    <3>1. a \in Unsolicited /\ a \in used
      BY <1>3, <1>7, <1>12, <2>2 DEF Connection!Assertions
    <3>2. SUFFICES ASSUME ~blind, ~Connection!OutlivesItsRecord(a) PROVE FALSE
      BY <3>1
    <3>3. ~failed /\ Connection!WithinConditions(a)
      BY <1>6, <3>2
    <3>4. scratch[<<"assertion", a>>]
            >= AssertionOf[a].notOnOrAfter + samlConfig.clockSkew
      BY <3>1, <3>2 DEF SamlInv, OnRecord
    <3>5. /\ scratch[<<"assertion", a>>] \in Int /\ samlNow \in Nat
          /\ samlConfig.clockSkew \in Nat /\ AssertionOf[a].notOnOrAfter \in Nat
      BY <3>2, ScratchKeys, RecordsOutlive DEF SamlTypeOK, Connection!SamlAssumption
    <3>6. AssertionOf[a].notOnOrAfter # Forever
      BY <3>2 DEF Connection!OutlivesItsRecord
    <3>7. QED
      BY <1>12, <3>3, <3>4, <3>5, <3>6 DEF Connection!WithinConditions, Connection!Holds
  <2>3. QED
    BY <2>1, <2>2
<1>13. Tells(posts[p])'
  <2>1. Connection!OutlivesItsRecord(a)' <=> Connection!OutlivesItsRecord(a)
    BY <1>4 DEF Connection!OutlivesItsRecord
  <2>2. Removed(a)' <=> Removed(a)
    BY <1>4 DEF Removed
  <2>3. posts'[p].pc = "record" /\ posts'[p].usedBefore => Excused(posts[p])'
    BY <1>4, <1>10, <1>12, <2>1 DEF Excused
  <2>4. QED
    BY <1>3, <1>10, <2>2, <2>3 DEF Tells
<1>14. \A x \in used' : OnRecord(x)'
  BY <1>4, <1>11, RecordsStay DEF SamlTypeOK
<1>15. SamlTypeOK'
  BY <1>4, <1>10 DEF SamlTypeOK
<1>16. QED
  BY <1>4, <1>10, <1>11, <1>13, <1>14, <1>15, StepKeeps

(* It goes on record before the login it is for. *)
LEMMA RecordingSamlKeeps ==
  ASSUME Connection!SamlAssumption, SamlTypeOK, SamlInv, NEW p \in Posts,
         Connection!RecordAssertion(p)
  PROVE  SamlTypeOK' /\ SamlInv'
<1>1. PICK a \in Connection!Assertions : a = posts[p].message
  BY DEF Connection!RecordAssertion, SamlInv, Tells
<1>2. PICK q \in SamlPostRecord : q = posts[p]
  BY DEF SamlTypeOK
<1>3. /\ q.pc = "record" /\ q.message = a /\ q.result = "none" /\ ~q.recorded
      /\ a \in LoginFlows => a \notin Unsolicited /\ Removed(a)
      /\ q.usedBefore => Excused(q)
  BY <1>1, <1>2 DEF Connection!RecordAssertion, SamlInv, Tells, Connection!SamlAssumption
<1>4. PICK ttl \in Int : ttl = Connection!ReplayTtl(a)
  BY RecordsOutlive
<1>5. /\ UNCHANGED <<samlConfig, samlNow, samlFlows, kept, carriedOut>>
      /\ \/ /\ scratch' = [scratch EXCEPT ![<<"assertion", a>>] = samlNow + ttl]
            /\ \/ Connection!Ends(p, q, "success") /\ used' = used \cup {a}
               \/ Connection!Ends(p, q, "denied") /\ used' = used
         \/ Connection!Ends(p, q, "error") /\ scratch' = scratch /\ used' = used
  BY <1>1, <1>2, <1>3, <1>4 DEF Connection!RecordAssertion, Connection!MapProfile, Connection!Puts,
                    Connection!Aside
<1>6. samlNow + ttl \in Int
  BY DEF SamlTypeOK
<1>7. /\ scratch' \in [Connection!Keys -> Int]
      /\ \A f \in LoginFlows : scratch'[<<"request", f>>] = scratch[<<"request", f>>]
      /\ \A l \in LogoutRequests : scratch'[<<"logout", l>>] = scratch[<<"logout", l>>]
      /\ \A x \in Connection!Assertions \ {a} :
           scratch'[<<"assertion", x>>] = scratch[<<"assertion", x>>]
      /\ \/ scratch'[<<"assertion", a>>] = samlNow + ttl
         \/ scratch'[<<"assertion", a>>] = scratch[<<"assertion", a>>] /\ used' = used
  BY <1>5, <1>6, ScratchKeys DEF SamlTypeOK
<1>8. /\ posts' \in [Posts -> SamlPostRecord]
      /\ \A r \in Posts \ {p} : posts'[r] = posts[r]
      /\ posts'[p].message = a /\ ~posts'[p].recorded
      /\ posts'[p].usedBefore = q.usedBefore /\ posts'[p].blind = q.blind
      /\ posts'[p].pc = "done" /\ posts'[p].result \in {"success", "denied", "error"}
  BY <1>3, <1>5, Ending
<1>9. Onward(Posts \ {p})
  BY <1>2, <1>3, <1>5, <1>7, <1>8 DEF Onward, Removed
<1>10. \A x : Connection!OutlivesItsRecord(x)' <=> Connection!OutlivesItsRecord(x)
  BY <1>5 DEF Connection!OutlivesItsRecord
<1>11. Tells(posts[p])'
  <2>1. Connection!OutlivesItsRecord(a)' <=> Connection!OutlivesItsRecord(a)
    BY <1>10
  <2>2. posts'[p].usedBefore => Excused(posts[p])'
    BY <1>3, <1>5, <1>8, <2>1 DEF Excused
  <2>3. QED
    BY <1>8, <2>2 DEF Tells
<1>12. ASSUME NEW x \in used' PROVE OnRecord(x)'
  <2>1. x \in Connection!Assertions
    BY <1>5 DEF SamlTypeOK
  <2>2. x \in LoginFlows => Removed(x)'
    <3>1. x \in LoginFlows => Removed(x)
      BY <1>3, <1>5 DEF SamlInv, OnRecord
    <3>2. QED
      BY <1>9, <3>1 DEF Onward
  <2>3. ASSUME x \in Unsolicited, ~Connection!OutlivesItsRecord(x)
        PROVE  scratch'[<<"assertion", x>>] >= AssertionOf[x].notOnOrAfter + samlConfig.clockSkew
    <3>1. CASE x = a /\ scratch'[<<"assertion", a>>] = samlNow + ttl
      BY <1>4, <2>3, <3>1, RecordsOutlive
    <3>2. CASE x \in used /\ scratch'[<<"assertion", x>>] = scratch[<<"assertion", x>>]
      BY <2>3, <3>2 DEF SamlInv, OnRecord
    <3>3. QED
      BY <1>5, <1>7, <2>1, <3>1, <3>2
  <2>4. QED
    BY <1>5, <1>10, <2>2, <2>3 DEF OnRecord
<1>13. SamlTypeOK'
  BY <1>5, <1>7, <1>8 DEF SamlTypeOK
<1>14. QED
  BY <1>7, <1>8, <1>9, <1>11, <1>12, <1>13, StepKeeps

(* Single logout: what is seen as a replay was put on record. *)
LEMMA ConsumingLogoutKeeps ==
  ASSUME SamlTypeOK, SamlInv, NEW p \in Posts, Connection!ConsumeSls(p)
  PROVE  SamlTypeOK' /\ SamlInv'
<1>1. PICK l \in LogoutRequests, failed \in BOOLEAN :
        LET q == [Connection!Fresh EXCEPT !.message = l]
        IN IF ~Connection!CanBuildSamlInstance THEN Connection!Ends(p, q, "error")
           ELSE IF ~failed /\ Connection!Holds(<<"logout", l>>)
           THEN Connection!Ends(p, q, "replay")
           ELSE Connection!Becomes(p, [q EXCEPT !.pc = "slo"])
  BY DEF Connection!ConsumeSls, Connection!SloKey
<1> DEFINE q == [Connection!Fresh EXCEPT !.message = l]
<1>2. /\ q \in SamlPostRecord /\ q.message = l /\ ~q.recorded /\ ~q.usedBefore
      /\ q.result = "none"
  BY DEF Connection!Fresh, SamlPostRecord, Message
<1>3. \/ Connection!Ends(p, q, "error")
      \/ Connection!Ends(p, q, "replay") /\ Connection!Holds(<<"logout", l>>)
      \/ Connection!Becomes(p, [q EXCEPT !.pc = "slo"])
  BY <1>1
<1>4. /\ UNCHANGED <<samlConfig, samlNow, scratch, samlFlows, used, kept, carriedOut>>
      /\ posts[p].pc = "idle"
  BY DEF Connection!ConsumeSls, Connection!NoLogin, Connection!Aside
<1> HIDE DEF q
<1>5. Connection!Holds(<<"logout", l>>) => Logged(l)
  <2>1. scratch[<<"logout", l>>] \in Int /\ samlNow \in Nat
    BY ScratchKeys DEF SamlTypeOK
  <2>2. QED
    BY <2>1 DEF Connection!Holds, SamlInv
<1>6. /\ posts' \in [Posts -> SamlPostRecord]
      /\ \A r \in Posts \ {p} : posts'[r] = posts[r]
      /\ posts'[p].message = l /\ ~posts'[p].recorded
      /\ \/ posts'[p].pc = "done" /\ posts'[p].result = "error"
         \/ posts'[p].pc = "done" /\ posts'[p].result = "replay" /\ Logged(l)
         \/ posts'[p].pc = "slo" /\ posts'[p].result = "none"
  BY <1>2, <1>3, <1>5, Ending, Advancing
<1>7. ~posts[p].recorded
  BY <1>4 DEF SamlInv, Tells
<1>8. Onward(Posts \ {p})
  BY <1>4, <1>6, <1>7 DEF Onward, Removed
<1>9. Tells(posts[p])'
  BY <1>6 DEF Tells
<1>10. \A x \in used' : OnRecord(x)'
  BY <1>4, <1>8, RecordsStay DEF SamlTypeOK
<1>11. SamlTypeOK'
  BY <1>4, <1>6 DEF SamlTypeOK
<1>12. posts'[p].result = "replay" => \E x : posts'[p].message = x /\ Logged(x)
  BY <1>6
<1>13. QED
  BY <1>4, <1>8, <1>9, <1>10, <1>11, <1>12, StepKeeps

LEMMA RecordingLogoutKeeps ==
  ASSUME Connection!SamlAssumption, SamlTypeOK, SamlInv, NEW p \in Posts,
         Connection!RecordLogout(p)
  PROVE  SamlTypeOK' /\ SamlInv'
<1>1. PICK q \in SamlPostRecord : q = posts[p]
  BY DEF SamlTypeOK
<1>2. PICK l \in LogoutRequests : l = q.message
  BY <1>1 DEF Connection!RecordLogout, SamlInv, Tells
<1>3. q.pc = "slo" /\ ~q.recorded /\ q.result = "none"
  BY <1>1 DEF Connection!RecordLogout, SamlInv, Tells
<1>4. UNCHANGED <<samlConfig, samlNow, samlFlows, used, kept, carriedOut>>
  BY DEF Connection!RecordLogout, Connection!NoLogin, Connection!Aside
<1>5. CASE Connection!Ends(p, q, "error") /\ scratch' = scratch
  <2>1. /\ posts' \in [Posts -> SamlPostRecord]
        /\ \A r \in Posts \ {p} : posts'[r] = posts[r]
        /\ ~posts'[p].recorded /\ posts'[p].pc = "done" /\ posts'[p].result = "error"
    BY <1>3, <1>5, Ending
  <2>2. Onward(Posts \ {p}) /\ Tells(posts[p])'
    BY <1>1, <1>3, <1>4, <1>5, <2>1 DEF Onward, Removed, Tells
  <2>3. \A x \in used' : OnRecord(x)'
    BY <1>4, <1>5, <2>2, RecordsStay DEF SamlTypeOK
  <2>4. SamlTypeOK'
    BY <1>4, <1>5, <2>1 DEF SamlTypeOK
  <2>5. QED
    BY <1>5, <2>1, <2>2, <2>3, <2>4, StepKeeps
<1>6. ASSUME NEW pc \in {"hook", "done"},
             scratch' = [scratch EXCEPT ![<<"logout", l>>] = samlNow + SloHorizon],
             Connection!Becomes(p, [q EXCEPT !.pc = pc, !.recorded = TRUE,
                                      !.result = IF pc = "done" THEN "error" ELSE @])
      PROVE  SamlTypeOK' /\ SamlInv'
  <2> DEFINE z == [q EXCEPT !.pc = pc, !.recorded = TRUE,
                     !.result = IF pc = "done" THEN "error" ELSE @]
  <2>1. /\ z \in SamlPostRecord /\ z.pc = pc /\ z.recorded /\ z.message = l
        /\ z.result = IF pc = "done" THEN "error" ELSE "none"
    BY <1>2, <1>3 DEF SamlPostRecord
  <2>2. Connection!Becomes(p, z)
    BY <1>6
  <2> HIDE DEF z
  <2>3. /\ posts' \in [Posts -> SamlPostRecord] /\ posts'[p] = z
        /\ \A r \in Posts \ {p} : posts'[r] = posts[r]
    BY <2>1, <2>2, Replacing
  <2>4. samlNow + SloHorizon \in Int
    BY DEF SamlTypeOK, Connection!SamlAssumption
  <2>5. /\ scratch' \in [Connection!Keys -> Int]
        /\ \A f \in LoginFlows : scratch'[<<"request", f>>] = scratch[<<"request", f>>]
        /\ \A a \in Connection!Assertions : scratch'[<<"assertion", a>>] = scratch[<<"assertion", a>>]
        /\ \A x \in LogoutRequests \ {l} : scratch'[<<"logout", x>>] = scratch[<<"logout", x>>]
    BY <1>6, <2>4, ScratchKeys DEF SamlTypeOK
  <2>6. Onward(Posts \ {p})
    BY <1>1, <1>2, <1>3, <1>4, <2>1, <2>3, <2>5 DEF Onward, Removed
  <2>7. Tells(posts[p])'
    BY <2>1, <2>3 DEF Tells
  <2>8. Logged(l)'
    BY <2>1, <2>3 DEF Logged
  <2>9. \A x \in used' : OnRecord(x)'
    BY <1>4, <2>5, <2>6, RecordsStay DEF SamlTypeOK
  <2>10. SamlTypeOK'
    BY <1>4, <2>3, <2>5 DEF SamlTypeOK
  <2>11. \A x \in LogoutRequests :
           scratch'[<<"logout", x>>] # 0 => scratch[<<"logout", x>>] # 0 \/ Logged(x)'
    BY <2>5, <2>8
  <2>12. posts'[p].result # "replay"
    BY <2>1, <2>3
  <2>13. QED
    BY <2>6, <2>7, <2>9, <2>10, <2>11, <2>12, StepKeeps
<1>7. \/ Connection!Ends(p, q, "error") /\ scratch' = scratch
      \/ /\ scratch' = [scratch EXCEPT ![<<"logout", l>>] = samlNow + SloHorizon]
         /\ \E pc \in {"hook", "done"} :
              Connection!Becomes(p, [q EXCEPT !.pc = pc, !.recorded = TRUE,
                                       !.result = IF pc = "done" THEN "error" ELSE @])
  BY <1>1, <1>2 DEF Connection!RecordLogout, Connection!Puts, Connection!SloKey
<1>8. QED
  BY <1>5, <1>6, <1>7

(* The hook and the revocation, and the legs that keep nothing. *)
LEMMA LoggingOutKeeps ==
  ASSUME SamlTypeOK, SamlInv, NEW p \in Posts,
         \/ Connection!OnLogout(p) \/ Connection!RevokeSubject(p)
         \/ Connection!InitiateSpLogout(p) \/ Connection!ConsumeLogoutResponse(p)
  PROVE  SamlTypeOK' /\ SamlInv'
<1>1. PICK q \in SamlPostRecord : q = posts[p]
  BY DEF SamlTypeOK
<1>2. UNCHANGED <<samlConfig, samlNow, scratch, samlFlows, used, kept>>
  BY DEF Connection!OnLogout, Connection!RevokeSubject, Connection!InitiateSpLogout,
         Connection!ConsumeLogoutResponse, Connection!NoLogin, Connection!Aside
<1>3. CASE Connection!OnLogout(p) \/ Connection!RevokeSubject(p)
  <2>1. /\ q.pc \in {"hook", "revoke"} /\ q.message \in LogoutRequests /\ q.result = "none"
    BY <1>1, <1>3 DEF Connection!OnLogout, Connection!RevokeSubject, SamlInv, Tells
  <2>2. \/ Connection!Ends(p, q, "error") /\ carriedOut' = carriedOut
        \/ Connection!Becomes(p, [q EXCEPT !.pc = "revoke"]) /\ carriedOut' = carriedOut
        \/ Connection!Ends(p, q, "confirmed") /\ carriedOut' = carriedOut \cup {q.message}
    BY <1>1, <1>3 DEF Connection!OnLogout, Connection!RevokeSubject
  <2>3. /\ posts' \in [Posts -> SamlPostRecord]
        /\ \A r \in Posts \ {p} : posts'[r] = posts[r]
        /\ posts'[p].recorded = q.recorded /\ posts'[p].message = q.message
        /\ carriedOut \subseteq carriedOut'
        /\ \/ posts'[p].pc = "done" /\ posts'[p].result = "error"
           \/ posts'[p].pc = "revoke" /\ posts'[p].result = "none"
           \/ /\ posts'[p].pc = "done" /\ posts'[p].result = "confirmed"
              /\ q.message \in carriedOut'
    BY <2>1, <2>2, Ending, Advancing
  <2>4. Onward(Posts \ {p}) /\ Tells(posts[p])'
    BY <1>1, <1>2, <2>1, <2>3 DEF Onward, Removed, Tells
  <2>5. \A x \in used' : OnRecord(x)'
    BY <1>2, <2>4, RecordsStay DEF SamlTypeOK
  <2>6. SamlTypeOK'
    BY <1>2, <2>3 DEF SamlTypeOK
  <2>7. QED
    BY <1>2, <2>3, <2>4, <2>5, <2>6, StepKeeps
<1>4. CASE Connection!InitiateSpLogout(p) \/ Connection!ConsumeLogoutResponse(p)
  <2>1. q.pc = "idle" /\ ~q.recorded /\ carriedOut' = carriedOut
    BY <1>1, <1>4 DEF Connection!InitiateSpLogout, Connection!ConsumeLogoutResponse, SamlInv,
                      Tells
  <2>2. Connection!Fresh \in SamlPostRecord /\ ~Connection!Fresh.recorded
    BY DEF Connection!Fresh, SamlPostRecord, Message
  <2>3. \E result \in {"denied", "redirect", "error", "acknowledged"} :
          Connection!Ends(p, Connection!Fresh, result)
    BY <1>4 DEF Connection!InitiateSpLogout, Connection!ConsumeLogoutResponse
  <2>4. /\ posts' \in [Posts -> SamlPostRecord]
        /\ \A r \in Posts \ {p} : posts'[r] = posts[r]
        /\ ~posts'[p].recorded /\ posts'[p].pc = "done"
        /\ posts'[p].result \in {"denied", "redirect", "error", "acknowledged"}
    BY <2>2, <2>3, Ending
  <2>5. Onward(Posts \ {p}) /\ Tells(posts[p])'
    BY <1>1, <1>2, <2>1, <2>4 DEF Onward, Removed, Tells
  <2>6. \A x \in used' : OnRecord(x)'
    BY <1>2, <2>5, RecordsStay DEF SamlTypeOK
  <2>7. SamlTypeOK'
    BY <1>2, <2>4 DEF SamlTypeOK
  <2>8. QED
    BY <1>2, <2>4, <2>5, <2>6, <2>7, StepKeeps
<1>5. QED
  BY <1>3, <1>4

LEMMA SamlInvariance ==
  ASSUME Connection!SamlAssumption
  PROVE  Connection!Spec => [](SamlTypeOK /\ SamlInv)
<1>1. Connection!Init => SamlTypeOK /\ SamlInv
  <2> SUFFICES ASSUME Connection!Init PROVE SamlTypeOK /\ SamlInv
    OBVIOUS
  <2>1. Connection!Fresh \in SamlPostRecord /\ Tells(Connection!Fresh)
    BY DEF Connection!Fresh, SamlPostRecord, Message, Tells
  <2>2. SamlTypeOK
    BY <2>1 DEF Connection!Init, SamlTypeOK
  <2>3. \A p \in Posts : Tells(posts[p]) /\ posts[p].result # "replay"
    BY <2>1 DEF Connection!Init, Connection!Fresh
  <2>4. \A l \in LogoutRequests : scratch[<<"logout", l>>] = 0
    BY ScratchKeys DEF Connection!Init
  <2>5. QED
    BY <2>2, <2>3, <2>4 DEF Connection!Init, SamlInv
<1>2. SamlTypeOK /\ SamlInv /\ [Connection!Next]_(Connection!samlVars)
        => SamlTypeOK' /\ SamlInv'
  <2> SUFFICES ASSUME SamlTypeOK, SamlInv, [Connection!Next]_(Connection!samlVars)
               PROVE  SamlTypeOK' /\ SamlInv'
    OBVIOUS
  <2>1. CASE Connection!Tick \/ UNCHANGED Connection!samlVars
    <3>1. UNCHANGED <<samlConfig, scratch, samlFlows, posts, used, kept, carriedOut>>
      BY <2>1 DEF Connection!Tick, Connection!samlVars
    <3>2. SamlTypeOK'
      BY <2>1, <3>1 DEF SamlTypeOK, Connection!Tick, Connection!samlVars
    <3>3. Onward(Posts)
      BY <3>1 DEF Onward, Removed
    <3>4. \A x \in used' : OnRecord(x)'
      BY <3>1, <3>3, RecordsStay DEF SamlTypeOK
    <3>5. QED
      BY <3>1, <3>2, <3>3, <3>4, StepKeeps
  <2>2. QED
    BY <2>1, RedirectKeeps, ConsumingKeeps, LookingUpKeeps, VerifyingSamlKeeps,
       LookingForReplayKeeps, RecordingSamlKeeps, ConsumingLogoutKeeps, RecordingLogoutKeeps,
       LoggingOutKeeps
    DEF Connection!Next
<1>3. QED
  BY <1>1, <1>2, PTL DEF Connection!Spec

(* An assertion logs somebody in once, by whichever of the two paths it    *)
(* came, but for a removal or a lookup that failed, a lookup that came too *)
(* late, or an assertion valid for longer than any record                  *)
(* (consumeAssertion, methodScratchCacheProvider).                         *)
THEOREM AssertionsLogInOnce ==
  ASSUME Connection!SamlAssumption
  PROVE  Connection!Spec => []Connection!AssertionsAreUsedOnce
<1>1. SamlInv => Connection!AssertionsAreUsedOnce
  BY DEF SamlInv, Tells, Excused, Connection!AssertionsAreUsedOnce
<1>2. QED
  BY <1>1, SamlInvariance, PTL

(* A logout is confirmed when it was carried out, and refused as a replay  *)
(* only if that very request was put on record (consumeSls,                *)
(* runUpstreamLogout).                                                     *)
THEOREM LogoutsStayKnown ==
  ASSUME Connection!SamlAssumption
  PROVE  Connection!Spec => []Connection!LogoutsAreNotLost
<1>1. SamlInv => Connection!LogoutsAreNotLost
  BY DEF SamlInv, Tells, Logged, Connection!LogoutsAreNotLost
<1>2. QED
  BY <1>1, SamlInvariance, PTL
----------------------------------------------------------------------------
(* The relying party's client.                                             *)

OperationRecord ==
  [pc : {"idle", "asked", "check", "answered", "return", "done"},
   kind : {"none", "exchange", "refresh", "verify"}, access : Nat, refresh : Nat,
   audience : {"client", "resource"}, depth : Nat, tokens : Nat, crossed : BOOLEAN,
   result : {"none", "success", "refused", "thrown", "invalid_access_token",
             "invalid_subject"}]

ClientTypeOK ==
  /\ issuerNow \in Nat \ {0} /\ session \in Nat
  /\ count \in Nat /\ count <= MaxPairs
  /\ pairs \in [1..MaxPairs -> [at : Nat, spent : Nat]]
  /\ operations \in [Operations -> OperationRecord]

Active(q) == q.pc \notin {"idle", "done"}

(* A call that was answered has a pair that is not stored yet. *)
Fetched(q) ==
  \/ q.pc = "answered" /\ q.access # 0
  \/ q.pc = "check" /\ q.depth # 0
  \/ q.pc = "return"
InHand(q) == IF q.pc = "return" THEN q.tokens ELSE q.access

Before(q) == q.pc \in {"check", "asked"} /\ q.depth = 0

(* What a call tells of the issuer and of the session. *)
CallTells(q) ==
  /\ q.kind = "exchange" => challenge = "spent"
  /\ q.pc \in {"asked", "answered"} => q.depth = 0
  /\ q.pc = "check" => q.kind = "verify"
  /\ q.pc = "asked" /\ q.kind = "exchange" => count = 0
  /\ q.pc = "asked" /\ q.kind # "exchange" => q.refresh # 0
  /\ Before(q) /\ q.kind # "exchange" => q.refresh <= session
  /\ Before(q) /\ q.kind # "exchange" /\ q.refresh # 0 /\ ~q.crossed => q.refresh = count
  /\ Fetched(q) => InHand(q) = count /\ session < count
  /\ q.pc = "check" /\ q.depth # 0 => q.tokens = q.access

CallsFit ==
  \A o, p \in Operations :
    o # p =>
      /\ Fetched(operations[o]) => ~Fetched(operations[p])
      /\ operations[o].kind = "exchange" => operations[p].kind # "exchange"
      /\ Active(operations[o]) /\ ~operations[o].crossed => ~Active(operations[p])

PairsFit ==
  /\ \A n \in 1..count : pairs[n].spent = 0 <=> n = count
  /\ \A n \in (count + 1)..MaxPairs : pairs[n].spent = 0

SessionKept ==
  /\ familyLive
  /\ session <= count
  /\ count > 0 => challenge = "spent"
  /\ count > 0 => session = count \/ \E o \in Operations : Fetched(operations[o])
  /\ PairsFit
  /\ CallsFit
  /\ \A o \in Operations : CallTells(operations[o])

ClientInv == excuses = {} => SessionKept

LEMMA CallsBegin ==
  ASSUME ClientTypeOK, NEW o \in Operations, NEW q \in OperationRecord, Relying!Begins(o, q)
  PROVE  /\ operations' \in [Operations -> OperationRecord]
         /\ \A p \in Operations :
              LET z == operations'[p]
                  r == IF p = o THEN q ELSE operations[p]
              IN z.pc = r.pc /\ z.kind = r.kind /\ z.access = r.access
                 /\ z.refresh = r.refresh /\ z.depth = r.depth /\ z.tokens = r.tokens
         /\ ~operations'[o].crossed => \A p \in Operations \ {o} : ~Active(operations[p])
         /\ \A p \in Operations \ {o} :
              operations'[p].crossed <=> operations[p].crossed \/ Active(operations[p])
<1> DEFINE others == {p \in Operations \ {o} : operations[p].pc \notin {"idle", "done"}}
           mine == [q EXCEPT !.crossed = others # {}]
           theirs(p) == [operations[p] EXCEPT !.crossed = TRUE]
           next(p) == IF p = o THEN mine ELSE IF p \in others THEN theirs(p) ELSE operations[p]
<1>1. operations' = [p \in Operations |-> next(p)]
  BY DEF Relying!Begins
<1>2. /\ mine \in OperationRecord /\ (mine.crossed <=> others # {})
      /\ mine.pc = q.pc /\ mine.kind = q.kind /\ mine.access = q.access
      /\ mine.refresh = q.refresh /\ mine.depth = q.depth /\ mine.tokens = q.tokens
  <2> HIDE DEF others
  <2>1. QED
    BY DEF OperationRecord
<1>3. ASSUME NEW p \in Operations
      PROVE  LET z == theirs(p)
                 r == operations[p]
             IN /\ z \in OperationRecord /\ z.crossed
                /\ z.pc = r.pc /\ z.kind = r.kind /\ z.access = r.access
                /\ z.refresh = r.refresh /\ z.depth = r.depth /\ z.tokens = r.tokens
  <2>1. operations[p] \in OperationRecord
    BY DEF ClientTypeOK
  <2>2. QED
    BY <2>1 DEF OperationRecord
<1> HIDE DEF mine, theirs
<1>4. \A p \in Operations : operations[p] \in OperationRecord
  BY DEF ClientTypeOK
<1>5. operations' \in [Operations -> OperationRecord]
  BY <1>1, <1>2, <1>3, <1>4
<1>6. \A p \in Operations : operations'[p] = next(p)
  BY <1>1
<1>7. ASSUME NEW p \in Operations \ {o}
      PROVE  operations'[p].crossed <=> operations[p].crossed \/ Active(operations[p])
  BY <1>3, <1>6, <1>7 DEF Active
<1>8. ~operations'[o].crossed => \A p \in Operations \ {o} : ~Active(operations[p])
  BY <1>2, <1>6 DEF Active
<1> HIDE DEF others
<1>9. ASSUME NEW p \in Operations
      PROVE  LET z == operations'[p]
                 r == IF p = o THEN q ELSE operations[p]
             IN z.pc = r.pc /\ z.kind = r.kind /\ z.access = r.access
                /\ z.refresh = r.refresh /\ z.depth = r.depth /\ z.tokens = r.tokens
  BY <1>2, <1>3, <1>6
<1>10. QED
  BY <1>5, <1>7, <1>8, <1>9

(* A call that goes on, with the pair it had or without any, leaves the    *)
(* session kept.                                                           *)
LEMMA GoingOnKeeps ==
  ASSUME ClientTypeOK, SessionKept, NEW o \in Operations, NEW q,
         operations' = [operations EXCEPT ![o] = q],
         Active(operations[o]), CallTells(q),
         q.kind = operations[o].kind, q.crossed = operations[o].crossed,
         Fetched(q) <=> Fetched(operations[o]),
         familyLive' = familyLive,
         UNCHANGED <<pairs, count, challenge, session>>
  PROVE  SessionKept'
<1>1. \A p \in Operations : operations'[p] = IF p = o THEN q ELSE operations[p]
  BY DEF ClientTypeOK
<1>2. CallsFit'
  BY <1>1 DEF SessionKept, CallsFit, Active
<1>3. \A p \in Operations : CallTells(operations[p])'
  BY <1>1 DEF SessionKept, CallTells, Fetched, InHand, Before
<1>4. (\E p \in Operations : Fetched(operations[p]))
      => (\E p \in Operations : Fetched(operations[p])')
  BY <1>1 DEF Fetched
<1>5. QED
  BY <1>2, <1>3, <1>4 DEF SessionKept, PairsFit

(* A call that begins crosses every other. *)
LEMMA BeginningKeeps ==
  ASSUME ClientTypeOK, SessionKept, NEW o \in Operations, NEW q \in OperationRecord,
         operations[o].pc = "idle", Relying!Begins(o, q),
         q.pc \in {"asked", "check"}, q.depth = 0,
         q.kind = "exchange" => /\ challenge' = "spent" /\ count = 0 /\ q.pc = "asked"
                                /\ \A p \in Operations : operations[p].kind # "exchange",
         q.kind # "exchange" => /\ q.refresh \in {0, session} /\ session # 0
                                /\ q.pc = "asked" => q.refresh # 0
                                /\ q.pc = "check" => q.kind = "verify",
         challenge' = challenge \/ challenge' = "spent",
         UNCHANGED <<pairs, count, session, familyLive>>
  PROVE  SessionKept'
<1>1. /\ \A p \in Operations :
           LET z == operations'[p]
               r == IF p = o THEN q ELSE operations[p]
           IN z.pc = r.pc /\ z.kind = r.kind /\ z.access = r.access
              /\ z.refresh = r.refresh /\ z.depth = r.depth /\ z.tokens = r.tokens
      /\ ~operations'[o].crossed => \A p \in Operations \ {o} : ~Active(operations[p])
      /\ \A p \in Operations \ {o} :
           operations'[p].crossed <=> operations[p].crossed \/ Active(operations[p])
  BY CallsBegin
<1>2. \A p \in Operations : Fetched(operations[p])' <=> Fetched(operations[p])
  BY <1>1 DEF Fetched
<1>3. \A p \in Operations \ {o} : Active(operations[p])' <=> Active(operations[p])
  BY <1>1 DEF Active
<1>4. CallsFit'
  BY <1>1, <1>2, <1>3 DEF SessionKept, CallsFit
<1>5. CallTells(operations[o])'
  <2>1. ~operations'[o].crossed => count = 0 \/ session = count
    BY <1>1 DEF SessionKept, Fetched, Active, ClientTypeOK
  <2>2. session <= count
    BY DEF SessionKept
  <2>3. QED
    BY <1>1, <2>1, <2>2 DEF CallTells, Fetched, Before, ClientTypeOK
<1>6. ASSUME NEW p \in Operations, p # o PROVE CallTells(operations[p])'
  <2>1. CallTells(operations[p])
    BY DEF SessionKept
  <2>2. QED
    BY <1>1, <1>6, <2>1 DEF CallTells, Fetched, InHand, Before
<1>7. QED
  BY <1>2, <1>4, <1>5, <1>6 DEF SessionKept, PairsFit

(* A call that is told of no pair goes on as it is, and one with a pair    *)
(* keeps it, or it was lost.                                               *)
LEMMA GoingOn ==
  ASSUME ClientTypeOK, ClientInv, NEW o \in Operations,
         Relying!Check(o) \/ Relying!Receive(o) \/ Relying!Throws(o) \/ Relying!Refuse(o)
  PROVE  ClientTypeOK' /\ ClientInv'
<1> DEFINE q == operations[o]
<1>1. q \in OperationRecord
  BY DEF ClientTypeOK
<1>2. ASSUME NEW r \in OperationRecord, Relying!Becomes(o, r), Active(q),
             UNCHANGED <<issuerNow, pairs, count, challenge, session>>,
             excuses' = {} =>
               /\ excuses = {} /\ familyLive' = familyLive
               /\ SessionKept => CallTells(r)
               /\ r.kind = q.kind /\ r.crossed = q.crossed /\ (Fetched(r) <=> Fetched(q))
      PROVE  ClientTypeOK' /\ ClientInv'
  <2>1. operations' = [operations EXCEPT ![o] = r]
    BY <1>2 DEF Relying!Becomes
  <2>2. ClientTypeOK'
    BY <1>2, <2>1 DEF ClientTypeOK
  <2>3. ClientInv'
    BY <1>2, <2>1, GoingOnKeeps DEF ClientInv
  <2>4. QED
    BY <2>2, <2>3
<1>3. SessionKept => CallTells(q)
  BY DEF SessionKept
<1>4. ASSUME NEW result \in {"success", "refused", "thrown", "invalid_access_token",
                             "invalid_subject"},
             Relying!Ends(o, q, result), Active(q), familyLive' = familyLive,
             UNCHANGED <<issuerNow, pairs, count, challenge, session>>,
             excuses \subseteq excuses', excuses' = {} => ~Fetched(q)
      PROVE  ClientTypeOK' /\ ClientInv'
  <2> DEFINE r == [q EXCEPT !.pc = "done", !.result = result]
  <2>1. /\ r \in OperationRecord /\ r.pc = "done" /\ r.kind = q.kind
        /\ r.crossed = q.crossed
    BY <1>1 DEF OperationRecord
  <2>2. Relying!Becomes(o, r)
    BY <1>4 DEF Relying!Ends
  <2> HIDE DEF r
  <2>3. SessionKept => CallTells(r)
    BY <1>3, <2>1 DEF CallTells, Fetched, Before
  <2>4. ~Fetched(r)
    BY <2>1 DEF Fetched
  <2>5. QED
    BY <1>2, <1>4, <2>1, <2>2, <2>3, <2>4
<1>5. ASSUME NEW t \in OperationRecord, Relying!Returns(o, t),
             t.kind = q.kind, t.crossed = q.crossed, SessionKept => t.tokens = q.access,
             Active(q), familyLive' = familyLive,
             UNCHANGED <<issuerNow, pairs, count, challenge, session>>,
             excuses \subseteq excuses', Fetched(q), q.pc # "return"
      PROVE  ClientTypeOK' /\ ClientInv'
  <2> DEFINE r == [t EXCEPT !.pc = "return", !.result = "success"]
  <2>1. /\ r \in OperationRecord /\ r.pc = "return" /\ r.kind = q.kind
        /\ r.crossed = q.crossed /\ r.tokens = t.tokens
    BY <1>5 DEF OperationRecord
  <2>2. Relying!Becomes(o, r)
    BY <1>5 DEF Relying!Returns
  <2> HIDE DEF r
  <2>3. Fetched(r)
    BY <2>1 DEF Fetched
  <2>4. SessionKept => CallTells(r)
    BY <1>3, <1>5, <2>1 DEF CallTells, Fetched, Before, InHand
  <2>5. QED
    BY <1>2, <1>5, <2>1, <2>2, <2>3, <2>4
<1>6. CASE Relying!Check(o)
  <2>1. /\ Active(q) /\ familyLive' = familyLive /\ q.pc = "check"
        /\ UNCHANGED <<issuerNow, pairs, count, challenge, session>>
        /\ excuses \subseteq excuses'
    BY <1>6 DEF Relying!Check, Relying!RelyingParty, Relying!Issuer, Active
  <2>2. Fetched(q) <=> q.depth # 0
    BY <2>1 DEF Fetched
  <2>3. \/ /\ \/ Relying!Ends(o, q, "invalid_access_token")
              \/ Relying!Ends(o, q, "invalid_subject")
              \/ Relying!Becomes(o, [q EXCEPT !.pc = "asked"]) /\ q.refresh # 0
           /\ excuses' = {} => q.depth = 0
        \/ Relying!Accept(o, q)
    BY <1>6 DEF Relying!Check
  <2>4. CASE Relying!Ends(o, q, "invalid_access_token") /\ (excuses' = {} => q.depth = 0)
    BY <1>4, <2>1, <2>2, <2>4
  <2>5. CASE Relying!Ends(o, q, "invalid_subject") /\ (excuses' = {} => q.depth = 0)
    BY <1>4, <2>1, <2>2, <2>5
  <2>6. CASE Relying!Becomes(o, [q EXCEPT !.pc = "asked"]) /\ q.refresh # 0
             /\ (excuses' = {} => q.depth = 0)
    <3> DEFINE r == [q EXCEPT !.pc = "asked"]
    <3>1. /\ r \in OperationRecord /\ r.pc = "asked" /\ r.kind = q.kind
          /\ r.crossed = q.crossed /\ r.depth = q.depth /\ r.refresh = q.refresh
      BY <1>1 DEF OperationRecord
    <3> HIDE DEF r
    <3>2. SessionKept /\ q.depth = 0 => CallTells(r)
      BY <1>3, <2>1, <2>6, <3>1 DEF CallTells, Fetched, Before
    <3>3. ~Fetched(r)
      BY <3>1 DEF Fetched
    <3>4. ASSUME excuses' = {}
          PROVE  /\ excuses = {} /\ q.depth = 0 /\ ~Fetched(q)
      BY <2>1, <2>2, <2>6, <3>4
    <3>5. Relying!Becomes(o, r)
      BY <2>6 DEF r
    <3>6. QED
      BY <1>2, <2>1, <3>1, <3>2, <3>3, <3>4, <3>5
  <2>7. CASE Relying!Accept(o, q)
    <3>1. CASE q.depth = 0
      BY <1>4, <2>1, <2>2, <2>7, <3>1 DEF Relying!Accept
    <3>2. CASE q.depth # 0
      <4>1. SessionKept => q.tokens = q.access
        BY <1>3, <2>1, <3>2 DEF CallTells
      <4>2. Relying!Returns(o, q)
        BY <2>7, <3>2 DEF Relying!Accept
      <4>3. QED
        BY <1>1, <1>5, <2>1, <2>2, <3>2, <4>1, <4>2
    <3>3. QED
      BY <3>1, <3>2
  <2>8. QED
    BY <2>3, <2>4, <2>5, <2>6, <2>7
<1>7. CASE Relying!Receive(o)
  <2>1. /\ Active(q) /\ familyLive' = familyLive /\ q.pc = "answered"
        /\ UNCHANGED <<issuerNow, pairs, count, challenge, session, excuses>>
    BY <1>7 DEF Relying!Receive, Relying!RelyingParty, Relying!Issuer, Active
  <2>2. Fetched(q) <=> q.access # 0
    BY <2>1 DEF Fetched
  <2>3. CASE q.access = 0
    <3>1. Relying!Ends(o, q, "refused")
      BY <1>7, <2>3 DEF Relying!Receive
    <3>2. QED
      BY <1>4, <2>1, <2>2, <2>3, <3>1
  <2>4. CASE q.access # 0 /\ q.kind = "verify"
    <3> DEFINE mine == IF q.depth = 0 THEN q.access ELSE q.tokens
               deeper == q.depth + 1
               r == [q EXCEPT !.pc = "check", !.refresh = q.access,
                       !.audience = "client", !.depth = deeper, !.tokens = mine]
    <3>1. Relying!Becomes(o, r)
      BY <1>7, <2>4 DEF Relying!Receive
    <3>2. /\ r \in OperationRecord /\ r.pc = "check" /\ r.kind = q.kind
          /\ r.crossed = q.crossed /\ r.depth = deeper /\ r.access = q.access
          /\ q.depth = 0 => r.tokens = q.access
      <4>1. mine \in Nat /\ deeper \in Nat /\ (q.depth = 0 => mine = q.access)
        BY <1>1 DEF OperationRecord
      <4> HIDE DEF mine, deeper
      <4>2. QED
        BY <1>1, <4>1 DEF OperationRecord
    <3> HIDE DEF r
    <3>3. r.depth # 0
      BY <1>1, <3>2 DEF OperationRecord
    <3>4. SessionKept => q.depth = 0
      BY <1>3, <2>1 DEF CallTells
    <3>5. Fetched(r)
      BY <3>2, <3>3 DEF Fetched
    <3>6. SessionKept => CallTells(r)
      BY <1>3, <2>1, <2>2, <2>4, <3>2, <3>3, <3>4 DEF CallTells, Fetched, Before, InHand
    <3>7. QED
      BY <1>2, <2>1, <2>2, <2>4, <3>1, <3>2, <3>5, <3>6
  <2>5. CASE q.access # 0 /\ q.kind # "verify"
    <3> DEFINE t == [q EXCEPT !.tokens = q.access]
    <3>1. Relying!Returns(o, t)
      BY <1>7, <2>5 DEF Relying!Receive
    <3>2. /\ t \in OperationRecord /\ t.kind = q.kind /\ t.crossed = q.crossed
          /\ t.tokens = q.access
      BY <1>1 DEF OperationRecord
    <3> HIDE DEF t
    <3>3. QED
      BY <1>5, <2>1, <2>2, <2>5, <3>1, <3>2
  <2>6. QED
    BY <2>3, <2>4, <2>5
<1>8. CASE Relying!Throws(o)
  BY <1>1, <1>4, <1>8 DEF Relying!Throws, Relying!RelyingParty, Relying!Issuer, Active, Fetched
<1>9. CASE Relying!Refuse(o)
  <2> DEFINE r == [q EXCEPT !.pc = "answered", !.access = 0]
  <2>1. /\ Active(q) /\ q.pc = "asked" /\ Relying!Becomes(o, r)
        /\ UNCHANGED <<issuerNow, pairs, count, challenge, session>>
    BY <1>9 DEF Relying!Refuse, Relying!Answer, Relying!RelyingParty, Active
  <2>2. excuses' = {} =>
          excuses = {} /\ (Relying!IsGood(o) \/ ~q.crossed)
    BY <1>9 DEF Relying!Refuse, Relying!Excused
  <2>3. SessionKept /\ ~q.crossed => Relying!IsGood(o)
    BY <1>1, <1>3, <2>1 DEF SessionKept, PairsFit, CallTells, Before, OperationRecord,
         ClientTypeOK, Relying!IsGood, Relying!Presents
  <2>4. Relying!IsGood(o) => familyLive' = familyLive
    BY <1>9 DEF Relying!Refuse
  <2>5. /\ r \in OperationRecord /\ r.pc = "answered" /\ r.access = 0
        /\ r.kind = q.kind /\ r.crossed = q.crossed /\ r.depth = q.depth
    BY <1>1 DEF OperationRecord
  <2> HIDE DEF r
  <2>6. SessionKept => CallTells(r)
    BY <1>3, <2>1, <2>5 DEF CallTells, Fetched, Before
  <2>7. ~Fetched(q) /\ ~Fetched(r)
    BY <2>1, <2>5 DEF Fetched
  <2>8. excuses' = {} => excuses = {} /\ familyLive' = familyLive
    BY <2>2, <2>3, <2>4 DEF ClientInv
  <2>9. QED
    BY <1>2, <2>1, <2>5, <2>6, <2>7, <2>8
<1>10. QED
  BY <1>6, <1>7, <1>8, <1>9

(* A new pair: whatever was presented is spent, and nobody else has any.   *)
LEMMA RotatingKeeps ==
  ASSUME Relying!ClientAssumption, ClientTypeOK, ClientInv, NEW o \in Operations,
         Relying!Rotate(o)
  PROVE  ClientTypeOK' /\ ClientInv'
<1> DEFINE q == operations[o]
           failed == [q EXCEPT !.pc = "answered", !.access = 0]
           new == count + 1
           r == [q EXCEPT !.pc = "answered", !.access = new]
<1>1. /\ q \in OperationRecord /\ q.pc = "asked" /\ Relying!IsGood(o)
      /\ count \in Nat /\ count < MaxPairs /\ MaxPairs \in Nat /\ count + 1 \in 1..MaxPairs
      /\ UNCHANGED <<issuerNow, familyLive, challenge, session>> /\ count' = count + 1
  BY DEF ClientTypeOK, Relying!Rotate, Relying!RelyingParty, Relying!ClientAssumption
<1>2. PICK spent \in [1..MaxPairs -> [at : Nat, spent : Nat]] :
        /\ pairs' = [spent EXCEPT ![count + 1].at = issuerNow]
        /\ q.kind = "exchange" => spent = pairs
        /\ q.kind # "exchange" => spent = [pairs EXCEPT ![q.refresh].spent = issuerNow]
  <2>1. CASE q.kind = "exchange"
    BY <2>1 DEF Relying!Rotate, ClientTypeOK
  <2>2. CASE q.kind # "exchange"
    <3>1. [pairs EXCEPT ![q.refresh].spent = issuerNow]
            \in [1..MaxPairs -> [at : Nat, spent : Nat]]
      BY DEF ClientTypeOK
    <3>2. QED
      BY <2>2, <3>1 DEF Relying!Rotate, Relying!Presents
  <2>3. QED
    BY <2>1, <2>2
<1>3. /\ pairs' \in [1..MaxPairs -> [at : Nat, spent : Nat]]
      /\ \A n \in 1..MaxPairs : pairs'[n].spent = spent[n].spent
  BY <1>1, <1>2 DEF ClientTypeOK
<1>4. /\ r \in OperationRecord /\ r.pc = "answered" /\ r.access = new
      /\ r.kind = q.kind /\ r.crossed = q.crossed /\ r.depth = q.depth
  <2>1. new \in Nat
    BY <1>1
  <2> HIDE DEF new
  <2>2. QED
    BY <1>1, <2>1 DEF OperationRecord
<1>5. failed \in OperationRecord
  BY <1>1 DEF OperationRecord
<1>6. \/ operations' = [operations EXCEPT ![o] = r] /\ excuses' = excuses
      \/ operations' = [operations EXCEPT ![o] = failed] /\ excuses' # {}
  BY DEF Relying!Rotate, Relying!Answer, Relying!Becomes, Relying!Excused
<1>7. ClientTypeOK'
  <2> HIDE DEF r, failed
  <2>1. QED
    BY <1>1, <1>3, <1>4, <1>5, <1>6 DEF ClientTypeOK
<1>8. ASSUME SessionKept, operations' = [operations EXCEPT ![o] = r] PROVE SessionKept'
  <2> HIDE DEF r
  <2>1. \A p \in Operations : operations'[p] = IF p = o THEN r ELSE operations[p]
    BY <1>8 DEF ClientTypeOK
  <2>2. CallTells(q)
    BY <1>8 DEF SessionKept
  <2>3. q.kind # "exchange" => q.refresh = count /\ count > 0 /\ session = count
    <3> SUFFICES ASSUME q.kind # "exchange" PROVE q.refresh = count /\ count > 0 /\ session = count
      OBVIOUS
    <3>1. q.refresh \in Nat /\ q.refresh # 0 /\ q.refresh <= session /\ session <= count
      BY <1>1, <1>8, <2>2 DEF SessionKept, CallTells, Before, OperationRecord
    <3>2. q.refresh \in 1..count /\ pairs[q.refresh].spent = 0
      BY <1>1, <3>1 DEF ClientTypeOK, Relying!IsGood, Relying!Presents
    <3>3. QED
      BY <1>1, <1>8, <3>1, <3>2 DEF SessionKept, PairsFit, ClientTypeOK
  <2>4. q.kind = "exchange" => count = 0 /\ challenge = "spent" /\ session = 0
    BY <1>1, <1>8, <2>2 DEF CallTells, SessionKept, ClientTypeOK
  <2>5. \A p \in Operations : ~Fetched(operations[p])
    BY <1>1, <1>8, <2>3, <2>4 DEF SessionKept, CallTells, ClientTypeOK
  <2>6. PairsFit'
    <3>1. CASE q.kind = "exchange"
      BY <1>1, <1>2, <1>3, <1>8, <2>4, <3>1 DEF SessionKept, PairsFit
    <3>2. CASE q.kind # "exchange"
      <4>1. \A n \in 1..MaxPairs :
              spent[n].spent = IF n = count THEN issuerNow ELSE pairs[n].spent
        BY <1>1, <1>2, <2>3, <3>2 DEF ClientTypeOK
      <4>2. QED
        <5>1. \A n \in 1..count' : pairs'[n].spent = 0 <=> n = count'
          <6> SUFFICES ASSUME NEW n \in 1..count' PROVE pairs'[n].spent = 0 <=> n = count'
            OBVIOUS
          <6>1. n \in 1..MaxPairs
            BY <1>1
          <6> HIDE DEF q, r, failed, new
          <6>2. pairs'[n].spent = IF n = count THEN issuerNow ELSE pairs[n].spent
            BY <1>3, <4>1, <6>1
          <6>3. issuerNow # 0
            BY DEF ClientTypeOK
          <6>4. n \in 1..count \/ (n = count + 1 /\ n \in (count + 1)..MaxPairs)
            BY <1>1, <6>1
          <6>5. QED
            BY <1>1, <1>8, <6>3, <6>4, <6>2 DEF SessionKept, PairsFit
        <5>2. \A n \in (count' + 1)..MaxPairs : pairs'[n].spent = 0
          <6> SUFFICES ASSUME NEW n \in (count' + 1)..MaxPairs PROVE pairs'[n].spent = 0
            OBVIOUS
          <6>1. n \in (count + 1)..MaxPairs /\ n \in 1..MaxPairs /\ n # count
            BY <1>1
          <6>2. QED
            BY <1>3, <1>8, <4>1, <6>1 DEF SessionKept, PairsFit
        <5>3. QED
          BY <5>1, <5>2 DEF PairsFit
    <3>3. QED
      BY <3>1, <3>2
  <2>7. CallsFit'
    BY <1>1, <1>4, <1>8, <2>1, <2>5 DEF SessionKept, CallsFit, Active, Fetched
  <2>8. CallTells(operations[o])'
    BY <1>1, <1>4, <2>1, <2>2, <2>3, <2>4 DEF CallTells, Fetched, InHand, Before
  <2>9. ASSUME NEW p \in Operations, p # o PROVE CallTells(operations[p])'
    <3>1. CallTells(operations[p]) /\ operations'[p] = operations[p] /\ ~Fetched(operations[p])
      BY <1>8, <2>1, <2>5, <2>9 DEF SessionKept
    <3>2. Before(operations[p]) => operations[p].crossed
      BY <1>1, <1>8, <2>9 DEF SessionKept, CallsFit, Active, Before
    <3>3. operations[p].kind = "exchange" => q.kind # "exchange"
      BY <1>8, <2>9 DEF SessionKept, CallsFit
    <3>4. QED
      BY <1>1, <2>3, <3>1, <3>2, <3>3 DEF CallTells, Fetched, InHand, Before
  <2>10. \E p \in Operations : Fetched(operations[p])'
    BY <1>1, <1>4, <2>1 DEF Fetched
  <2>11. \A p \in Operations : CallTells(operations[p])'
    BY <2>8, <2>9
  <2>12. challenge' = "spent" /\ familyLive' /\ session' <= count'
    BY <1>1, <1>8, <2>2, <2>3, <2>4 DEF SessionKept, ClientTypeOK
  <2>13. QED
    BY <2>6, <2>7, <2>10, <2>11, <2>12 DEF SessionKept
<1>9. QED
  BY <1>6, <1>7, <1>8 DEF ClientInv

LEMMA ClientInvariance ==
  ASSUME Relying!ClientAssumption, ClientTypeOK, ClientInv,
         [Relying!Next]_(Relying!clientVars)
  PROVE  ClientTypeOK' /\ ClientInv'
<1>1. CASE Relying!Authorize
  BY <1>1 DEF Relying!Authorize, Relying!Issuer, ClientTypeOK, ClientInv, SessionKept, PairsFit,
       CallsFit, CallTells
<1>2. ASSUME NEW o \in Operations, Relying!Exchange(o) PROVE ClientTypeOK' /\ ClientInv'
  <2> DEFINE q == [Relying!NoOperation EXCEPT !.pc = "asked", !.kind = "exchange"]
  <2>1. /\ q \in OperationRecord /\ q.pc = "asked" /\ q.kind = "exchange" /\ q.depth = 0
    BY DEF Relying!NoOperation, OperationRecord
  <2>2. /\ operations[o].pc = "idle" /\ Relying!Begins(o, q) /\ challenge = "made"
        /\ challenge' = "spent"
        /\ UNCHANGED <<issuerNow, pairs, count, familyLive, session, excuses>>
    BY <1>2 DEF Relying!Exchange, Relying!Issuer
  <2> HIDE DEF q
  <2>3. ClientTypeOK'
    BY <2>1, <2>2, CallsBegin DEF ClientTypeOK
  <2>4. ASSUME SessionKept
        PROVE  count = 0 /\ \A p \in Operations : operations[p].kind # "exchange"
    BY <2>2, <2>4 DEF SessionKept, CallTells, ClientTypeOK
  <2>5. QED
    BY <2>1, <2>2, <2>3, <2>4, BeginningKeeps DEF ClientInv
<1>3. ASSUME NEW o \in Operations, Relying!Refresh(o) PROVE ClientTypeOK' /\ ClientInv'
  <2> DEFINE q == [Relying!NoOperation EXCEPT !.kind = "refresh", !.refresh = session]
             asked == [q EXCEPT !.pc = "asked"]
             ended == [q EXCEPT !.pc = "done", !.result = "success"]
  <2>1. session \in Nat
    BY DEF ClientTypeOK
  <2>2. /\ operations[o].pc = "idle" /\ session # 0
        /\ UNCHANGED <<issuerNow, pairs, count, familyLive, challenge, session, excuses>>
    BY <1>3 DEF Relying!Refresh, Relying!Issuer, Relying!RelyingParty
  <2>3. /\ asked \in OperationRecord /\ asked.pc = "asked" /\ asked.kind = "refresh"
        /\ asked.depth = 0 /\ asked.refresh = session
    BY <2>1 DEF Relying!NoOperation, OperationRecord
  <2>4. /\ ended \in OperationRecord /\ ended.pc = "done" /\ ended.kind = "refresh"
    BY <2>1 DEF Relying!NoOperation, OperationRecord
  <2>5. \/ operations' = [operations EXCEPT ![o] = ended]
        \/ Relying!Begins(o, asked)
    BY <1>3 DEF Relying!Refresh, Relying!Ends, Relying!Becomes
  <2> HIDE DEF asked, ended
  <2>6. CASE operations' = [operations EXCEPT ![o] = ended]
    <3>1. ClientTypeOK'
      BY <2>2, <2>4, <2>6 DEF ClientTypeOK
    <3>2. ASSUME SessionKept PROVE SessionKept'
      <4>1. \A p \in Operations : operations'[p] = IF p = o THEN ended ELSE operations[p]
        BY <2>6 DEF ClientTypeOK
      <4>2. ~Fetched(ended) /\ ~Active(ended) /\ ~Fetched(operations[o])
        BY <2>2, <2>4 DEF Fetched, Active
      <4>3. CallsFit'
        BY <2>4, <3>2, <4>1, <4>2 DEF SessionKept, CallsFit
      <4>4. \A p \in Operations : CallTells(operations[p])'
        BY <2>2, <2>4, <3>2, <4>1, <4>2 DEF SessionKept, CallTells, Fetched, InHand, Before
      <4>5. (\E p \in Operations : Fetched(operations[p]))
            => \E p \in Operations : Fetched(operations[p])'
        BY <4>1, <4>2 DEF Fetched
      <4>6. QED
        BY <2>2, <3>2, <4>3, <4>4, <4>5 DEF SessionKept, PairsFit
    <3>3. QED
      BY <2>2, <3>1, <3>2 DEF ClientInv
  <2>7. CASE Relying!Begins(o, asked)
    BY <2>2, <2>3, <2>7, BeginningKeeps, CallsBegin DEF ClientTypeOK, ClientInv
  <2>8. QED
    BY <2>5, <2>6, <2>7
<1>4. ASSUME NEW o \in Operations, Relying!Verify(o) PROVE ClientTypeOK' /\ ClientInv'
  <2>1. session \in Nat
    BY DEF ClientTypeOK
  <2>2. /\ operations[o].pc = "idle" /\ session # 0
        /\ UNCHANGED <<issuerNow, pairs, count, familyLive, challenge, session, excuses>>
    BY <1>4 DEF Relying!Verify, Relying!Issuer, Relying!RelyingParty
  <2>3. PICK audience \in {"client", "resource"}, refresh \in {0, session} :
          Relying!Begins(o, [Relying!NoOperation EXCEPT !.pc = "check", !.kind = "verify",
                               !.access = session, !.refresh = refresh,
                               !.audience = audience])
    BY <1>4 DEF Relying!Verify
  <2> DEFINE q == [Relying!NoOperation EXCEPT !.pc = "check", !.kind = "verify",
                     !.access = session, !.refresh = refresh, !.audience = audience]
  <2>4. /\ q \in OperationRecord /\ q.pc = "check" /\ q.kind = "verify"
        /\ q.depth = 0 /\ q.refresh = refresh
    <3>1. refresh \in Nat /\ audience \in {"client", "resource"}
      BY <2>1
    <3>2. QED
      BY <2>1, <3>1 DEF Relying!NoOperation, OperationRecord
  <2>5. Relying!Begins(o, q)
    BY <2>3
  <2> HIDE DEF q
  <2>6. ClientTypeOK'
    BY <2>2, <2>4, <2>5, CallsBegin DEF ClientTypeOK
  <2>7. QED
    BY <2>2, <2>4, <2>5, <2>6, BeginningKeeps DEF ClientInv
<1>5. ASSUME NEW o \in Operations,
             Relying!Check(o) \/ Relying!Receive(o) \/ Relying!Throws(o) \/ Relying!Refuse(o)
      PROVE  ClientTypeOK' /\ ClientInv'
  BY <1>5, GoingOn
<1>6. ASSUME NEW o \in Operations, Relying!Rotate(o) PROVE ClientTypeOK' /\ ClientInv'
  BY <1>6, RotatingKeeps
<1>7. ASSUME NEW o \in Operations, Relying!Store(o) PROVE ClientTypeOK' /\ ClientInv'
  <2> DEFINE q == operations[o]
             r == [q EXCEPT !.pc = "done"]
  <2>1. /\ q \in OperationRecord /\ q.pc = "return" /\ session' = q.tokens
        /\ operations' = [operations EXCEPT ![o] = r]
        /\ UNCHANGED <<issuerNow, pairs, count, familyLive, challenge, excuses>>
    BY <1>7 DEF Relying!Store, Relying!Becomes, Relying!Issuer, ClientTypeOK
  <2>2. r \in OperationRecord /\ r.pc = "done" /\ r.kind = q.kind
    BY <2>1 DEF OperationRecord
  <2> HIDE DEF r
  <2>3. ClientTypeOK'
    BY <2>1, <2>2 DEF ClientTypeOK, OperationRecord
  <2>4. ASSUME SessionKept PROVE SessionKept'
    <3>1. \A p \in Operations : operations'[p] = IF p = o THEN r ELSE operations[p]
      BY <2>1 DEF ClientTypeOK
    <3>2. Fetched(q) /\ q.tokens = count /\ CallTells(q)
      BY <2>1, <2>4 DEF SessionKept, CallTells, Fetched, InHand
    <3>3. ~Fetched(r) /\ ~Active(r)
      BY <2>2 DEF Fetched, Active
    <3>4. \A p \in Operations \ {o} : ~Fetched(operations[p])
      BY <2>4, <3>2 DEF SessionKept, CallsFit
    <3>5. CallsFit'
      BY <2>2, <2>4, <3>1, <3>3 DEF SessionKept, CallsFit
    <3>6. session' = count /\ session <= count
      BY <2>1, <2>4, <3>2 DEF SessionKept
    <3>7. ASSUME NEW p \in Operations PROVE CallTells(operations[p])'
      <4>1. CASE p = o
        BY <2>1, <2>2, <3>1, <3>2, <3>3, <4>1 DEF CallTells, Before
      <4>2. CASE p # o
        <5>1. CallTells(operations[p]) /\ operations'[p] = operations[p]
              /\ operations[p] \in OperationRecord
          BY <2>4, <3>1, <4>2 DEF SessionKept, ClientTypeOK
        <5>2. QED
          BY <2>1, <3>4, <3>6, <4>2, <5>1 DEF CallTells, Fetched, Before, InHand,
               OperationRecord, ClientTypeOK
      <4>3. QED
        BY <4>1, <4>2
    <3>8. QED
      BY <2>1, <2>4, <3>5, <3>6, <3>7 DEF SessionKept, PairsFit, ClientTypeOK
  <2>5. QED
    BY <2>1, <2>3, <2>4 DEF ClientInv
<1>8. CASE Relying!Tick
  BY <1>8 DEF Relying!Tick, Relying!RelyingParty, ClientTypeOK, ClientInv, SessionKept, PairsFit,
       CallsFit, CallTells
<1>9. CASE UNCHANGED Relying!clientVars
  BY <1>9 DEF Relying!clientVars, ClientTypeOK, ClientInv, SessionKept, PairsFit, CallsFit,
       CallTells
<1>10. QED
  BY <1>1, <1>2, <1>3, <1>4, <1>5, <1>6, <1>7, <1>8, <1>9 DEF Relying!Next

(* While no answer was lost, no mint failed, no two calls crossed and no   *)
(* refreshed token failed to verify, the pair the issuer would take is the *)
(* one stored or on its way (verify and refresh in client.ts).             *)
THEOREM SessionsStay ==
  ASSUME Relying!ClientAssumption
  PROVE  Relying!Spec => []Relying!SessionsAreLostForAReason
<1>1. Relying!Init => ClientTypeOK /\ ClientInv
  <2> SUFFICES ASSUME Relying!Init PROVE ClientTypeOK /\ ClientInv
    OBVIOUS
  <2>1. \A o \in Operations : operations[o] = Relying!NoOperation
    BY DEF Relying!Init
  <2>2. ClientTypeOK
    BY DEF Relying!Init, ClientTypeOK, OperationRecord, Relying!NoOperation,
         Relying!ClientAssumption
  <2>3. \A o \in Operations : /\ operations[o].pc = "idle" /\ operations[o].kind = "none"
    BY <2>1 DEF Relying!NoOperation
  <2>4. SessionKept
    BY <2>3 DEF Relying!Init, SessionKept, CallTells, CallsFit, PairsFit, Fetched, Before, Active
  <2>5. QED
    BY <2>2, <2>4 DEF ClientInv
<1>2. ClientTypeOK /\ ClientInv => Relying!SessionsAreLostForAReason
  <2> SUFFICES ASSUME ClientTypeOK, SessionKept, count > 0
               PROVE  /\ familyLive /\ pairs[count].spent = 0
                      /\ session = count \/ Relying!OnItsWay(count)
    BY DEF ClientInv, Relying!SessionsAreLostForAReason
  <2>1. ASSUME NEW o \in Operations, Fetched(operations[o]) PROVE Relying!OnItsWay(count)
    BY <2>1 DEF SessionKept, CallTells, Fetched, InHand, Relying!OnItsWay
  <2>2. QED
    BY <2>1 DEF SessionKept, PairsFit, ClientTypeOK
<1>3. (ClientTypeOK /\ ClientInv) /\ [Relying!Next]_(Relying!clientVars)
      => (ClientTypeOK /\ ClientInv)'
  BY ClientInvariance
<1>4. QED
  BY <1>1, <1>2, <1>3, PTL DEF Relying!Spec
----------------------------------------------------------------------------
(* The components side by side.  A behaviour is one of a single component, *)
(* from beginning to end, so what is proved of a component holds of it.    *)
LEMMA PartStays == [Next]_slots => part' = part
  BY DEF Next, slots, Beyond4, Beyond5, Beyond6, Beyond7, Beyond8

LEMMA ConnectionRun ==
  Spec => []~(part = "saml") \/ (Connection!Spec /\ [](part = "saml"))
<1>1. Init /\ part = "saml" => Connection!Init
  BY DEF Init
<1>2. [Next]_slots /\ part = "saml" => [Connection!Next]_(Connection!samlVars)
  BY DEF Next, slots, Connection!samlVars, samlConfig, samlNow, scratch,
     samlFlows, posts, used, kept, carriedOut
<1>3. [Next]_slots => ((part = "saml")' <=> part = "saml")
  BY PartStays
<1>4. QED
  BY <1>1, <1>2, <1>3, PTL DEF Spec, Connection!Spec

LEMMA AuthenticatorsRun ==
  Spec => []~(part = "passkey") \/ (Authenticators!Spec /\ [](part = "passkey"))
<1>1. Init /\ part = "passkey" => Authenticators!Init
  BY DEF Init
<1>2. [Next]_slots /\ part = "passkey" => [Authenticators!Next]_(Authenticators!keyVars)
  BY DEF Next, slots, Authenticators!keyVars, credentialStore, creds,
     methodState, challenges, signed, keyPosts, accepted, disturbed
<1>3. [Next]_slots => ((part = "passkey")' <=> part = "passkey")
  BY PartStays
<1>4. QED
  BY <1>1, <1>2, <1>3, PTL DEF Spec, Authenticators!Spec

LEMMA UsersRun ==
  Spec => []~(part = "password") \/ (Users!Spec /\ [](part = "password"))
<1>1. Init /\ part = "password" => Users!Init
  BY DEF Init
<1>2. [Next]_slots /\ part = "password" => [Users!Next]_(Users!passwordVars)
  BY DEF Next, slots, Users!passwordVars, storeRefuses, registration,
     accounts, errorSaved, passwordPosts, overlapped
<1>3. [Next]_slots => ((part = "password")' <=> part = "password")
  BY PartStays
<1>4. QED
  BY <1>1, <1>2, <1>3, PTL DEF Spec, Users!Spec

LEMMA RelyingRun ==
  Spec => []~(part = "client") \/ (Relying!Spec /\ [](part = "client"))
<1>1. Init /\ part = "client" => Relying!Init
  BY DEF Init
<1>2. [Next]_slots /\ part = "client" => [Relying!Next]_(Relying!clientVars)
  BY DEF Next, slots, Relying!clientVars, setting, issuerNow, pairs, count,
     familyLive, challenge, session, operations, excuses
<1>3. [Next]_slots => ((part = "client")' <=> part = "client")
  BY PartStays
<1>4. QED
  BY <1>1, <1>2, <1>3, PTL DEF Spec, Relying!Spec

LEMMA DpopsRun ==
  Spec => []~(part = "dpop") \/ (Dpops!Spec /\ [](part = "dpop"))
<1>1. Init /\ part = "dpop" => Dpops!Init
  BY DEF Init
<1>2. [Next]_slots /\ part = "dpop" => [Dpops!Next]_(Dpops!dpopVars)
  BY DEF Next, slots, Dpops!dpopVars, dpopNow, dpopJtis, dpopRequests,
     firstUse, usedAgain
<1>3. [Next]_slots => ((part = "dpop")' <=> part = "dpop")
  BY PartStays
<1>4. QED
  BY <1>1, <1>2, <1>3, PTL DEF Spec, Dpops!Spec

LEMMA PushedRun ==
  Spec => []~(part = "par") \/ (Pushed!Spec /\ [](part = "par"))
<1>1. Init /\ part = "par" => Pushed!Init
  BY DEF Init
<1>2. [Next]_slots /\ part = "par" => [Pushed!Next]_(Pushed!parVars)
  BY DEF Next, slots, Pushed!parVars, parNow, registered, changes, par,
     pushedBy, authorizes, opened
<1>3. [Next]_slots => ((part = "par")' <=> part = "par")
  BY PartStays
<1>4. QED
  BY <1>1, <1>2, <1>3, PTL DEF Spec, Pushed!Spec

LEMMA GrantedRun ==
  Spec => []~(part = "access") \/ (Granted!Spec /\ [](part = "access"))
<1>1. Init /\ part = "access" => Granted!Init
  BY DEF Init
<1>2. [Next]_slots /\ part = "access" => [Granted!Next]_(Granted!accessVars)
  BY DEF Next, slots, Granted!accessVars, accessNow, enrolled, enrolments,
     root, issued, chains, idTokens, exchange, vouched
<1>3. [Next]_slots => ((part = "access")' <=> part = "access")
  BY PartStays
<1>4. QED
  BY <1>1, <1>2, <1>3, PTL DEF Spec, Granted!Spec

(* A component with proofs in a module of its own: the same definitions,   *)
(* of the same state.                                                      *)
ProviderProofs ==
  INSTANCE UpstreamProofs
  WITH now <- loginNow, flows <- logins, codes <- loginCodes, req <- loginReq,
       Requests <- LoginRequests, Unsolicited <- Uninvited,
       MaxTime <- MaxLoginTime

LEMMA SameProvider ==
  /\ Provider!UpstreamInit <=> ProviderProofs!UpstreamInit
  /\ Provider!UpstreamNext <=> ProviderProofs!UpstreamNext
<1>1. Provider!UpstreamInit <=> ProviderProofs!UpstreamInit
  BY DEF Provider!UpstreamInit, ProviderProofs!UpstreamInit, Provider!Init,
    ProviderProofs!Init, Provider!Idle, ProviderProofs!Idle
<1>2. Provider!UpstreamNext <=> ProviderProofs!UpstreamNext
  BY DEF Provider!UpstreamNext, ProviderProofs!UpstreamNext,
    Provider!UpstreamTick, ProviderProofs!UpstreamTick, Provider!StartLogin,
    ProviderProofs!StartLogin, Provider!StartAuthorize,
    ProviderProofs!StartAuthorize, Provider!Becomes, ProviderProofs!Becomes,
    Provider!Idle, ProviderProofs!Idle, Provider!BuildAuthorizeRedirect,
    ProviderProofs!BuildAuthorizeRedirect, Provider!Redirected,
    ProviderProofs!Redirected, Provider!HandlerSaves,
    ProviderProofs!HandlerSaves, Provider!Live, ProviderProofs!Live,
    Provider!Sweep, ProviderProofs!Sweep, Provider!Answer,
    ProviderProofs!Answer, Provider!HandlerChallenges,
    ProviderProofs!HandlerChallenges, Provider!Grant, ProviderProofs!Grant,
    Provider!Surfaced, ProviderProofs!Surfaced, Provider!AtCallback,
    ProviderProofs!AtCallback, Provider!CallbackConsume,
    ProviderProofs!CallbackConsume, Provider!AtItsAddress,
    ProviderProofs!AtItsAddress, Provider!Take, ProviderProofs!Take,
    Provider!CallbackReplayed, ProviderProofs!CallbackReplayed,
    Provider!Bring, ProviderProofs!Bring, Provider!AtRoute,
    ProviderProofs!AtRoute, Provider!RouteRead, ProviderProofs!RouteRead,
    Provider!OwnedBy, ProviderProofs!OwnedBy, Provider!ExchangeCode,
    ProviderProofs!ExchangeCode, Provider!Answered, ProviderProofs!Answered,
    Provider!Fits, ProviderProofs!Fits, Provider!Verifier,
    ProviderProofs!Verifier, Provider!Fails, ProviderProofs!Fails,
    Provider!HandlerFails, ProviderProofs!HandlerFails, Provider!Succeed,
    ProviderProofs!Succeed, Provider!CallbackSucceeds,
    ProviderProofs!CallbackSucceeds, Provider!FlowSucceeds,
    ProviderProofs!FlowSucceeds, Provider!Framework, ProviderProofs!Framework,
    Provider!Surface, ProviderProofs!Surface, Provider!IssueCode,
    ProviderProofs!IssueCode, Provider!IssueFails, ProviderProofs!IssueFails,
    Provider!Tick, ProviderProofs!Tick, Provider!Ask, ProviderProofs!Ask,
    Provider!Handler, ProviderProofs!Handler, Provider!vars,
    ProviderProofs!vars, Provider!Own, ProviderProofs!Own
<1>3. QED
  BY <1>1, <1>2

LEMMA ProviderRun ==
  Spec => []~(part = "upstream") \/ (ProviderProofs!UpstreamSpec /\ [](part = "upstream"))
<1>1. Init /\ part = "upstream" => ProviderProofs!UpstreamInit
  BY SameProvider DEF Init
<1>2. [Next]_slots /\ part = "upstream" => [ProviderProofs!UpstreamNext]_(ProviderProofs!upstreamVars)
  BY SameProvider DEF Next, slots, ProviderProofs!upstreamVars,
     ProviderProofs!vars, loginNow, logins, loginCodes, loginReq, pkce,
     granted, brought, subject
<1>3. [Next]_slots => ((part = "upstream")' <=> part = "upstream")
  BY PartStays
<1>4. QED
  BY <1>1, <1>2, <1>3, PTL DEF Spec, ProviderProofs!UpstreamSpec

(* What holds of each component, for all values of the constants that the  *)
(* assumptions of module Components allow.                                 *)

(* A SAML assertion logs somebody in once, up to the exceptions listed     *)
(* there (methods/saml-sp/acs.ts, consumeAssertion).                       *)
THEOREM AssertionsStaySpent == Spec => []AssertionsAreUsedOnce
<1>1. Connection!Spec => []Connection!AssertionsAreUsedOnce
  BY AssertionsLogInOnce, ConnectionAssumption
<1>2. QED
  BY <1>1, ConnectionRun, PTL DEF AssertionsAreUsedOnce

(* A confirmed SAML logout was carried out, and one is refused as a replay *)
(* only if it was put on record (methods/saml-sp/sls.ts).                  *)
THEOREM LogoutsAreCarriedOut == Spec => []LogoutsAreNotLost
<1>1. Connection!Spec => []Connection!LogoutsAreNotLost
  BY LogoutsStayKnown, ConnectionAssumption
<1>2. QED
  BY <1>1, ConnectionRun, PTL DEF LogoutsAreNotLost

(* The stored passkey counter never falls behind one that logged in,       *)
(* unless verifications overlap (methods/passkey.ts, authVerify).          *)
THEOREM CountersDoNotFallBehind == Spec => []CountersAreKept
<1>1. Authenticators!Spec => []Authenticators!CountersAreKept
  BY CountersStay, AuthenticatorsAssumption
<1>2. QED
  BY <1>1, AuthenticatorsRun, PTL DEF CountersAreKept

(* Whoever has registered a password gets in, unless registrations of the  *)
(* address overlapped (methods/password.ts, handleRegister).               *)
THEOREM RegistrantsLogIn == Spec => []RegistrantsGetIn
<1>1. Users!Spec => []Users!RegistrantsGetIn
  BY RegistrantsAreLetIn
<1>2. QED
  BY <1>1, UsersRun, PTL DEF RegistrantsGetIn

(* With PKCE a login at another provider answers the redirect of its own   *)
(* flow, and the verifier is there when it does                            *)
(* (methods/oauth2-generic.ts).                                            *)
THEOREM AnswersAreForTheirFlow == Spec => []AnswersFitTheirFlow
<1>1. ProviderProofs!UpstreamSpec => []ProviderProofs!AnswersFitTheirFlow
  BY ProviderProofs!AnswersAreForTheFlow, ProviderAssumption
     DEF Provider!UpstreamAssumption, ProviderProofs!UpstreamAssumption,
         Provider!FlowsAssumption, ProviderProofs!FlowsAssumption,
         Provider!NoneIsNoRecord, ProviderProofs!NoneIsNoRecord,
         Provider!Ask, ProviderProofs!Ask, Provider!Handler,
         ProviderProofs!Handler, Provider!StoredFlow,
         ProviderProofs!StoredFlow
<1>2. AnswersFitTheirFlow <=> (part = "upstream" => ProviderProofs!AnswersFitTheirFlow)
  BY DEF AnswersFitTheirFlow, Provider!AnswersFitTheirFlow,
    ProviderProofs!AnswersFitTheirFlow, Provider!LoginsAnswerTheirRedirect,
    ProviderProofs!LoginsAnswerTheirRedirect, Provider!OwnAnswersFit,
    ProviderProofs!OwnAnswersFit, Provider!Answered, ProviderProofs!Answered,
    Provider!Fits, ProviderProofs!Fits, Provider!Verifier,
    ProviderProofs!Verifier
<1>3. QED
  BY <1>1, <1>2, ProviderRun, PTL

(* A relying party's session is lost only for the reasons listed there     *)
(* (client.ts, verify and refresh).                                        *)
THEOREM SessionsEndForAReason == Spec => []SessionsAreLostForAReason
<1>1. Relying!Spec => []Relying!SessionsAreLostForAReason
  BY SessionsStay, RelyingAssumption
<1>2. QED
  BY <1>1, RelyingRun, PTL DEF SessionsAreLostForAReason

(* A DPoP proof is good for one request, but for a second at both ends of  *)
(* its window (domain/dpop.ts, recordDpopJti).                             *)
THEOREM ProofsAreSpent == Spec => []ProofsAreUsedOnce
<1>1. Dpops!Spec => []Dpops!ProofsAreUsedOnce
  BY ProofsAreForOneUse, DpopsAssumption
<1>2. QED
  BY <1>1, DpopsRun, PTL DEF ProofsAreUsedOnce

(* A pushed request opens one flow, for who pushed it and with what was    *)
(* pushed (domain/par.ts, http/handlers/authorize.ts).                     *)
THEOREM FlowsStayAsPushed == Spec => []FlowsKeepToThePush
<1>1. Pushed!Spec => []Pushed!FlowsKeepToThePush
  BY PushesAreKept, PushedAssumption
<1>2. QED
  BY <1>1, PushedRun, PTL DEF FlowsKeepToThePush

(* Whatever is refreshed and exchanged descends from the first grant       *)
(* (domain/token.ts, mintTokens; domain/token-exchange.ts).                *)
THEOREM TokensDescend == Spec => []TokensKeepTheirLineage
<1>1. Granted!Spec => []Granted!TokensKeepTheirLineage
  BY LineageIsKept, GrantedAssumption
<1>2. QED
  BY <1>1, GrantedRun, PTL DEF TokensKeepTheirLineage
=============================================================================

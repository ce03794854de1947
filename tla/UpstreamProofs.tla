--------------------------- MODULE UpstreamProofs ---------------------------
(***************************************************************************)
(* Proofs about Upstream for any number of requests, accounts, tenants and *)
(* clients, with PKCE and without.  The method takes only steps of Flows,  *)
(* so all that is proved of Flows holds of it.                             *)
(***************************************************************************)
EXTENDS Upstream, FlowsProofs

GrantedCode == [account : Accounts, spent : BOOLEAN]

UpstreamTypeOK ==
  /\ pkce \in BOOLEAN
  /\ granted \in [Requests -> GrantedCode \cup {None}]
  /\ brought \in [Requests -> Requests \cup {None}]
  /\ subject \in [Requests -> Accounts \cup {None}]

(* The provider issues codes for redirects that went out, and an answer    *)
(* carries one of them.                                                    *)
CodesWereGranted ==
  /\ \A f \in Requests : granted[f] # None => Surfaced(f)
  /\ \A r \in Requests :
       /\ req[r].pc = "idle" => brought[r] = None /\ subject[r] = None
       /\ brought[r] # None => granted[brought[r]] # None

(* A verifier is the one that was drawn for the flow it is read from, and  *)
(* with PKCE no redirect goes out before it is saved.                      *)
VerifiersAreOwn ==
  /\ \A f \in Requests : flows[f] # None => flows[f].state \in {f, None}
  /\ \A r \in Requests :
       /\ req[r].seen \in {req[r].flow, None}
       /\ pkce => req[r].out # "challenge"

(* Whoever got a user's tokens traded a code for them, alone, and with     *)
(* PKCE the code of the flow it is handling.                               *)
SubjectsAreTraded ==
  /\ \A r \in Requests :
       subject[r] # None =>
         /\ brought[r] # None /\ granted[brought[r]].spent
         /\ subject[r] = granted[brought[r]].account
         /\ pkce => brought[r] = req[r].flow
  /\ \A q, r \in Requests :
       subject[q] # None /\ subject[r] # None /\ brought[q] = brought[r] => q = r

(* Only who got a user's tokens succeeds. *)
SuccessHasASubject ==
  \A r \in Requests :
    /\ req[r].pc = "minting" \/ req[r].out = "code" =>
         subject[r] # None /\ req[r].op \in {"callback", "route"}
    /\ req[r].out = "code" => codes[r] # None

UpstreamInv ==
  CodesWereGranted /\ VerifiersAreOwn /\ SubjectsAreTraded /\ SuccessHasASubject

----------------------------------------------------------------------------
(* The method takes the steps of the flows it runs on and no others. *)
LEMMA StepsOfFlows == UpstreamNext => [Next]_vars
<1> SUFFICES ASSUME UpstreamNext PROVE [Next]_vars
  OBVIOUS
<1> USE DEF Next, Begin, Continue
<1>1. CASE UpstreamTick
  BY <1>1 DEF UpstreamTick
<1>2. ASSUME NEW r \in Requests, StartLogin(r) \/ BuildAuthorizeRedirect(r)
      PROVE  [Next]_vars
  BY <1>2 DEF StartLogin, BuildAuthorizeRedirect
<1>3. ASSUME NEW r \in Requests, NEW account, Grant(r, account) PROVE [Next]_vars
  BY <1>3 DEF Grant, vars
<1>4. ASSUME NEW r \in Requests, NEW f \in Requests, NEW code,
             AtCallback(r, f, code) \/ AtRoute(r, f, code)
      PROVE  [Next]_vars
  BY <1>4 DEF AtCallback, AtRoute
<1>5. ASSUME NEW r \in Requests, ExchangeCode(r) PROVE [Next]_vars
  BY <1>5 DEF ExchangeCode, vars
<1>6. ASSUME NEW r \in Requests, Fails(r) \/ Succeed(r) \/ Framework(r)
      PROVE  [Next]_vars
  BY <1>6 DEF Fails, Succeed, Framework
<1>7. QED
  BY <1>1, <1>2, <1>3, <1>4, <1>5, <1>6 DEF UpstreamNext

(* Whatever is proved of Flows holds of a server with this method. *)
THEOREM RunsOnFlows == UpstreamSpec => Spec
<1>1. UpstreamInit => Init
  BY DEF UpstreamInit
<1>2. [UpstreamNext]_upstreamVars => [Next]_vars
  BY StepsOfFlows DEF upstreamVars, vars
<1>3. QED
  BY <1>1, <1>2, PTL DEF UpstreamSpec, Spec

----------------------------------------------------------------------------
(* What a step does to the request r it is about, and to the flows.        *)
(* Beginning takes a request up; what it was dispatched with is the state  *)
(* of its flow.                                                            *)
Others(r) ==
  /\ \A x \in Requests \ {r} : req'[x] = req[x] /\ codes'[x] = codes[x]
  /\ \A f \in Requests :
       flows'[f] # None =>
         \/ flows'[f].state \in {f, None}
         \/ flows[f] # None /\ flows'[f].state = flows[f].state

Beginning(r) ==
  /\ Others(r)
  /\ req[r].pc = "idle" /\ req'[r].pc \notin {"idle", "minting"}
  /\ req'[r].out \notin {"code", "challenge", "saved"}
  /\ req'[r].seen \in {req'[r].flow, None}

Continuing(r) ==
  /\ Others(r)
  /\ req[r].pc \notin {"idle", "done"} /\ req'[r].pc # "idle"
  /\ req'[r].op = req[r].op /\ req'[r].flow = req[r].flow /\ req'[r].seen = req[r].seen
  /\ req'[r].pc = "minting" => Answered(r) /\ subject[r] # None
  /\ req'[r].out = "code" => req[r].pc = "minting" /\ codes'[r] # None
  /\ pkce => req'[r].out # "challenge"

Brings(r) ==
  \E code \in Requests \cup {None} :
    /\ code # None => granted[code] # None
    /\ brought' = [brought EXCEPT ![r] = code]
    /\ UNCHANGED <<pkce, granted, subject>>

LEMMA FlowsKeep ==
  ASSUME UpstreamInv, TypeOK, TypeOK', NEW r \in Requests,
         Beginning(r) \/ Continuing(r), pkce' = pkce
  PROVE  VerifiersAreOwn'
<1>1. \A f \in Requests : flows'[f] # None => flows'[f].state \in {f, None}
  BY DEF Beginning, Continuing, Others, UpstreamInv, VerifiersAreOwn
<1>2. ASSUME NEW x \in Requests
      PROVE  req'[x].seen \in {req'[x].flow, None} /\ (pkce => req'[x].out # "challenge")
  BY DEF Beginning, Continuing, Others, UpstreamInv, VerifiersAreOwn
<1>3. QED
  BY <1>1, <1>2 DEF VerifiersAreOwn

(* A redirect that went out stays out. *)
LEMMA RedirectsStay ==
  ASSUME Inv, NEW r \in Requests, Beginning(r) \/ Continuing(r),
         NEW f \in Requests, Surfaced(f)
  PROVE  Surfaced(f)'
<1>1. req[f].pc = "done"
  BY DEF Inv, StagesOK, StageOK, Surfaced
<1>2. f # r
  BY <1>1 DEF Beginning, Continuing
<1>3. QED
  BY <1>2 DEF Beginning, Continuing, Others, Surfaced

LEMMA BeginningKeeps ==
  ASSUME TypeOK, TypeOK', Inv, UpstreamTypeOK, UpstreamInv, NEW r \in Requests,
         Beginning(r), UNCHANGED <<pkce, Own>> \/ Brings(r)
  PROVE  UpstreamTypeOK' /\ UpstreamInv'
<1>1. /\ UNCHANGED <<pkce, granted, subject>>
      /\ \A x \in Requests \ {r} : brought'[x] = brought[x]
      /\ brought' \in [Requests -> Requests \cup {None}]
      /\ brought'[r] # None => granted[brought'[r]] # None
  BY DEF Brings, Own, UpstreamTypeOK, UpstreamInv, CodesWereGranted
<1>2. UpstreamTypeOK'
  BY <1>1 DEF UpstreamTypeOK
<1>3. subject[r] = None
  BY DEF Beginning, UpstreamInv, CodesWereGranted
<1>4. CodesWereGranted'
  <2>1. \A f \in Requests : granted'[f] # None => Surfaced(f)'
    BY <1>1, RedirectsStay DEF UpstreamInv, CodesWereGranted
  <2>2. ASSUME NEW x \in Requests
        PROVE  /\ req'[x].pc = "idle" => brought'[x] = None /\ subject'[x] = None
               /\ brought'[x] # None => granted'[brought'[x]] # None
    BY <1>1 DEF Beginning, Others, UpstreamInv, CodesWereGranted
  <2>3. QED
    BY <2>1, <2>2 DEF CodesWereGranted
<1>5. SubjectsAreTraded'
  BY <1>1, <1>3 DEF Beginning, Others, UpstreamInv, SubjectsAreTraded
<1>6. SuccessHasASubject'
  BY <1>1 DEF Beginning, Others, UpstreamInv, SuccessHasASubject
<1>7. QED
  BY <1>1, <1>2, <1>4, <1>5, <1>6, FlowsKeep DEF UpstreamInv

LEMMA ContinuingKeeps ==
  ASSUME TypeOK, TypeOK', Inv, UpstreamTypeOK, UpstreamInv, NEW r \in Requests,
         Continuing(r), UNCHANGED <<pkce, Own>>
  PROVE  UpstreamTypeOK' /\ UpstreamInv'
<1>1. UNCHANGED <<pkce, granted, brought, subject>>
  BY DEF Own
<1>2. UpstreamTypeOK'
  BY <1>1 DEF UpstreamTypeOK
<1>3. CodesWereGranted'
  <2>1. \A f \in Requests : granted'[f] # None => Surfaced(f)'
    BY <1>1, RedirectsStay DEF UpstreamInv, CodesWereGranted
  <2>2. ASSUME NEW x \in Requests
        PROVE  /\ req'[x].pc = "idle" => brought'[x] = None /\ subject'[x] = None
               /\ brought'[x] # None => granted'[brought'[x]] # None
    BY <1>1 DEF Continuing, Others, UpstreamInv, CodesWereGranted
  <2>3. QED
    BY <2>1, <2>2 DEF CodesWereGranted
<1>4. SubjectsAreTraded'
  BY <1>1 DEF Continuing, Others, UpstreamInv, SubjectsAreTraded
<1>5. ASSUME NEW x \in Requests
      PROVE  /\ req'[x].pc = "minting" \/ req'[x].out = "code" =>
                  subject[x] # None /\ req'[x].op \in {"callback", "route"}
             /\ req'[x].out = "code" => codes'[x] # None
  BY DEF Continuing, Others, Answered, UpstreamInv, SuccessHasASubject
<1>6. SuccessHasASubject'
  BY <1>1, <1>5 DEF SuccessHasASubject
<1>7. QED
  BY <1>1, <1>2, <1>3, <1>4, <1>6, FlowsKeep DEF UpstreamInv

----------------------------------------------------------------------------
(* Replacing a request, and answering one. *)
LEMMA Replaced ==
  ASSUME TypeOK, NEW r \in Requests, NEW q, Becomes(r, q)
  PROVE  req'[r] = q /\ \A x \in Requests \ {r} : req'[x] = req[x]
  BY DEF Becomes, TypeOK

LEMMA Responded ==
  ASSUME TypeOK, NEW r \in Requests, NEW q \in RequestRecord, NEW result,
         Answer(r, q, result)
  PROVE  /\ req'[r].pc = "done" /\ req'[r].out = result
         /\ req'[r].op = q.op /\ req'[r].flow = q.flow /\ req'[r].seen = q.seen
         /\ \A x \in Requests \ {r} : req'[x] = req[x]
<1>1. req'[r] = [q EXCEPT !.pc = "done", !.out = result]
  BY DEF Answer, Becomes, TypeOK
<1>2. QED
  BY <1>1, Replaced DEF Answer, RequestRecord

LEMMA StartBegins ==
  ASSUME TypeOK, NEW r \in Requests, NEW a \in Ask, StartAuthorize(r, a)
  PROVE  Beginning(r)
<1> DEFINE q == [Idle EXCEPT !.pc = "handling", !.op = "authorize", !.flow = r, !.ask = a,
                   !.by = [tenant |-> a.tenant, method |-> a.method]]
           row == [ask |-> a, state |-> None, expiresAt |-> now + FlowTtl]
<1>1. q.pc = "handling" /\ q.out = "none" /\ q.seen = None
  BY DEF Idle
<1>2. Becomes(r, q) /\ req[r].pc = "idle" /\ codes' = codes
  BY DEF StartAuthorize
<1>3. flows' = [flows EXCEPT ![r] = row] /\ row.state = None
  BY DEF StartAuthorize
<1> HIDE DEF q, row
<1>4. \A f \in Requests : flows'[f] = IF f = r THEN row ELSE flows[f]
  BY <1>3 DEF TypeOK
<1>5. QED
  BY <1>1, <1>2, <1>3, <1>4, Replaced DEF Beginning, Others

(* A flow that is taken, or swept, is as it was or gone. *)
LEMMA Removals ==
  ASSUME TypeOK, NEW f \in Requests, Take(f) \/ Sweep(f) \/ flows' = flows
  PROVE  \A x \in Requests : flows'[x] = flows[x] \/ flows'[x] = None
  BY DEF Take, Sweep, TypeOK

LEMMA CallbackBegins ==
  ASSUME TypeOK, UpstreamInv, NEW r \in Requests, NEW f \in Requests,
         NEW host, NEW m, CallbackConsume(r, f, host, m)
  PROVE  Beginning(r)
<1> DEFINE begun == [Idle EXCEPT !.op = "callback", !.flow = f, !.seen = flows[f].state]
           q == [begun EXCEPT !.pc = "handling", !.ask = flows[f].ask,
                   !.by = [tenant |-> flows[f].ask.tenant, method |-> flows[f].ask.method]]
<1>1. flows[f] # None /\ flows[f].state \in {f, None}
  BY DEF CallbackConsume, Live, UpstreamInv, VerifiersAreOwn
<1>2. /\ begun \in RequestRecord
      /\ begun.flow = f /\ begun.seen = flows[f].state
  BY <1>1 DEF Idle, RequestRecord
<1>3. q.pc = "handling" /\ q.out = "none" /\ q.flow = f /\ q.seen = flows[f].state
  BY DEF Idle
<1>4. /\ req[r].pc = "idle" /\ codes' = codes /\ Take(f)
      /\ Answer(r, begun, "refused") \/ Becomes(r, q)
  BY DEF CallbackConsume
<1> HIDE DEF begun, q
<1>5. QED
  BY <1>1, <1>2, <1>3, <1>4, Responded, Replaced, Removals DEF Beginning, Others

LEMMA ReplayBegins ==
  ASSUME TypeOK, NEW r \in Requests, NEW f \in Requests, CallbackReplayed(r, f)
  PROVE  Beginning(r)
<1> DEFINE begun == [Idle EXCEPT !.op = "callback", !.flow = f]
<1>1. begun \in RequestRecord /\ begun.seen = None
  BY DEF Idle, RequestRecord
<1>2. /\ req[r].pc = "idle" /\ codes' = codes /\ Take(f)
      /\ Answer(r, begun, "replay")
  BY DEF CallbackReplayed
<1> HIDE DEF begun
<1>3. QED
  BY <1>1, <1>2, Responded, Removals DEF Beginning, Others

LEMMA RouteBegins ==
  ASSUME TypeOK, UpstreamInv, NEW r \in Requests, NEW f \in Requests,
         NEW h \in Handler, RouteRead(r, f, h)
  PROVE  Beginning(r)
<1> DEFINE begun == [Idle EXCEPT !.op = "route", !.flow = f]
           q == [begun EXCEPT !.pc = "handling", !.by = h, !.seen = flows[f].state]
<1>1. begun \in RequestRecord /\ begun.seen = None
  BY DEF Idle, RequestRecord
<1>2. q.pc = "handling" /\ q.out = "none" /\ q.flow = f /\ q.seen = flows[f].state
  BY DEF Idle
<1>3. /\ req[r].pc = "idle" /\ codes' = codes /\ Sweep(f)
      /\ \/ Answer(r, begun, "refused")
         \/ Becomes(r, q) /\ flows[f] # None
  BY DEF RouteRead, Live
<1> HIDE DEF begun, q
<1>4. flows[f] # None => flows[f].state \in {f, None}
  BY DEF UpstreamInv, VerifiersAreOwn
<1>5. QED
  BY <1>1, <1>2, <1>3, <1>4, Responded, Replaced, Removals DEF Beginning, Others

(* A request goes on. *)
Progress(r, pc) ==
  /\ \A x \in Requests \ {r} : req'[x] = req[x]
  /\ req'[r].op = req[r].op /\ req'[r].flow = req[r].flow /\ req'[r].seen = req[r].seen
  /\ req'[r].out = req[r].out /\ req'[r].pc = pc

LEMMA GoesOn ==
  ASSUME TypeOK, NEW r \in Requests, NEW pc,
         \/ Becomes(r, [req[r] EXCEPT !.pc = pc])
         \/ \E a : Becomes(r, [req[r] EXCEPT !.pc = pc, !.ask = a])
  PROVE  Progress(r, pc)
<1>1. req[r] \in RequestRecord
  BY DEF TypeOK
<1>2. CASE Becomes(r, [req[r] EXCEPT !.pc = pc])
  BY <1>1, <1>2 DEF Becomes, Progress, TypeOK, RequestRecord
<1>3. ASSUME NEW a, Becomes(r, [req[r] EXCEPT !.pc = pc, !.ask = a])
      PROVE  Progress(r, pc)
  BY <1>1, <1>3 DEF Becomes, Progress, TypeOK, RequestRecord
<1>4. QED
  BY <1>2, <1>3

(* With PKCE the verifier is stored before the redirect goes out; the flow *)
(* is the one this very request started.                                   *)
LEMMA RedirectContinues ==
  ASSUME TypeOK, Inv, UpstreamTypeOK, NEW r \in Requests, BuildAuthorizeRedirect(r)
  PROVE  Continuing(r)
<1>1. /\ req[r] \in RequestRecord /\ req[r].pc = "handling" /\ req[r].out = "none"
      /\ req[r].flow = r
  BY DEF TypeOK, Inv, StagesOK, StageOK, Started, BuildAuthorizeRedirect, Redirected,
         RequestRecord
<1>2. CASE pkce
  <2>1. HandlerSaves(r)
    BY <1>2 DEF BuildAuthorizeRedirect
  <2>2. r # None
    BY FlowsAssumption
  <2>3. CASE /\ Live(r) /\ flows' = [flows EXCEPT ![r].state = r]
             /\ Becomes(r, [req[r] EXCEPT !.pc = "persisted"])
    <3>1. Progress(r, "persisted") /\ codes' = codes
      BY <2>1, <2>3, GoesOn DEF HandlerSaves
    <3>2. flows'[r].state = r /\ \A f \in Requests \ {r} : flows'[f] = flows[f]
      <4>1. flows[r] \in StoredFlow
        BY <2>3 DEF Live, TypeOK
      <4>2. QED
        BY <2>3, <4>1 DEF TypeOK, StoredFlow
    <3>3. QED
      BY <1>1, <3>1, <3>2 DEF Progress, Continuing, Others
  <2>4. CASE Sweep(r) /\ Answer(r, req[r], "refused")
    BY <1>1, <2>1, <2>4, Responded, Removals DEF HandlerSaves, Continuing, Others
  <2>5. QED
    BY <1>1, <2>1, <2>2, <2>3, <2>4 DEF HandlerSaves
<1>3. CASE ~pkce
  <2>1. Answer(r, req[r], "challenge") /\ codes' = codes /\ flows' = flows
    BY <1>3 DEF BuildAuthorizeRedirect, HandlerChallenges
  <2>2. QED
    BY <1>1, <1>3, <2>1, Responded DEF Continuing, Others
<1>4. QED
  BY <1>2, <1>3

LEMMA HandlerContinues ==
  ASSUME TypeOK, Inv, UpstreamInv, NEW r \in Requests,
         Fails(r) \/ Succeed(r) \/ Framework(r)
  PROVE  Continuing(r)
<1>1. req[r] \in RequestRecord /\ (req[r].out # "none" => req[r].pc = "done")
  BY DEF TypeOK, Inv, StagesOK, StageOK
<1>2. CASE Fails(r)
  BY <1>1, <1>2, Responded DEF Fails, HandlerFails, Continuing, Others
<1>3. CASE Succeed(r)
  <2>1. /\ req[r].pc = "handling" /\ Answered(r) /\ subject[r] # None /\ codes' = codes
        /\ \/ flows' = flows
           \/ Take(req[r].flow) /\ req[r].op = "route"
        /\ \/ Becomes(r, [req[r] EXCEPT !.pc = "minting"])
           \/ Becomes(r, [req[r] EXCEPT !.pc = "minting", !.ask = flows[req[r].flow].ask])
           \/ Answer(r, req[r], "refused")
    BY <1>3 DEF Succeed, CallbackSucceeds, FlowSucceeds, Answered
  <2>2. req[r].op = "route" => req[r].flow \in Requests
    BY DEF TypeOK, RequestRecord, Inv, StagesOK, StageOK
  <2>3. Progress(r, "minting") \/ Answer(r, req[r], "refused")
    BY <2>1, GoesOn
  <2>4. QED
    BY <1>1, <2>1, <2>2, <2>3, Responded, Removals DEF Progress, Continuing, Others
<1>4. CASE Surface(r) \/ IssueFails(r)
  BY <1>1, <1>4, Responded DEF Surface, IssueFails, Continuing, Others
<1>5. CASE IssueCode(r)
  <2>1. req[r].ask # None
    BY <1>5 DEF IssueCode, Inv, AsksAreKept, Holds
  <2>2. codes' = [codes EXCEPT ![r] = req[r].ask] /\ Answer(r, req[r], "code")
        /\ req[r].pc = "minting" /\ flows' = flows
    BY <1>5 DEF IssueCode
  <2>3. codes'[r] # None /\ \A x \in Requests \ {r} : codes'[x] = codes[x]
    BY <2>1, <2>2 DEF TypeOK
  <2>4. QED
    BY <1>1, <2>2, <2>3, Responded DEF Continuing, Others
<1>6. QED
  BY <1>2, <1>3, <1>4, <1>5 DEF Framework

----------------------------------------------------------------------------
(* The provider's own steps.  A code is granted once for each redirect. *)
LEMMA GrantKeeps ==
  ASSUME UpstreamAssumption, UpstreamTypeOK, UpstreamInv, NEW f \in Requests,
         NEW account \in Accounts, Grant(f, account)
  PROVE  UpstreamTypeOK' /\ UpstreamInv'
<1> DEFINE code == [account |-> account, spent |-> FALSE]
<1>1. code \in GrantedCode /\ code # None
  <2>1. code \in GrantedCode
    BY DEF GrantedCode
  <2>2. None \notin GrantedCode
    BY DEF GrantedCode, UpstreamAssumption
  <2>3. QED
    BY <2>1, <2>2
<1>2. /\ granted' = [granted EXCEPT ![f] = code] /\ granted[f] = None /\ Surfaced(f)
      /\ UNCHANGED <<now, flows, codes, req, pkce, brought, subject>>
  BY DEF Grant, vars
<1> HIDE DEF code
<1>3. /\ granted' \in [Requests -> GrantedCode \cup {None}]
      /\ \A x \in Requests : granted'[x] = IF x = f THEN code ELSE granted[x]
  BY <1>1, <1>2 DEF UpstreamTypeOK
<1>4. UpstreamTypeOK'
  BY <1>2, <1>3 DEF UpstreamTypeOK
<1>5. \A r \in Requests : brought[r] # None =>
        brought[r] \in Requests /\ brought[r] # f /\ granted'[brought[r]] = granted[brought[r]]
  BY <1>2, <1>3 DEF UpstreamTypeOK, UpstreamInv, CodesWereGranted
<1>6. CodesWereGranted'
  BY <1>1, <1>2, <1>3, <1>5 DEF UpstreamInv, CodesWereGranted, Surfaced
<1>7. SubjectsAreTraded'
  BY <1>2, <1>5 DEF UpstreamInv, SubjectsAreTraded
<1>8. VerifiersAreOwn' /\ SuccessHasASubject'
  BY <1>2 DEF UpstreamInv, VerifiersAreOwn, SuccessHasASubject
<1>9. QED
  BY <1>4, <1>6, <1>7, <1>8 DEF UpstreamInv

(* A code is traded once: whoever else brings it has no subject yet, and   *)
(* will not get one.                                                       *)
LEMMA ExchangeKeeps ==
  ASSUME UpstreamAssumption, UpstreamTypeOK, UpstreamInv, Inv, NEW r \in Requests,
         ExchangeCode(r)
  PROVE  UpstreamTypeOK' /\ UpstreamInv'
<1>1. PICK c \in Requests : c = brought[r]
  BY DEF ExchangeCode, UpstreamTypeOK
<1>2. PICK old \in GrantedCode : old = granted[c]
  BY <1>1 DEF ExchangeCode, UpstreamTypeOK, UpstreamInv, CodesWereGranted
<1> DEFINE new == [old EXCEPT !.spent = TRUE]
<1>3. new \in GrantedCode /\ new # None /\ new.spent /\ new.account = old.account
  BY DEF GrantedCode, UpstreamAssumption
<1>4. /\ granted' = [granted EXCEPT ![c] = new]
      /\ subject' = [subject EXCEPT ![r] = old.account]
      /\ UNCHANGED <<now, flows, codes, req, pkce, brought>>
      /\ ~old.spent /\ subject[r] = None /\ Answered(r) /\ Fits(r)
  BY <1>1, <1>2 DEF ExchangeCode, vars
<1> HIDE DEF new
<1>5. old.account \in Accounts
  BY DEF GrantedCode
<1>6. /\ granted' \in [Requests -> GrantedCode \cup {None}]
      /\ subject' \in [Requests -> Accounts \cup {None}]
      /\ \A x \in Requests : /\ granted'[x] = IF x = c THEN new ELSE granted[x]
                             /\ subject'[x] = IF x = r THEN old.account ELSE subject[x]
  BY <1>3, <1>4, <1>5 DEF UpstreamTypeOK
<1>7. UpstreamTypeOK'
  BY <1>4, <1>6 DEF UpstreamTypeOK
<1>8. granted[c] # None /\ c # None /\ req[r].pc # "idle"
  BY <1>1, <1>4 DEF ExchangeCode, UpstreamInv, CodesWereGranted, Answered
<1>9. CodesWereGranted'
  <2>1. \A f \in Requests : granted'[f] # None => granted[f] # None
    BY <1>6, <1>8
  <2>2. ASSUME NEW x \in Requests, brought[x] # None PROVE granted'[brought[x]] # None
    <3>1. brought[x] \in Requests /\ granted[brought[x]] # None
      BY <2>2 DEF UpstreamTypeOK, UpstreamInv, CodesWereGranted
    <3>2. QED
      BY <1>3, <1>6, <3>1
  <2>3. QED
    BY <1>4, <1>6, <1>8, <2>1, <2>2 DEF UpstreamInv, CodesWereGranted, Surfaced
<1>10. pkce => c = req[r].flow
  BY <1>1, <1>4 DEF Fits, Verifier, UpstreamInv, VerifiersAreOwn
<1>11. \A q \in Requests : subject[q] # None =>
         brought[q] \in Requests /\ brought[q] # c /\ granted'[brought[q]] = granted[brought[q]]
  BY <1>2, <1>4, <1>6 DEF UpstreamTypeOK, UpstreamInv, SubjectsAreTraded
<1>12. SubjectsAreTraded'
  <2>1. ASSUME NEW x \in Requests, subject'[x] # None
        PROVE  /\ brought[x] # None /\ granted'[brought[x]].spent
               /\ subject'[x] = granted'[brought[x]].account
               /\ pkce => brought[x] = req[x].flow
    <3>1. CASE x = r
      BY <1>1, <1>3, <1>6, <1>8, <1>10, <3>1
    <3>2. CASE x # r
      BY <1>6, <1>11, <2>1, <3>2 DEF UpstreamInv, SubjectsAreTraded
    <3>3. QED
      BY <3>1, <3>2
  <2>2. ASSUME NEW q \in Requests, NEW x \in Requests,
               subject'[q] # None, subject'[x] # None, brought[q] = brought[x]
        PROVE  q = x
    BY <1>1, <1>6, <1>11, <2>2 DEF UpstreamInv, SubjectsAreTraded
  <2>3. QED
    BY <1>4, <2>1, <2>2 DEF SubjectsAreTraded
<1>13. VerifiersAreOwn'
  BY <1>4 DEF UpstreamInv, VerifiersAreOwn
<1>14. SuccessHasASubject'
  <2>1. ASSUME NEW x \in Requests, req[x].pc = "minting" \/ req[x].out = "code"
        PROVE  x # r /\ subject'[x] = subject[x]
    <3>1. req[r].pc = "handling" /\ req[r].out # "code"
      BY <1>4 DEF Answered, Inv, StagesOK, StageOK
    <3>2. QED
      BY <1>6, <2>1, <3>1
  <2>2. QED
    BY <1>4, <2>1 DEF UpstreamInv, SuccessHasASubject
<1>15. QED
  BY <1>7, <1>9, <1>12, <1>13, <1>14 DEF UpstreamInv

LEMMA UpstreamStep ==
  ASSUME UpstreamAssumption, TypeOK, TypeOK', Inv, UpstreamTypeOK, UpstreamInv,
         [UpstreamNext]_upstreamVars
  PROVE  UpstreamTypeOK' /\ UpstreamInv'
<1>1. CASE UpstreamTick \/ UNCHANGED upstreamVars
  <2>1. UNCHANGED <<flows, codes, req, pkce, granted, brought, subject>>
    BY <1>1 DEF UpstreamTick, Tick, Own, upstreamVars, vars
  <2>2. QED
    BY <2>1 DEF UpstreamTypeOK, UpstreamInv, CodesWereGranted, Surfaced, VerifiersAreOwn,
                SubjectsAreTraded, SuccessHasASubject
<1>2. ASSUME NEW r \in Requests, StartLogin(r) PROVE UpstreamTypeOK' /\ UpstreamInv'
  BY <1>2, StartBegins, BeginningKeeps DEF StartLogin
<1>3. ASSUME NEW r \in Requests, NEW f \in Requests, NEW code \in Requests \cup {None},
             AtCallback(r, f, code) \/ AtRoute(r, f, code)
      PROVE  UpstreamTypeOK' /\ UpstreamInv'
  <2>1. Beginning(r)
    BY <1>3, CallbackBegins, ReplayBegins, RouteBegins DEF AtCallback, AtRoute
  <2>2. Brings(r)
    BY <1>3 DEF AtCallback, AtRoute, Bring, Brings
  <2>3. QED
    BY <2>1, <2>2, BeginningKeeps
<1>4. ASSUME NEW r \in Requests, BuildAuthorizeRedirect(r)
      PROVE  UpstreamTypeOK' /\ UpstreamInv'
  BY <1>4, RedirectContinues, ContinuingKeeps DEF BuildAuthorizeRedirect
<1>5. ASSUME NEW r \in Requests, Fails(r) \/ Succeed(r) \/ Framework(r)
      PROVE  UpstreamTypeOK' /\ UpstreamInv'
  BY <1>5, HandlerContinues, ContinuingKeeps DEF Fails, Succeed, Framework
<1>6. QED
  BY <1>1, <1>2, <1>3, <1>4, <1>5, GrantKeeps, ExchangeKeeps DEF UpstreamNext

(* Who trades which code, and which verifier it is checked against         *)
(* (methods/oauth2-generic.ts).                                            *)
THEOREM UpstreamInvariance ==
  ASSUME UpstreamAssumption
  PROVE  UpstreamSpec => [](UpstreamTypeOK /\ UpstreamInv)
<1>1. UpstreamInit => UpstreamTypeOK /\ UpstreamInv
  <2> SUFFICES ASSUME UpstreamInit PROVE UpstreamTypeOK /\ UpstreamInv
    OBVIOUS
  <2>1. UpstreamTypeOK
    BY DEF UpstreamInit, UpstreamTypeOK
  <2>2. \A r \in Requests : /\ flows[r] = None /\ granted[r] = None /\ brought[r] = None
                            /\ subject[r] = None /\ req[r] = Idle
    BY DEF UpstreamInit, Init
  <2>3. QED
    BY <2>1, <2>2 DEF UpstreamInv, CodesWereGranted, VerifiersAreOwn, SubjectsAreTraded,
                      SuccessHasASubject, Idle
<1>2. UpstreamSpec => [](TypeOK /\ Inv)
  BY RunsOnFlows, Invariance, PTL
<1>3. /\ TypeOK /\ Inv /\ UpstreamTypeOK /\ UpstreamInv
      /\ (TypeOK /\ Inv)' /\ [UpstreamNext]_upstreamVars
      => (UpstreamTypeOK /\ UpstreamInv)'
  BY UpstreamStep
<1>4. QED
  BY <1>1, <1>2, <1>3, PTL DEF UpstreamSpec

(* A code goes to the app for one answer of the provider, which nobody     *)
(* else was given a code for, and with PKCE for the answer to this flow's  *)
(* own redirect; and that answer always finds its verifier, at /cb and at  *)
(* the route (buildAuthorizeRedirect, exchangeAndSucceed).                 *)
THEOREM AnswersAreForTheFlow ==
  ASSUME UpstreamAssumption
  PROVE  UpstreamSpec => []AnswersFitTheirFlow
<1>1. TypeOK /\ Inv /\ UpstreamTypeOK /\ UpstreamInv => AnswersFitTheirFlow
  <2> SUFFICES ASSUME TypeOK, Inv, UpstreamTypeOK, UpstreamInv PROVE AnswersFitTheirFlow
    OBVIOUS
  <2>1. ASSUME NEW r \in Requests, req[r].out = "code"
        PROVE  /\ brought[r] # None /\ subject[r] = granted[brought[r]].account
               /\ pkce => brought[r] = req[r].flow
    BY <2>1 DEF UpstreamInv, SuccessHasASubject, SubjectsAreTraded
  <2>2. ASSUME NEW r \in Requests, NEW q \in Requests \ {r},
               req[r].out = "code", req[q].out = "code"
        PROVE  brought[q] # brought[r] /\ req[q].flow # req[r].flow
    <3>1. brought[q] # brought[r]
      BY <2>2 DEF UpstreamInv, SuccessHasASubject, SubjectsAreTraded
    <3>2. Holds(q) /\ Holds(r) /\ req[q].flow # None
      BY <2>2 DEF Holds, UpstreamInv, SuccessHasASubject, Inv, StagesOK, StageOK
    <3>3. QED
      BY <3>1, <3>2, HoldersSpend DEF Inv, FlowsAreSpentOnce
  <2>3. ASSUME NEW r \in Requests, Answered(r), brought[r] = req[r].flow, pkce
        PROVE  req[r].seen # None /\ req[r].seen = brought[r]
    <3>1. req[r].flow \in Requests /\ req[r].flow # None /\ req[r].by # None
      BY <2>3 DEF Answered, Inv, StagesOK, StageOK, TypeOK, RequestRecord
    <3>2. Surfaced(req[r].flow)
      BY <2>3, <3>1 DEF UpstreamInv, CodesWereGranted
    <3>3. req[req[r].flow].out = "saved"
      BY <2>3, <3>1, <3>2 DEF Surfaced, UpstreamInv, VerifiersAreOwn
    <3>4. req[r].seen # None
      BY <2>3, <3>1, <3>3 DEF Answered, Inv, SavedStateIsFound
    <3>5. QED
      BY <2>3, <3>4 DEF UpstreamInv, VerifiersAreOwn
  <2>4. QED
    BY <2>1, <2>2, <2>3
    DEF AnswersFitTheirFlow, LoginsAnswerTheirRedirect, OwnAnswersFit, Fits, Verifier
<1>2. QED
  BY <1>1, RunsOnFlows, Invariance, UpstreamInvariance, PTL
=============================================================================

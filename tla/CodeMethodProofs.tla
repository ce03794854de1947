-------------------------- MODULE CodeMethodProofs --------------------------
(***************************************************************************)
(* Proofs about CodeMethod for any number of requests, destinations, codes *)
(* and attempts.  The method runs on the flows of Flows and takes only     *)
(* their steps, so all that is proved of Flows holds of it.                *)
(***************************************************************************)
EXTENDS CodeMethod, FlowsProofs, FiniteSetTheorems

Form == [route : {"none", "send", "verify"},
         destination : Destinations \cup {None}, digits : Digits \cup {None}]

CodeState ==
  [destination : Destinations, digits : Digits, attempts : 0 .. MaxAttempts]

Active == {r \in Requests : req[r].pc # "idle"}

(* The state that r asked to have saved was saved. *)
Stored(r) == req[r].pc = "persisted" \/ req[r].out = "saved"
StateOf(s, f) == Stored(s) /\ req[s].flow = f

CodeTypeOK ==
  /\ form \in [Requests -> Form]
  /\ login \in [Requests -> Destinations \cup {None}]
  /\ \A s \in Requests : Stored(s) => memo[s] \in CodeState
  /\ DOMAIN memo = Requests
  /\ IsFiniteSet(Active)

(* A saved state goes back to a /send of its flow, which saved one too, and *)
(* has no more attempts on it than verifies of the flow failed.            *)
Sent(s) ==
  \E q \in Requests :
    /\ StateOf(q, req[s].flow) /\ form[q].route = "send"
    /\ form[q].destination = memo[s].destination
    /\ form[q].digits = memo[s].digits

StatesAreSent ==
  \A s \in Requests :
    Stored(s) => /\ req[s].flow \in Requests /\ Sent(s)
                 /\ memo[s].attempts <= Cardinality(Failures(req[s].flow))

(* What a flow carries, and what a handler was dispatched with, are states *)
(* saved for that flow.                                                    *)
StatesAreOfTheFlow ==
  /\ \A f \in Requests :
       flows[f] # None /\ flows[f].state # None => StateOf(flows[f].state, f)
  /\ \A r \in Requests :
       req[r].seen # None => StateOf(req[r].seen, req[r].flow)

FormsAreOfRequests ==
  \A r \in Requests :
    /\ req[r].pc = "idle" => form[r] = NoForm /\ login[r] = None
    /\ login[r] # None => form[r].digits # None
    /\ form[r].route = "send" /\ form[r].digits # None =>
         form[r].destination # None

(* What the cap of a flow's attempts rests on: its user asked for one code *)
(* and no two verifies were dispatched with the same state.                *)
OneByOne(f) ==
  /\ Cardinality(Sends(f)) <= 1
  /\ \A q, r \in Dispatched(f) : req[q].seen = req[r].seen => q = r

(* The flow's states are a chain then, and the last of them has counted    *)
(* every failure.                                                          *)
LastOf(l, f) ==
  /\ StateOf(l, f)
  /\ Cardinality(Failures(f)) <= memo[l].attempts
  /\ \A s \in Requests \ {l} :
       StateOf(s, f) => \E x \in Dispatched(f) : StateOf(x, f) /\ req[x].seen = s

ChainsCount ==
  \A f \in Requests :
    OneByOne(f) => \/ \A s \in Requests : ~StateOf(s, f)
                   \/ \E l \in Requests : LastOf(l, f)

CodeInv ==
  /\ StatesAreSent /\ StatesAreOfTheFlow /\ FormsAreOfRequests /\ ChainsCount
  /\ LoginsHeldTheCode /\ DenialsAreEarned
----------------------------------------------------------------------------
(* The method takes the steps of the flows it runs on and no others.       *)
LEMMA StepsOfFlows == CodeNext => [Next]_vars
<1> SUFFICES ASSUME CodeNext PROVE [Next]_vars
  OBVIOUS
<1> USE DEF Next, Begin, Continue
<1>1. ASSUME NEW r \in Requests, StartLogin(r) PROVE [Next]_vars
  BY <1>1 DEF StartLogin
<1>2. ASSUME NEW r \in Requests, AskDestination(r) \/ SendInvalid(r) PROVE [Next]_vars
  BY <1>2 DEF AskDestination, SendInvalid
<1>3. ASSUME NEW r \in Requests, NEW f \in Requests, NEW route, NEW d, NEW k,
             Submit(r, f, route, d, k)
      PROVE  [Next]_vars
  BY <1>3 DEF Submit
<1>4. ASSUME NEW r \in Requests, NEW k, SendDraws(r, k) PROVE [Next]_vars
  BY <1>4 DEF SendDraws
<1>5. ASSUME NEW r \in Requests, SendSaves(r) \/ VerifyBlank(r) \/ VerifyWrong(r)
      PROVE  [Next]_vars
  BY <1>5 DEF SendSaves, VerifyBlank, VerifyWrong
<1>6. ASSUME NEW r \in Requests, VerifyTooSoon(r) \/ VerifyDenied(r) \/ VerifyRight(r)
      PROVE  [Next]_vars
  BY <1>6 DEF VerifyTooSoon, VerifyDenied, VerifyRight
<1>7. ASSUME NEW r \in Requests, Framework(r) PROVE [Next]_vars
  BY <1>7 DEF Framework
<1>8. CASE CodeTick
  BY <1>8 DEF CodeTick
<1>9. QED
  BY <1>1, <1>2, <1>3, <1>4, <1>5, <1>6, <1>7, <1>8 DEF CodeNext

(* Whatever is proved of Flows holds of a server with this method: every   *)
(* step of the method is one of the handlers' steps there.                 *)
THEOREM RunsOnFlows == CodeSpec => Spec
<1>1. CodeInit => Init
  BY DEF CodeInit
<1>2. [CodeNext]_codeVars => [Next]_vars
  BY StepsOfFlows DEF codeVars
<1>3. QED
  BY <1>1, <1>2, PTL DEF CodeSpec, Spec

----------------------------------------------------------------------------
(* What a step of the flows does to the request that takes it.             *)
LEMMA BecomesRecord ==
  ASSUME TypeOK, NEW r \in Requests, NEW q, Becomes(r, q)
  PROVE  /\ req'[r] = q
         /\ \A x \in Requests \ {r} : req'[x] = req[x]
  BY DEF TypeOK, Becomes

LEMMA AnswerRecord ==
  ASSUME TypeOK, NEW r \in Requests, NEW q \in RequestRecord, NEW result,
         Answer(r, q, result)
  PROVE  /\ req'[r].pc = "done" /\ req'[r].out = result
         /\ req'[r].op = q.op /\ req'[r].flow = q.flow /\ req'[r].seen = q.seen
         /\ \A x \in Requests \ {r} : req'[x] = req[x]
<1> DEFINE p == [q EXCEPT !.pc = "done", !.out = result]
<1>1. req'[r] = p /\ \A x \in Requests \ {r} : req'[x] = req[x]
  BY BecomesRecord DEF Answer
<1>2. /\ p.pc = "done" /\ p.out = result
      /\ p.op = q.op /\ p.flow = q.flow /\ p.seen = q.seen
  BY DEF RequestRecord
<1> HIDE DEF p
<1>3. QED
  BY <1>1, <1>2

(* A request moves on to pc and keeps the rest but, maybe, what it holds.  *)
LEMMA MovesOn ==
  ASSUME TypeOK, NEW r \in Requests, NEW pc, NEW ask,
         \/ Becomes(r, [req[r] EXCEPT !.pc = pc])
         \/ Becomes(r, [req[r] EXCEPT !.pc = pc, !.ask = ask])
  PROVE  /\ req'[r].pc = pc /\ req'[r].out = req[r].out
         /\ req'[r].op = req[r].op /\ req'[r].flow = req[r].flow
         /\ req'[r].seen = req[r].seen
         /\ \A x \in Requests \ {r} : req'[x] = req[x]
<1>1. req[r] \in RequestRecord
  BY DEF TypeOK
<1>2. CASE Becomes(r, [req[r] EXCEPT !.pc = pc])
  BY <1>1, <1>2, BecomesRecord DEF RequestRecord
<1>3. CASE Becomes(r, [req[r] EXCEPT !.pc = pc, !.ask = ask])
  <2> DEFINE q == [req[r] EXCEPT !.pc = pc, !.ask = ask]
  <2>1. /\ q.pc = pc /\ q.out = req[r].out /\ q.op = req[r].op
        /\ q.flow = req[r].flow /\ q.seen = req[r].seen
    BY <1>1 DEF RequestRecord
  <2>2. Becomes(r, q)
    BY <1>3
  <2> HIDE DEF q
  <2>3. QED
    BY <2>1, <2>2, BecomesRecord
<1>4. QED
  BY <1>2, <1>3

(* What the step of request r leaves: its flow, what it has seen and its   *)
(* form's route are settled when it begins, its digits once they are there. *)
Settled(r) ==
  /\ req'[r].pc # "idle"
  /\ req'[r].flow = req[r].flow /\ req'[r].seen = req[r].seen
  /\ form'[r].route = form[r].route
  /\ form[r].digits # None => form'[r] = form[r]

Only(r) ==
  \A x \in Requests \ {r} :
    req'[x] = req[x] /\ form'[x] = form[x] /\ memo'[x] = memo[x] /\ login'[x] = login[x]

(* The kinds of steps a request takes. *)
Begins(r) ==
  /\ req[r].pc = "idle"
  /\ req'[r].pc \in {"handling", "done"} /\ req'[r].out \notin {"saved", "denied"}
  /\ memo' = memo /\ login' = login
  /\ form'[r].digits # None => form'[r].route # "send"
  /\ req'[r].seen # None =>
       /\ req'[r].flow \in Requests /\ flows[req'[r].flow] # None
       /\ flows[req'[r].flow].state = req'[r].seen

Works(r) ==
  /\ req[r].pc \in {"handling", "minting"} /\ Settled(r)
  /\ req'[r].pc \in {"handling", "minting", "done"}
  /\ req'[r].out \notin {"saved", "denied"}
  /\ login' = login
  /\ form'[r].route = "send" /\ form'[r].digits # None => form'[r].destination # None

Denies(r) ==
  /\ req[r].pc = "handling" /\ Settled(r)
  /\ req'[r].pc = "done" /\ req'[r].out = "denied"
  /\ UNCHANGED <<form, memo, login>>
  /\ req[r].seen # None /\ Capped(Seen(r))

SavesCode(r) ==
  /\ form[r].route = "send" /\ form[r].digits # None
  /\ memo'[r] = [destination |-> form[r].destination,
                 digits |-> form[r].digits, attempts |-> 0]

SavesSeen(r) ==
  /\ form[r].route = "verify" /\ req[r].seen # None /\ ~Capped(Seen(r))
  /\ \/ form[r].digits = None /\ memo'[r] = Seen(r)
     \/ /\ form[r].digits # None
        /\ memo'[r] = [Seen(r) EXCEPT !.attempts = @ + 1]

Saves(r) ==
  /\ req[r].pc = "handling" /\ Settled(r)
  /\ req'[r].pc = "persisted" /\ req'[r].out = req[r].out
  /\ UNCHANGED <<form, login>>
  /\ req[r].flow \in Requests
  /\ SavesCode(r) \/ SavesSeen(r)

Surfaces(r) ==
  /\ req[r].pc = "persisted" /\ Settled(r)
  /\ req'[r].pc = "done" /\ req'[r].out = "saved"
  /\ UNCHANGED <<form, memo, login>>

LogsIn(r) ==
  /\ req[r].pc = "handling" /\ Settled(r)
  /\ req'[r].pc \in {"minting", "done"} /\ req'[r].out \notin {"saved", "denied"}
  /\ UNCHANGED <<form, memo>> /\ login' = [login EXCEPT ![r] = Seen(r).destination]
  /\ req[r].seen # None
  /\ form[r].route = "verify" /\ form[r].digits = Seen(r).digits

(* What becomes of the flows meanwhile. *)
FlowsKept(r) ==
  \A f \in Requests :
    \/ flows'[f] \in {flows[f], None}
    \/ flows'[f].state = None
    \/ flows'[f].state = r /\ Saves(r) /\ f = req[r].flow

Effect(r) ==
  /\ Only(r) /\ DOMAIN memo' = Requests /\ FlowsKept(r)
  /\ \/ Begins(r) \/ Works(r) \/ Denies(r) \/ Saves(r) \/ Surfaces(r) \/ LogsIn(r)
LEMMA EffectOfBeginning ==
  ASSUME TypeOK, CodeTypeOK, FormsAreOfRequests, NEW r \in Requests,
         \/ StartLogin(r)
         \/ \E f \in Requests, d \in Destinations \cup {None} :
              Submit(r, f, "send", d, None)
         \/ \E f \in Requests, k \in Digits \cup {None} :
              Submit(r, f, "verify", None, k)
  PROVE  Effect(r)
<1>1. CASE StartLogin(r)
  <2>1. PICK a \in Ask : StartAuthorize(r, a)
    BY <1>1 DEF StartLogin
  <2> DEFINE q == [Idle EXCEPT !.pc = "handling", !.op = "authorize",
                     !.flow = r, !.ask = a,
                     !.by = [tenant |-> a.tenant, method |-> a.method]]
  <2>2. /\ req'[r] = q /\ req[r].pc = "idle"
        /\ \A x \in Requests \ {r} : req'[x] = req[x]
    BY <2>1, BecomesRecord DEF StartAuthorize
  <2>3. q.pc = "handling" /\ q.out = "none" /\ q.seen = None
    BY DEF Idle
  <2>4. FlowsKept(r)
    BY <2>1 DEF StartAuthorize, FlowsKept, TypeOK
  <2>5. form' = form /\ memo' = memo /\ login' = login
    BY <1>1 DEF StartLogin
  <2>6. form[r].digits = None
    BY <2>2 DEF FormsAreOfRequests, NoForm
  <2>7. QED
    BY <2>2, <2>3, <2>4, <2>5, <2>6 DEF Effect, Only, Begins, CodeTypeOK
<1>2. ASSUME NEW f \in Requests, NEW route, NEW d, NEW k, Submit(r, f, route, d, k),
             k # None => route # "send"
      PROVE  Effect(r)
  <2>1. PICK h \in Handler : RouteRead(r, f, h)
    BY <1>2 DEF Submit
  <2> DEFINE begun == [Idle EXCEPT !.op = "route", !.flow = f]
             q == [begun EXCEPT !.pc = "handling", !.by = h, !.seen = flows[f].state]
             p == [begun EXCEPT !.pc = "done", !.out = "refused"]
  <2>2. /\ p.pc = "done" /\ p.out = "refused" /\ p.seen = None
        /\ q.pc = "handling" /\ q.out = "none" /\ q.flow = f /\ q.seen = flows[f].state
    BY DEF Idle
  <2>3. req[r].pc = "idle" /\ (Becomes(r, p) \/ (Becomes(r, q) /\ Live(f)))
    BY <2>1 DEF RouteRead, Answer
  <2>4. FlowsKept(r)
    BY <2>1 DEF RouteRead, FlowsKept, TypeOK, Sweep
  <2>5. memo' = memo /\ login' = login /\ form' = [form EXCEPT ![r] =
          [route |-> route, destination |-> d, digits |-> k]]
    BY <1>2 DEF Submit, Fill
  <2>6. form'[r].digits # None => form'[r].route # "send"
    BY <1>2, <2>5 DEF CodeTypeOK
  <2> HIDE DEF p, q
  <2>7. Begins(r)
    BY <2>2, <2>3, <2>5, <2>6, BecomesRecord DEF Begins, Live
  <2>8. Only(r)
    BY <2>3, <2>5, BecomesRecord DEF Only, CodeTypeOK
  <2>9. QED
    BY <2>4, <2>5, <2>7, <2>8 DEF Effect, CodeTypeOK
<1>3. QED
  BY <1>1, <1>2

(* Whatever answers a handler without saving. *)
LEMMA EffectOfAnswering ==
  ASSUME TypeOK, Inv, CodeTypeOK, FormsAreOfRequests, NEW r \in Requests,
         AskDestination(r) \/ SendInvalid(r) \/ VerifyTooSoon(r) \/ VerifyDenied(r)
  PROVE  Effect(r)
<1>1. /\ req[r] \in RequestRecord /\ req[r].pc = "handling"
      /\ UNCHANGED <<flows, form, memo, login>>
  BY DEF AskDestination, SendInvalid, VerifyTooSoon, VerifyDenied,
         HandlerChallenges, HandlerFails, HandlerDenies, TypeOK
<1>2. PICK result \in {"challenge", "refused", "denied"} :
        /\ Answer(r, req[r], result)
        /\ result = "denied" => req[r].seen # None /\ Capped(Seen(r))
  BY DEF AskDestination, SendInvalid, VerifyTooSoon, VerifyDenied,
         HandlerChallenges, HandlerFails, HandlerDenies
<1>3. /\ req'[r].pc = "done" /\ req'[r].out = result /\ req'[r].flow = req[r].flow
      /\ req'[r].seen = req[r].seen
      /\ \A x \in Requests \ {r} : req'[x] = req[x]
  BY <1>1, <1>2, AnswerRecord
<1>4. Settled(r) /\ Only(r) /\ FlowsKept(r)
  BY <1>1, <1>3 DEF Settled, Only, FlowsKept
<1>5. CASE result = "denied"
  BY <1>1, <1>2, <1>3, <1>4, <1>5 DEF Effect, Denies, CodeTypeOK
<1>6. CASE result # "denied"
  BY <1>1, <1>2, <1>3, <1>4, <1>6 DEF Effect, Works, CodeTypeOK, FormsAreOfRequests
<1>7. QED
  BY <1>5, <1>6

LEMMA EffectOfDrawing ==
  ASSUME TypeOK, Inv, CodeTypeOK, NEW r \in Requests, NEW k \in Digits,
         SendDraws(r, k)
  PROVE  Effect(r)
<1>1. /\ req[r] \in RequestRecord /\ req[r].pc = "handling"
      /\ form[r].route = "send" /\ form[r].destination # None /\ form[r].digits = None
      /\ UNCHANGED <<flows, req, memo, login>>
      /\ form' = [form EXCEPT ![r] = [route |-> "send",
                    destination |-> form[r].destination, digits |-> k]]
  BY DEF SendDraws, Handling, Fill, TypeOK, vars
<1>2. req[r].out = "none"
  BY <1>1 DEF Inv, StagesOK, StageOK
<1>3. Settled(r) /\ Only(r) /\ FlowsKept(r)
  BY <1>1 DEF Settled, Only, FlowsKept, CodeTypeOK
<1>4. QED
  BY <1>1, <1>2, <1>3 DEF Effect, Works, CodeTypeOK

(* HandlerSaves: the state is saved, or the flow is gone. *)
LEMMA SavesOrNot ==
  ASSUME TypeOK, NEW r \in Requests, HandlerSaves(r)
  PROVE  /\ req[r].pc = "handling"
         /\ req'[r].flow = req[r].flow /\ req'[r].seen = req[r].seen
         /\ \A x \in Requests \ {r} : req'[x] = req[x]
         /\ \/ /\ req'[r].pc = "persisted" /\ req'[r].out = req[r].out
               /\ req[r].flow \in Requests
               /\ \A f \in Requests :
                    \/ flows'[f] = flows[f]
                    \/ flows'[f].state = r /\ f = req[r].flow
            \/ /\ req'[r].pc = "done" /\ req'[r].out = "refused"
               /\ \A f \in Requests : flows'[f] \in {flows[f], None}
<1>1. req[r] \in RequestRecord
  BY DEF TypeOK
<1>2. CASE /\ req[r].flow # None /\ Live(req[r].flow)
           /\ flows' = [flows EXCEPT ![req[r].flow].state = r]
           /\ Becomes(r, [req[r] EXCEPT !.pc = "persisted"])
  <2>1. /\ req[r].flow \in Requests /\ flows[req[r].flow] \in StoredFlow
    BY <1>1, <1>2 DEF RequestRecord, Live, TypeOK
  <2>2. \A f \in Requests :
          \/ flows'[f] = flows[f]
          \/ flows'[f].state = r /\ f = req[r].flow
    BY <1>2, <2>1 DEF TypeOK, StoredFlow
  <2>3. QED
    BY <1>2, <2>1, <2>2, MovesOn DEF HandlerSaves
<1>3. CASE Answer(r, req[r], "refused") /\ (Sweep(req[r].flow) \/ UNCHANGED flows)
  <2>1. \A f \in Requests : flows'[f] \in {flows[f], None}
    BY <1>3 DEF Sweep, TypeOK
  <2>2. QED
    BY <1>1, <1>3, <2>1, AnswerRecord DEF HandlerSaves
<1>4. QED
  BY <1>2, <1>3 DEF HandlerSaves

LEMMA EffectOfSaving ==
  ASSUME TypeOK, Inv, CodeTypeOK, FormsAreOfRequests, NEW r \in Requests,
         SendSaves(r) \/ VerifyBlank(r) \/ VerifyWrong(r)
  PROVE  Effect(r)
<1>1. /\ HandlerSaves(r) /\ UNCHANGED <<form, login>>
      /\ \A x \in Requests \ {r} : memo'[x] = memo[x]
      /\ DOMAIN memo' = Requests
  BY DEF SendSaves, VerifyBlank, VerifyWrong, CodeTypeOK
<1>2. SavesCode(r) \/ SavesSeen(r)
  BY DEF SendSaves, VerifyBlank, VerifyWrong, SavesCode, SavesSeen, Compares,
         Handling, CodeTypeOK
<1>3. Only(r)
  BY <1>1, SavesOrNot DEF Only
<1>4. Settled(r)
  BY <1>1, SavesOrNot DEF Settled
<1>5. CASE req'[r].pc = "persisted"
  <2>1. Saves(r)
    BY <1>1, <1>2, <1>4, <1>5, SavesOrNot DEF Saves
  <2>2. FlowsKept(r)
    BY <1>1, <1>5, <2>1, SavesOrNot DEF FlowsKept
  <2>3. QED
    BY <1>1, <1>3, <2>1, <2>2 DEF Effect
<1>6. CASE req'[r].pc = "done"
  <2>1. Works(r)
    BY <1>1, <1>4, <1>6, SavesOrNot DEF Works, FormsAreOfRequests
  <2>2. FlowsKept(r)
    BY <1>1, <1>6, SavesOrNot DEF FlowsKept
  <2>3. QED
    BY <1>1, <1>3, <2>1, <2>2 DEF Effect
<1>7. QED
  BY <1>1, <1>5, <1>6, SavesOrNot

LEMMA EffectOfLogin ==
  ASSUME TypeOK, Inv, CodeTypeOK, NEW r \in Requests, VerifyRight(r)
  PROVE  Effect(r)
<1>1. /\ req[r] \in RequestRecord /\ req[r].pc = "handling" /\ FlowSucceeds(r)
      /\ UNCHANGED <<form, memo>>
      /\ login' = [login EXCEPT ![r] = Seen(r).destination]
      /\ req[r].seen # None /\ form[r].route = "verify"
      /\ form[r].digits = Seen(r).digits
  BY DEF VerifyRight, Compares, Handling, Subject, TypeOK
<1>2. req[r].out = "none"
  BY <1>1 DEF Inv, StagesOK, StageOK
<1>3. /\ req'[r].flow = req[r].flow /\ req'[r].seen = req[r].seen
      /\ req'[r].pc \in {"minting", "done"} /\ req'[r].out \notin {"saved", "denied"}
      /\ \A x \in Requests \ {r} : req'[x] = req[x]
  <2>1. CASE Answer(r, req[r], "refused")
    BY <1>1, <2>1, AnswerRecord
  <2>2. CASE Becomes(r, [req[r] EXCEPT !.pc = "minting", !.ask = flows[req[r].flow].ask])
    BY <1>2, <2>2, MovesOn
  <2>3. QED
    BY <1>1, <2>1, <2>2 DEF FlowSucceeds
<1>4. Settled(r) /\ Only(r)
  BY <1>1, <1>3 DEF Settled, Only, CodeTypeOK
<1>5. FlowsKept(r)
  BY <1>1 DEF FlowsKept, FlowSucceeds, Take, TypeOK
<1>6. QED
  BY <1>1, <1>3, <1>4, <1>5 DEF Effect, LogsIn, CodeTypeOK

LEMMA EffectOfFramework ==
  ASSUME TypeOK, Inv, CodeTypeOK, FormsAreOfRequests, NEW r \in Requests, Framework(r)
  PROVE  Effect(r)
<1>1. req[r] \in RequestRecord /\ UNCHANGED <<flows, form, memo, login>>
  BY DEF Framework, Surface, IssueCode, IssueFails, TypeOK
<1>2. PICK result \in {"saved", "code", "refused"} :
        /\ Answer(r, req[r], result)
        /\ req[r].pc = IF result = "saved" THEN "persisted" ELSE "minting"
  BY DEF Framework, Surface, IssueCode, IssueFails
<1>3. /\ req'[r].pc = "done" /\ req'[r].out = result /\ req'[r].flow = req[r].flow
      /\ req'[r].seen = req[r].seen
      /\ \A x \in Requests \ {r} : req'[x] = req[x]
  BY <1>1, <1>2, AnswerRecord
<1>4. Settled(r) /\ Only(r) /\ FlowsKept(r)
  BY <1>1, <1>3 DEF Settled, Only, FlowsKept
<1>5. CASE result = "saved"
  BY <1>1, <1>2, <1>3, <1>4, <1>5 DEF Effect, Surfaces, CodeTypeOK
<1>6. CASE result # "saved"
  BY <1>1, <1>2, <1>3, <1>4, <1>6 DEF Effect, Works, CodeTypeOK, FormsAreOfRequests
<1>7. QED
  BY <1>5, <1>6

(* Every step is one of these, or nobody's. *)
Idles == UNCHANGED <<flows, req, form, memo, login>>

LEMMA EffectStep ==
  ASSUME TypeOK, Inv, CodeTypeOK, FormsAreOfRequests, [CodeNext]_codeVars
  PROVE  Idles \/ \E r \in Requests : Effect(r)
<1>1. CASE CodeTick \/ UNCHANGED codeVars
  BY <1>1 DEF CodeTick, Tick, codeVars, vars, Idles
<1>2. QED
  BY <1>1, EffectOfBeginning, EffectOfAnswering, EffectOfDrawing, EffectOfSaving,
     EffectOfLogin, EffectOfFramework DEF CodeNext
----------------------------------------------------------------------------
(* What no step undoes: what a request has settled, and what it has saved. *)
Lasting ==
  \A x \in Requests :
    /\ req[x].pc # "idle" => Settled(x)
    /\ Stored(x) => Stored(x)' /\ memo'[x] = memo[x] /\ form'[x] = form[x]
    /\ Stored(x)' => Stored(x) \/ Saves(x)
    /\ req[x].out # "none" => req'[x].out = req[x].out
    /\ login'[x] = login[x] \/ LogsIn(x)
    /\ req'[x].out = "denied" => req[x].out = "denied" \/ Denies(x)
    /\ req'[x].pc = "idle" => UNCHANGED <<req[x], form[x], login[x]>>
    /\ form'[x].route = "send" /\ form'[x].digits # None =>
         form'[x] = form[x] \/ form'[x].destination # None

LEMMA LastingStep ==
  ASSUME TypeOK, Inv, FormsAreOfRequests,
         Idles \/ \E r \in Requests : Effect(r)
  PROVE  Lasting
<1>1. CASE Idles
  BY <1>1 DEF Idles, Lasting, Settled, Stored
<1>2. ASSUME NEW r \in Requests, Effect(r) PROVE Lasting
  <2>1. ASSUME NEW x \in Requests \ {r}
        PROVE  /\ req'[x] = req[x] /\ form'[x] = form[x] /\ memo'[x] = memo[x]
               /\ login'[x] = login[x]
    BY <1>2 DEF Effect, Only
  <2>2. /\ req[r].out # "none" => req[r].pc = "done"
        /\ Stored(r) => req[r].pc \in {"persisted", "done"}
        /\ req[r].pc = "idle" => req[r].out = "none"
    BY DEF Inv, StagesOK, StageOK, Stored, Idle
  <2>3. /\ req[r].pc # "idle" => Settled(r)
        /\ req[r].out # "none" => req'[r].out = req[r].out
    BY <1>2, <2>2 DEF Effect, Begins, Works, Denies, Saves, Surfaces, LogsIn
  <2>4. Stored(r) => Stored(r)' /\ memo'[r] = memo[r] /\ form'[r] = form[r]
    BY <1>2, <2>2 DEF Effect, Begins, Works, Denies, Saves, Surfaces, LogsIn, Stored
  <2>5. Stored(r)' => Stored(r) \/ Saves(r)
    BY <1>2, <2>2 DEF Effect, Begins, Works, Denies, Surfaces, LogsIn, Stored
  <2>6. login'[r] = login[r] \/ LogsIn(r)
    BY <1>2 DEF Effect, Begins, Works, Denies, Saves, Surfaces
  <2>a. /\ req'[r].out = "denied" => req[r].out = "denied" \/ Denies(r)
        /\ req'[r].pc # "idle"
        /\ form'[r].route = "send" /\ form'[r].digits # None =>
             form'[r] = form[r] \/ form'[r].destination # None
    BY <1>2, <2>2 DEF Effect, Begins, Works, Saves, Surfaces, LogsIn, Settled, Denies
  <2>7. ASSUME NEW x \in Requests \ {r}
        PROVE  /\ req[x].pc # "idle" => Settled(x)
               /\ Stored(x) => Stored(x)'
               /\ Stored(x)' => Stored(x)
    BY <2>1 DEF Settled, Stored
  <2>8. QED
    BY <2>1, <2>3, <2>4, <2>5, <2>6, <2>7, <2>a DEF Lasting
<1>3. QED
  BY <1>1, <1>2

(* The requests under way are finitely many; so are those of a flow.       *)
LEMMA ActiveStep ==
  ASSUME IsFiniteSet(Active), Idles \/ \E r \in Requests : Effect(r)
  PROVE  IsFiniteSet(Active)'
<1>1. CASE Idles
  BY <1>1 DEF Idles, Active
<1>2. ASSUME NEW r \in Requests, Effect(r) PROVE IsFiniteSet(Active)'
  <2>1. Active' \subseteq Active \cup {r}
    BY <1>2 DEF Effect, Only, Active
  <2>2. QED
    BY <2>1, FS_AddElement, FS_Subset
<1>3. QED
  BY <1>1, <1>2

FlowSetsOK ==
  /\ \A f : /\ IsFiniteSet(Failures(f)) /\ Cardinality(Failures(f)) \in Nat
            /\ \A x \in Failures(f) : Stored(x) /\ req[x].flow = f
  /\ \A f \in Requests :
       /\ IsFiniteSet(Sends(f)) /\ Cardinality(Sends(f)) \in Nat
       /\ \A x \in Sends(f) \cup Dispatched(f) : req[x].pc # "idle"

LEMMA FlowSets == TypeOK /\ Inv /\ CodeTypeOK => FlowSetsOK
<1> SUFFICES ASSUME TypeOK, Inv, CodeTypeOK PROVE FlowSetsOK
  OBVIOUS
<1>1. ASSUME NEW x \in Requests, req[x].pc = "idle"
      PROVE  req[x].flow \notin Requests /\ ~Stored(x)
  BY <1>1, FlowsAssumption DEF Inv, StagesOK, StageOK, Idle, Stored
<1>2. ASSUME NEW f
      PROVE  /\ \A x \in Failures(f) : Stored(x) /\ req[x].flow = f
             /\ Failures(f) \subseteq Active
  BY <1>1 DEF Failures, Failed, Stored, Active
<1>3. ASSUME NEW f \in Requests
      PROVE  /\ \A x \in Sends(f) \cup Dispatched(f) : req[x].pc # "idle"
             /\ Sends(f) \subseteq Active
  BY <1>1 DEF Sends, Dispatched, Active
<1>4. IsFiniteSet(Active)
  BY DEF CodeTypeOK
<1>5. \A S : S \subseteq Active => IsFiniteSet(S) /\ Cardinality(S) \in Nat
  BY <1>4, FS_Subset, FS_CardinalityType
<1>6. QED
  BY <1>2, <1>3, <1>5 DEF FlowSetsOK

LEMMA FlowSetsNext == (TypeOK /\ Inv /\ CodeTypeOK)' => FlowSetsOK'
  BY FlowSets, PTL

LEMMA CodeTypeStep ==
  ASSUME TypeOK, Inv, CodeTypeOK, CodeInv, Lasting, [CodeNext]_codeVars
  PROVE  CodeTypeOK'
<1>1. form' \in [Requests -> Form]
  <2>1. ASSUME NEW r \in Requests, NEW k \in Digits, SendDraws(r, k)
        PROVE  form' \in [Requests -> Form]
    BY <2>1 DEF SendDraws, Fill, CodeTypeOK, Form
  <2>2. ASSUME NEW r \in Requests, NEW f, NEW route \in {"send", "verify"},
               NEW d \in Destinations \cup {None}, NEW k \in Digits \cup {None},
               Submit(r, f, route, d, k)
        PROVE  form' \in [Requests -> Form]
    BY <2>2 DEF Submit, Fill, CodeTypeOK, Form
  <2>3. CASE form' = form
    BY <2>3 DEF CodeTypeOK
  <2>4. QED
    BY <2>1, <2>2, <2>3
       DEF CodeNext, StartLogin, AskDestination, SendInvalid, SendSaves,
           VerifyTooSoon, VerifyDenied, VerifyBlank, VerifyWrong, VerifyRight,
           Framework, CodeTick, codeVars
<1>2. ASSUME NEW r \in Requests, req[r].seen # None
      PROVE  req[r].seen \in Requests /\ Seen(r) \in CodeState
  BY <1>2 DEF TypeOK, RequestRecord, CodeInv, StatesAreOfTheFlow, StateOf, Seen, CodeTypeOK
<1>3. Idles \/ \E r \in Requests : Effect(r)
  BY EffectStep DEF CodeInv
<1>4. login' \in [Requests -> Destinations \cup {None}]
  BY <1>2, <1>3 DEF CodeTypeOK, Idles, Effect, Begins, Works, Denies, Saves,
     Surfaces, LogsIn, CodeState
<1>5. ASSUME NEW s \in Requests, Saves(s) PROVE memo'[s] \in CodeState
  <2>1. form[s] \in Form
    BY DEF CodeTypeOK
  <2>2. CASE SavesCode(s)
    BY <2>1, <2>2, CodeAssumption DEF SavesCode, Form, CodeState, CodeInv, FormsAreOfRequests
  <2>3. CASE SavesSeen(s)
    <3>1. Seen(s) \in CodeState /\ ~(Seen(s).attempts >= MaxAttempts)
      BY <1>2, <2>3 DEF SavesSeen, Capped
    <3>2. Seen(s).attempts + 1 \in 0 .. MaxAttempts
      BY <3>1, CodeAssumption DEF CodeState
    <3>3. [Seen(s) EXCEPT !.attempts = @ + 1] \in CodeState
      BY <3>1, <3>2 DEF CodeState
    <3>4. QED
      BY <2>3, <3>1, <3>3 DEF SavesSeen
  <2>4. QED
    BY <1>5, <2>2, <2>3 DEF Saves
<1>6. \A s \in Requests : Stored(s)' => memo'[s] \in CodeState
  BY <1>5 DEF Lasting, CodeTypeOK
<1>7. DOMAIN memo' = Requests
  BY <1>3 DEF Idles, Effect, CodeTypeOK
<1>8. IsFiniteSet(Active)'
  BY <1>3, ActiveStep DEF CodeTypeOK
<1>9. QED
  BY <1>1, <1>4, <1>6, <1>7, <1>8 DEF CodeTypeOK

----------------------------------------------------------------------------
(* What Lasting leaves of a flow's history. *)
LEMMA StatesLast ==
  ASSUME FlowSetsOK, Inv, Lasting, NEW s \in Requests, NEW f
  PROVE  /\ StateOf(s, f) =>
              /\ StateOf(s, f)' /\ memo'[s] = memo[s] /\ form'[s] = form[s]
              /\ req'[s].seen = req[s].seen
         /\ StateOf(s, f)' => StateOf(s, f) \/ (Saves(s) /\ req[s].flow = f)
<1>1. Stored(s) => req[s].pc # "idle"
  BY DEF Inv, StagesOK, StageOK, Stored, Idle
<1>2. Stored(s)' => Stored(s) \/ Saves(s)
  BY DEF Lasting
<1>3. Stored(s) => Settled(s) /\ Stored(s)' /\ memo'[s] = memo[s] /\ form'[s] = form[s]
  BY <1>1 DEF Lasting
<1>4. Saves(s) => Settled(s)
  BY DEF Saves
<1>5. QED
  BY <1>2, <1>3, <1>4 DEF StateOf, Settled

LEMMA FailuresLast ==
  ASSUME TypeOK, Inv, CodeTypeOK, Lasting, (TypeOK /\ Inv /\ CodeTypeOK)', NEW f
  PROVE  /\ Failures(f) \subseteq Failures(f)'
         /\ Cardinality(Failures(f)) <= Cardinality(Failures(f)')
         /\ \A x \in Failures(f)' : x \in Failures(f) \/ Saves(x)
<1>1. FlowSetsOK /\ FlowSetsOK'
  BY FlowSets, FlowSetsNext
<1>2. \A x : x \in Failures(f) <=>
        /\ x \in Requests /\ StateOf(x, f)
        /\ form[x].route = "verify" /\ form[x].digits # None
  BY DEF Failures, Failed, StateOf, Stored
<1>3. \A x : x \in Failures(f)' <=>
        /\ x \in Requests /\ StateOf(x, f)'
        /\ form'[x].route = "verify" /\ form'[x].digits # None
  BY DEF Failures, Failed, StateOf, Stored
<1>4. Failures(f) \subseteq Failures(f)'
  BY <1>1, <1>2, <1>3, StatesLast
<1>5. IsFiniteSet(Failures(f)')
  BY <1>1 DEF FlowSetsOK
<1>6. \A x \in Failures(f)' : x \in Failures(f) \/ Saves(x)
  BY <1>1, <1>2, <1>3, StatesLast
<1>7. QED
  BY <1>4, <1>5, <1>6, FS_Subset

LEMMA OneByOneLasts ==
  ASSUME TypeOK, Inv, CodeTypeOK, Lasting, (TypeOK /\ Inv /\ CodeTypeOK)',
         NEW f \in Requests, OneByOne(f)'
  PROVE  /\ OneByOne(f)
         /\ Dispatched(f) \subseteq Dispatched(f)'
         /\ \A x \in Dispatched(f) : req'[x].seen = req[x].seen
<1>1. FlowSetsOK /\ FlowSetsOK'
  BY FlowSets, FlowSetsNext
<1>2. \A x \in Sends(f) \cup Dispatched(f) : x \in Requests /\ Settled(x)
  BY <1>1 DEF FlowSetsOK, Lasting, Sends, Dispatched
<1>3. Sends(f) \subseteq Sends(f)'
  BY <1>2 DEF Sends, Settled
<1>4. /\ Dispatched(f) \subseteq Dispatched(f)'
      /\ \A x \in Dispatched(f) : req'[x].seen = req[x].seen
  BY <1>2 DEF Dispatched, Settled
<1>5. Cardinality(Sends(f)) <= Cardinality(Sends(f)')
  BY <1>1, <1>3, FS_Subset DEF FlowSetsOK
<1>6. Cardinality(Sends(f)) <= 1
  BY <1>1, <1>5 DEF OneByOne, FlowSetsOK
<1>7. QED
  BY <1>4, <1>6 DEF OneByOne

(* Only one request saves in a step, and it had not saved before. *)
LEMMA OneSaver ==
  ASSUME Inv, Idles \/ \E r \in Requests : Effect(r),
         NEW s \in Requests, Saves(s)
  PROVE  ~Stored(s) /\ \A x \in Requests : Saves(x) => x = s
<1>1. ~Stored(s)
  BY DEF Inv, StagesOK, StageOK, Stored, Saves
<1>2. PICK r \in Requests : Effect(r)
  BY DEF Idles, Saves
<1>3. \A x \in Requests : Saves(x) => x = r
  BY <1>2 DEF Effect, Only, Saves
<1>4. QED
  BY <1>1, <1>3

----------------------------------------------------------------------------
LEMMA SeenIsAState ==
  ASSUME CodeTypeOK, CodeInv, NEW r \in Requests, req[r].seen \in Requests,
         req[r].seen # None
  PROVE  /\ StateOf(req[r].seen, req[r].flow) /\ Sent(req[r].seen)
         /\ Seen(r) = memo[req[r].seen] /\ Seen(r) \in CodeState
         /\ Seen(r).attempts <= Cardinality(Failures(req[r].flow))
  BY DEF CodeInv, StatesAreOfTheFlow, StatesAreSent, StateOf, CodeTypeOK, Seen

LEMMA FormsStep ==
  ASSUME TypeOK, CodeTypeOK, CodeInv, Lasting
  PROVE  FormsAreOfRequests'
<1> SUFFICES ASSUME NEW r \in Requests
             PROVE  /\ req'[r].pc = "idle" => form'[r] = NoForm /\ login'[r] = None
                    /\ login'[r] # None => form'[r].digits # None
                    /\ form'[r].route = "send" /\ form'[r].digits # None =>
                         form'[r].destination # None
  BY DEF FormsAreOfRequests
<1>1. FormsAreOfRequests
  BY DEF CodeInv
<1>2. req'[r].pc = "idle" => form'[r] = NoForm /\ login'[r] = None
  BY <1>1 DEF Lasting, FormsAreOfRequests
<1>3. CASE LogsIn(r)
  <2>1. req[r].seen \in Requests
    BY <1>3 DEF LogsIn, TypeOK, RequestRecord
  <2>2. Seen(r).digits # None
    BY <1>3, <2>1, SeenIsAState, CodeAssumption DEF LogsIn, CodeState
  <2>3. form' = form /\ form[r].digits = Seen(r).digits
    BY <1>3 DEF LogsIn
  <2>4. QED
    BY <1>1, <1>2, <2>2, <2>3 DEF FormsAreOfRequests
<1>4. CASE login'[r] = login[r]
  <2>1. login'[r] # None => form'[r] = form[r] /\ form[r].digits # None
    BY <1>1, <1>4 DEF FormsAreOfRequests, Lasting, Settled
  <2>2. form'[r].route = "send" /\ form'[r].digits # None => form'[r].destination # None
    BY <1>1 DEF FormsAreOfRequests, Lasting
  <2>3. QED
    BY <1>2, <2>1, <2>2
<1>5. QED
  BY <1>3, <1>4 DEF Lasting

LEMMA FlowStatesStep ==
  ASSUME TypeOK, Inv, CodeTypeOK, CodeInv, Lasting, TypeOK',
         Idles \/ \E r \in Requests : Effect(r)
  PROVE  StatesAreOfTheFlow'
<1>1. FlowSetsOK /\ StatesAreOfTheFlow
  BY FlowSets DEF CodeInv
<1>2. ASSUME NEW f \in Requests, NEW s \in Requests,
             flows'[f] # None, flows'[f].state = s
      PROVE  StateOf(s, f)'
  <2>1. s # None
    BY FlowsAssumption
  <2>2. CASE flows'[f] = flows[f]
    BY <1>1, <1>2, <2>1, <2>2, StatesLast DEF StatesAreOfTheFlow
  <2>3. ASSUME Saves(s), f = req[s].flow PROVE StateOf(s, f)'
    BY <2>3 DEF Saves, Settled, StateOf, Stored
  <2>4. QED
    BY <1>2, <2>1, <2>2, <2>3 DEF Idles, Effect, FlowsKept
<1>3. ASSUME NEW x \in Requests, NEW s \in Requests, NEW f,
             req'[x].seen = s, req'[x].flow = f
      PROVE  StateOf(s, f)'
  <2>1. s # None
    BY FlowsAssumption
  <2>2. CASE req[x].pc # "idle"
    BY <1>1, <1>3, <2>1, <2>2, StatesLast DEF Lasting, Settled, StatesAreOfTheFlow
  <2>3. CASE req[x].pc = "idle"
    <3>1. req[x].seen = None
      BY <2>3 DEF Inv, StagesOK, StageOK, Idle
    <3>2. Begins(x)
      BY <1>3, <2>1, <2>3, <3>1
         DEF Idles, Effect, Only, Works, Denies, Saves, Surfaces, LogsIn
    <3>3. QED
      BY <1>1, <1>3, <2>1, <3>2, StatesLast DEF Begins, StatesAreOfTheFlow
  <2>4. QED
    BY <2>2, <2>3
<1>4. /\ \A f \in Requests : flows'[f] # None => flows'[f].state \in Requests \cup {None}
      /\ \A x \in Requests : req'[x].seen \in Requests \cup {None}
  BY DEF TypeOK, StoredFlow, RequestRecord
<1>5. QED
  BY <1>2, <1>3, <1>4 DEF StatesAreOfTheFlow, StateOf, Stored

(* SavesSeen copies the state it was dispatched with, one more attempt on  *)
(* it if the verify failed.                                                *)
LEMMA SavedFromSeen ==
  ASSUME TypeOK, Inv, CodeTypeOK, CodeInv, (TypeOK /\ Inv /\ CodeTypeOK)', Lasting,
         Idles \/ \E r \in Requests : Effect(r),
         NEW s \in Requests, Saves(s), SavesSeen(s), NEW f, req[s].flow = f
  PROVE  /\ req[s].seen \in Requests
         /\ memo'[s].destination = memo[req[s].seen].destination
         /\ memo'[s].digits = memo[req[s].seen].digits
         /\ \/ /\ s \notin Failures(f)'
               /\ memo'[s].attempts = memo[req[s].seen].attempts
            \/ /\ s \in Failures(f)' /\ s \notin Failures(f)
               /\ memo'[s].attempts = memo[req[s].seen].attempts + 1
<1>1. req[s].seen \in Requests /\ req[s].seen # None
  BY DEF SavesSeen, TypeOK, RequestRecord
<1>2. Seen(s) \in CodeState /\ Seen(s) = memo[req[s].seen]
  BY <1>1, SeenIsAState
<1>3. /\ form'[s] = form[s] /\ req'[s].flow = f /\ Stored(s)'
      /\ form[s].route = "verify"
  BY DEF Saves, Settled, Stored, SavesSeen
<1>4. s \notin Failures(f)
  BY OneSaver DEF Failures, Failed, Stored
<1>5. CASE form[s].digits = None /\ memo'[s] = Seen(s)
  BY <1>1, <1>2, <1>3, <1>5 DEF Failures, Failed
<1>6. CASE form[s].digits # None /\ memo'[s] = [Seen(s) EXCEPT !.attempts = @ + 1]
  <2>1. s \in Failures(f)'
    BY <1>3, <1>6 DEF Failures, Failed, Stored
  <2>2. /\ memo'[s].destination = Seen(s).destination /\ memo'[s].digits = Seen(s).digits
        /\ memo'[s].attempts = Seen(s).attempts + 1
    BY <1>2, <1>6 DEF CodeState
  <2>3. QED
    BY <1>1, <1>2, <1>4, <2>1, <2>2
<1>7. QED
  BY <1>5, <1>6 DEF SavesSeen

LEMMA SentStep ==
  ASSUME TypeOK, Inv, CodeTypeOK, CodeInv, (TypeOK /\ Inv /\ CodeTypeOK)', Lasting,
         Idles \/ \E r \in Requests : Effect(r)
  PROVE  StatesAreSent'
<1>1. FlowSetsOK /\ FlowSetsOK' /\ StatesAreSent
  BY FlowSets, FlowSetsNext DEF CodeInv
<1>2. ASSUME NEW s \in Requests, Stored(s)', NEW f, req'[s].flow = f
      PROVE  /\ f \in Requests /\ Sent(s)'
             /\ memo'[s].attempts <= Cardinality(Failures(f)')
  <2>1. /\ Cardinality(Failures(f)) <= Cardinality(Failures(f)')
        /\ Cardinality(Failures(f)) \in Nat /\ Cardinality(Failures(f)') \in Nat
    <3>1. /\ Cardinality(Failures(f)) \in Nat /\ IsFiniteSet(Failures(f)')
      BY <1>1 DEF FlowSetsOK
    <3>2. QED
      BY <3>1, FailuresLast, FS_CardinalityType
  <2>2. CASE Stored(s)
    <3>1. req[s].flow = f
      BY <1>1, <1>2, <2>2 DEF Lasting, Settled, Stored, Inv, StagesOK, StageOK, Idle
    <3>2. /\ f \in Requests /\ memo'[s] = memo[s] /\ memo[s].attempts \in Nat
          /\ memo[s].attempts <= Cardinality(Failures(f)) /\ Sent(s)
      BY <1>1, <2>2, <3>1, StatesLast DEF StatesAreSent, StateOf, CodeTypeOK, CodeState
    <3>3. Sent(s)'
      BY <1>1, <1>2, <3>1, <3>2, StatesLast DEF Sent, StateOf, Stored
    <3>4. QED
      BY <2>1, <3>2, <3>3
  <2>3. CASE Saves(s)
    <3>1. /\ req[s].flow = f /\ f \in Requests
          /\ StateOf(s, f)' /\ form'[s] = form[s]
      BY <1>2, <2>3 DEF Saves, Settled, StateOf, Stored
    <3>2. CASE SavesCode(s)
      <4>1. Sent(s)'
        BY <1>2, <3>1, <3>2 DEF SavesCode, Sent, StateOf, Stored
      <4>2. memo'[s].attempts = 0
        BY <3>2 DEF SavesCode
      <4>3. QED
        BY <2>1, <3>1, <4>1, <4>2
    <3>3. CASE SavesSeen(s)
      <4> DEFINE z == req[s].seen
      <4>1. /\ z \in Requests /\ z # None /\ Sent(z) /\ StateOf(z, f)
            /\ memo[z].attempts \in Nat
            /\ memo[z].attempts <= Cardinality(Failures(f))
        <5>1. z \in Requests /\ z # None
          BY <3>3 DEF SavesSeen, TypeOK, RequestRecord
        <5>2. QED
          BY <3>1, <5>1, SeenIsAState DEF CodeState
      <4>2. /\ memo'[s].destination = memo[z].destination
            /\ memo'[s].digits = memo[z].digits
            /\ \/ memo'[s].attempts = memo[z].attempts
               \/ /\ s \in Failures(f)' /\ s \notin Failures(f)
                  /\ memo'[s].attempts = memo[z].attempts + 1
        BY <2>3, <3>1, <3>3, SavedFromSeen
      <4>3. Sent(s)'
        <5>1. PICK q \in Requests : /\ StateOf(q, f) /\ form[q].route = "send"
                                    /\ form[q].destination = memo[z].destination
                                    /\ form[q].digits = memo[z].digits
          BY <4>1 DEF Sent, StateOf
        <5>2. StateOf(q, f)' /\ form'[q] = form[q]
          BY <1>1, <5>1, StatesLast
        <5>3. QED
          BY <1>2, <4>2, <5>1, <5>2 DEF Sent, StateOf, Stored
      <4>4. CASE memo'[s].attempts = memo[z].attempts
        BY <2>1, <3>1, <4>1, <4>3, <4>4
      <4>5. CASE /\ s \in Failures(f)' /\ s \notin Failures(f)
                 /\ memo'[s].attempts = memo[z].attempts + 1
        <5>1. /\ IsFiniteSet(Failures(f)) /\ IsFiniteSet(Failures(f)')
              /\ Failures(f) \cup {s} \subseteq Failures(f)'
          BY <1>1, <4>5, FailuresLast DEF FlowSetsOK
        <5>2. Cardinality(Failures(f) \cup {s}) = Cardinality(Failures(f)) + 1
          BY <4>5, <5>1, FS_AddElement
        <5>3. Cardinality(Failures(f) \cup {s}) <= Cardinality(Failures(f)')
          BY <5>1, FS_Subset
        <5>4. QED
          BY <2>1, <3>1, <4>1, <4>3, <4>5, <5>2, <5>3
      <4>6. QED
        BY <4>2, <4>4, <4>5
    <3>4. QED
      BY <2>3, <3>2, <3>3 DEF Saves
  <2>4. QED
    BY <1>2, <2>2, <2>3 DEF Lasting
<1>3. QED
  BY <1>2 DEF StatesAreSent, Failures, Failed

LEMMA LoginsStep ==
  ASSUME TypeOK, Inv, CodeTypeOK, CodeInv, Lasting
  PROVE  LoginsHeldTheCode'
<1>1. FlowSetsOK /\ LoginsHeldTheCode /\ FormsAreOfRequests
  BY FlowSets DEF CodeInv
<1> SUFFICES ASSUME NEW r \in Requests, login'[r] # None
             PROVE  \E q \in Requests :
                      /\ form'[q].route = "send" /\ req'[q].flow = req'[r].flow
                      /\ form'[q].destination = login'[r]
                      /\ form'[q].digits = form'[r].digits
  BY DEF LoginsHeldTheCode
<1>2. CASE login'[r] = login[r]
  <2>1. PICK q \in Requests : /\ form[q].route = "send" /\ req[q].flow = req[r].flow
                              /\ form[q].destination = login[r]
                              /\ form[q].digits = form[r].digits
    BY <1>1, <1>2 DEF LoginsHeldTheCode
  <2>2. /\ form[r].digits # None /\ req[r].pc # "idle"
        /\ form[q].digits # None /\ req[q].pc # "idle"
    BY <1>1, <1>2, <2>1 DEF FormsAreOfRequests, NoForm
  <2>3. Settled(r) /\ Settled(q)
    BY <2>2 DEF Lasting
  <2>4. QED
    BY <1>2, <2>1, <2>2, <2>3 DEF Settled
<1>3. CASE LogsIn(r)
  <2> DEFINE z == req[r].seen
  <2>1. /\ StateOf(z, req[r].flow) /\ Sent(z) /\ Seen(r) = memo[z]
    BY <1>3, SeenIsAState DEF LogsIn, TypeOK, RequestRecord
  <2>2. PICK f : f = req[r].flow
    OBVIOUS
  <2>3. PICK q \in Requests : /\ StateOf(q, f) /\ form[q].route = "send"
                              /\ form[q].destination = memo[z].destination
                              /\ form[q].digits = memo[z].digits
    BY <2>1, <2>2 DEF Sent, StateOf
  <2>4. StateOf(q, f)' /\ form'[q] = form[q]
    BY <1>1, <2>3, StatesLast
  <2>5. /\ login'[r] = memo[z].destination /\ form[r].digits = memo[z].digits
        /\ form'[r] = form[r] /\ req'[r].flow = f
    BY <1>3, <2>1, <2>2 DEF LogsIn, Settled, CodeTypeOK
  <2>6. QED
    BY <2>3, <2>4, <2>5 DEF StateOf
<1>4. QED
  BY <1>2, <1>3 DEF Lasting

LEMMA DenialsStep ==
  ASSUME TypeOK, Inv, CodeTypeOK, CodeInv, (TypeOK /\ Inv /\ CodeTypeOK)', Lasting
  PROVE  DenialsAreEarned'
<1>1. FlowSetsOK /\ FlowSetsOK' /\ DenialsAreEarned
  BY FlowSets, FlowSetsNext DEF CodeInv
<1>2. ASSUME NEW r \in Requests, req'[r].out = "denied", NEW f, req'[r].flow = f
      PROVE  Cardinality(Failures(f)') >= MaxAttempts
  <2>1. /\ Cardinality(Failures(f)) <= Cardinality(Failures(f)')
        /\ Cardinality(Failures(f)) \in Nat /\ Cardinality(Failures(f)') \in Nat
    <3>1. /\ Cardinality(Failures(f)) \in Nat /\ IsFiniteSet(Failures(f)')
      BY <1>1 DEF FlowSetsOK
    <3>2. QED
      BY <3>1, FailuresLast, FS_CardinalityType
  <2>2. CASE req[r].out = "denied"
    <3>1. req[r].flow = f
      BY <1>2, <2>2 DEF Lasting, Settled, Inv, StagesOK, StageOK, Idle
    <3>2. Cardinality(Failures(f)) >= MaxAttempts
      BY <1>1, <2>2, <3>1 DEF DenialsAreEarned
    <3>3. QED
      BY <2>1, <3>2, CodeAssumption
  <2>3. CASE Denies(r)
    <3>1. req[r].flow = f /\ req[r].seen \in Requests /\ req[r].seen # None
      BY <1>2, <2>3 DEF Denies, Settled, TypeOK, RequestRecord
    <3>2. /\ Seen(r) \in CodeState /\ Capped(Seen(r))
          /\ Seen(r).attempts <= Cardinality(Failures(f))
      BY <2>3, <3>1, SeenIsAState DEF Denies
    <3>3. QED
      BY <2>1, <3>2, CodeAssumption DEF Capped, CodeState
  <2>4. QED
    BY <1>2, <2>2, <2>3 DEF Lasting
<1>3. QED
  BY <1>2 DEF DenialsAreEarned, Failures, Failed

----------------------------------------------------------------------------
(* The chain of a flow's states grows at its end. *)
LEMMA ChainKept ==
  ASSUME FlowSetsOK, TypeOK, Inv, CodeTypeOK, Lasting, (TypeOK /\ Inv /\ CodeTypeOK)',
         NEW f \in Requests, OneByOne(f)',
         \A x \in Requests : Saves(x) => req[x].flow # f
  PROVE  /\ (\A s \in Requests : ~StateOf(s, f)) => \A s \in Requests : ~StateOf(s, f)'
         /\ \A l \in Requests : LastOf(l, f) => LastOf(l, f)'
<1>1. \A s \in Requests : StateOf(s, f)' => StateOf(s, f)
  BY StatesLast
<1>2. Failures(f)' = Failures(f)
  BY <1>1, FailuresLast DEF Failures, Failed, StateOf, Stored
<1>3. ASSUME NEW l \in Requests, LastOf(l, f) PROVE LastOf(l, f)'
  <2>1. StateOf(l, f)' /\ memo'[l] = memo[l]
    BY <1>3, StatesLast DEF LastOf
  <2>2. ASSUME NEW s \in Requests \ {l}, StateOf(s, f)'
        PROVE  \E x \in Dispatched(f)' : StateOf(x, f)' /\ req'[x].seen = s
    <3>1. PICK x \in Dispatched(f) : StateOf(x, f) /\ req[x].seen = s
      BY <1>1, <1>3, <2>2 DEF LastOf
    <3>2. x \in Requests
      BY DEF Dispatched
    <3>3. QED
      BY <3>1, <3>2, OneByOneLasts, StatesLast
  <2>3. QED
    BY <1>2, <1>3, <2>1, <2>2 DEF LastOf
<1>4. QED
  BY <1>1, <1>3

(* A /send starts it: with one send to a flow, there was no state before.  *)
LEMMA ChainStarts ==
  ASSUME FlowSetsOK, FlowSetsOK', TypeOK, Inv, CodeTypeOK, CodeInv, Lasting,
         (TypeOK /\ Inv /\ CodeTypeOK)', Idles \/ \E r \in Requests : Effect(r),
         NEW f \in Requests, OneByOne(f), NEW s \in Requests,
         Saves(s), SavesCode(s), req[s].flow = f
  PROVE  LastOf(s, f)'
<1>1. ASSUME NEW x \in Requests, StateOf(x, f) PROVE FALSE
  <2>1. PICK q \in Requests : StateOf(q, f) /\ form[q].route = "send"
    BY <1>1 DEF CodeInv, StatesAreSent, StateOf, Sent
  <2>2. q # s
    BY <2>1, OneSaver DEF StateOf
  <2>3. {q, s} \subseteq Sends(f)
    BY <2>1 DEF Sends, StateOf, SavesCode
  <2>4. Cardinality({q, s}) = 2
    <3>1. IsFiniteSet({s}) /\ Cardinality({s}) = 1 /\ {q, s} = {s} \cup {q}
      BY FS_Singleton
    <3>2. q \notin {s}
      BY <2>2
    <3>3. QED
      BY <3>1, <3>2, FS_AddElement
  <2>5. Cardinality({q, s}) <= Cardinality(Sends(f)) /\ Cardinality(Sends(f)) \in Nat
    BY <2>3, FS_Subset DEF FlowSetsOK
  <2>6. QED
    BY <2>4, <2>5 DEF OneByOne
<1>2. /\ StateOf(s, f)' /\ form'[s] = form[s] /\ memo'[s].attempts = 0
  BY DEF Saves, Settled, StateOf, Stored, SavesCode
<1>3. \A x \in Requests : StateOf(x, f)' => x = s
  BY <1>1, OneSaver, StatesLast
<1>4. Failures(f)' = {}
  BY <1>2, <1>3 DEF Failures, Failed, StateOf, Stored, SavesCode
<1>5. Cardinality(Failures(f)') = 0
  BY <1>4, FS_EmptySet
<1>6. QED
  BY <1>2, <1>3, <1>5 DEF LastOf

(* A verify goes on from its last state: any other has been gone on from,  *)
(* by another verify.                                                      *)
LEMMA ChainGrows ==
  ASSUME FlowSetsOK, FlowSetsOK', TypeOK, Inv, CodeTypeOK, CodeInv, Lasting,
         (TypeOK /\ Inv /\ CodeTypeOK)', Idles \/ \E r \in Requests : Effect(r),
         NEW f \in Requests, OneByOne(f)', NEW s \in Requests,
         Saves(s), SavesSeen(s), req[s].flow = f
  PROVE  LastOf(s, f)'
<1> DEFINE z == req[s].seen
<1>1. z \in Requests /\ z # None /\ StateOf(z, f)
  <2>1. z \in Requests /\ z # None
    BY DEF SavesSeen, TypeOK, RequestRecord
  <2>2. QED
    BY <2>1, SeenIsAState
<1>2. OneByOne(f) /\ s \in Dispatched(f)
  BY OneByOneLasts DEF SavesSeen, Dispatched
<1>3. LastOf(z, f)
  <2>1. PICK l \in Requests : LastOf(l, f)
    BY <1>1, <1>2 DEF CodeInv, ChainsCount
  <2>2. ASSUME z # l PROVE FALSE
    <3>1. PICK x \in Dispatched(f) : StateOf(x, f) /\ req[x].seen = z
      BY <1>1, <2>1, <2>2 DEF LastOf
    <3>2. x = s
      BY <1>2, <3>1 DEF OneByOne
    <3>3. QED
      BY <3>1, <3>2, OneSaver DEF StateOf
  <2>3. QED
    BY <2>1, <2>2
<1>4. StateOf(s, f)'
  BY DEF Saves, Settled, StateOf, Stored
<1>5. ASSUME NEW x \in Requests, StateOf(x, f)' PROVE StateOf(x, f) \/ x = s
  BY <1>5, OneSaver, StatesLast
<1>6. ASSUME NEW x \in Requests \ {s}, StateOf(x, f)'
      PROVE  \E y \in Dispatched(f)' : StateOf(y, f)' /\ req'[y].seen = x
  <2>1. CASE x = z
    BY <1>2, <1>4, <2>1, OneByOneLasts
  <2>2. CASE x # z
    <3>1. PICK y \in Dispatched(f) : StateOf(y, f) /\ req[y].seen = x
      BY <1>3, <1>5, <1>6, <2>2 DEF LastOf
    <3>2. y \in Requests
      BY DEF Dispatched
    <3>3. QED
      BY <3>1, <3>2, OneByOneLasts, StatesLast
  <2>3. QED
    BY <2>1, <2>2
<1>7. Cardinality(Failures(f)') <= memo'[s].attempts
  <2>1. /\ Failures(f) \subseteq Failures(f)' /\ Failures(f)' \subseteq Failures(f) \cup {s}
        /\ IsFiniteSet(Failures(f)) /\ Cardinality(Failures(f)) \in Nat
    <3>1. /\ Failures(f) \subseteq Failures(f)'
          /\ \A x \in Failures(f)' : x \in Failures(f) \/ Saves(x)
      BY FailuresLast
    <3>2. \A x \in Failures(f)' : x \in Requests
      BY DEF Failures
    <3>3. QED
      BY <3>1, <3>2, OneSaver DEF FlowSetsOK
  <2>2. Cardinality(Failures(f)) <= memo[z].attempts /\ memo[z].attempts \in Nat
    BY <1>1, <1>3 DEF LastOf, StateOf, CodeTypeOK, CodeState
  <2>3. \/ s \notin Failures(f)' /\ memo'[s].attempts = memo[z].attempts
        \/ /\ s \in Failures(f)' /\ s \notin Failures(f)
           /\ memo'[s].attempts = memo[z].attempts + 1
    BY SavedFromSeen
  <2>4. CASE s \notin Failures(f)' /\ memo'[s].attempts = memo[z].attempts
    <3>1. Failures(f)' = Failures(f)
      BY <2>1, <2>4
    <3>2. QED
      BY <2>2, <2>4, <3>1
  <2>5. CASE /\ s \in Failures(f)' /\ s \notin Failures(f)
             /\ memo'[s].attempts = memo[z].attempts + 1
    <3>1. Failures(f)' = Failures(f) \cup {s}
      BY <2>1, <2>5
    <3>2. Cardinality(Failures(f)') = Cardinality(Failures(f)) + 1
      BY <2>1, <2>5, <3>1, FS_AddElement
    <3>3. QED
      BY <2>1, <2>2, <2>5, <3>2
  <2>6. QED
    BY <2>3, <2>4, <2>5
<1>8. QED
  BY <1>4, <1>6, <1>7 DEF LastOf

LEMMA ChainsStep ==
  ASSUME TypeOK, Inv, CodeTypeOK, CodeInv, (TypeOK /\ Inv /\ CodeTypeOK)', Lasting,
         Idles \/ \E r \in Requests : Effect(r)
  PROVE  ChainsCount'
<1>1. FlowSetsOK /\ FlowSetsOK' /\ ChainsCount
  BY FlowSets, FlowSetsNext DEF CodeInv
<1>2. ASSUME NEW f \in Requests, OneByOne(f)'
      PROVE  \/ \A s \in Requests : ~StateOf(s, f)'
             \/ \E l \in Requests : LastOf(l, f)'
  <2>1. OneByOne(f)
    BY <1>2, OneByOneLasts
  <2>2. ASSUME NEW s \in Requests, Saves(s), req[s].flow = f
        PROVE  LastOf(s, f)'
    BY <1>1, <1>2, <2>1, <2>2, ChainStarts, ChainGrows DEF Saves
  <2>3. CASE \A x \in Requests : Saves(x) => req[x].flow # f
    BY <1>1, <1>2, <2>1, <2>3, ChainKept DEF ChainsCount
  <2>4. QED
    BY <2>2, <2>3
<1>3. QED
  BY <1>2 DEF ChainsCount

----------------------------------------------------------------------------
(* CodeTypeOK and CodeInv are inductive together with what is proved of    *)
(* the flows.                                                              *)
LEMMA CodeInitially == CodeInit => CodeTypeOK /\ CodeInv
<1> SUFFICES ASSUME CodeInit PROVE CodeTypeOK /\ CodeInv
  OBVIOUS
<1>1. /\ form = [r \in Requests |-> NoForm] /\ memo = [r \in Requests |-> None]
      /\ login = [r \in Requests |-> None] /\ flows = [f \in Requests |-> None]
      /\ req = [r \in Requests |-> Idle]
  BY DEF CodeInit, Init
<1>2. \A r \in Requests :
        ~Stored(r) /\ req[r].seen = None /\ req[r].pc = "idle" /\ req[r].out = "none"
  BY <1>1 DEF Stored, Idle
<1>3. Active = {} /\ IsFiniteSet(Active)
  BY <1>2, FS_EmptySet DEF Active
<1>4. CodeTypeOK
  BY <1>1, <1>2, <1>3 DEF CodeTypeOK, NoForm, Form
<1>5. StatesAreSent /\ StatesAreOfTheFlow /\ FormsAreOfRequests
  BY <1>1, <1>2 DEF StatesAreSent, StatesAreOfTheFlow, FormsAreOfRequests, NoForm
<1>6. ChainsCount /\ LoginsHeldTheCode /\ DenialsAreEarned
  BY <1>1, <1>2 DEF ChainsCount, StateOf, LoginsHeldTheCode, DenialsAreEarned
<1>7. QED
  BY <1>4, <1>5, <1>6 DEF CodeInv

LEMMA CodeInvStep ==
  TypeOK /\ Inv /\ (TypeOK /\ Inv)' /\ CodeTypeOK /\ CodeInv /\ [CodeNext]_codeVars
    => (CodeTypeOK /\ CodeInv)'
<1> SUFFICES ASSUME TypeOK, Inv, (TypeOK /\ Inv)', CodeTypeOK, CodeInv,
                    [CodeNext]_codeVars
             PROVE  (CodeTypeOK /\ CodeInv)'
  OBVIOUS
<1>1. Idles \/ \E r \in Requests : Effect(r)
  BY EffectStep DEF CodeInv
<1>2. Lasting
  BY <1>1, LastingStep DEF CodeInv
<1>3. CodeTypeOK'
  BY <1>2, CodeTypeStep
<1>4. StatesAreSent' /\ StatesAreOfTheFlow' /\ FormsAreOfRequests'
  BY <1>1, <1>2, <1>3, SentStep, FlowStatesStep, FormsStep
<1>5. ChainsCount' /\ LoginsHeldTheCode' /\ DenialsAreEarned'
  BY <1>1, <1>2, <1>3, ChainsStep, LoginsStep, DenialsStep
<1>6. QED
  BY <1>3, <1>4, <1>5 DEF CodeInv

(* What is stored for a flow, who got in and who was denied (methods/code.ts). *)
THEOREM CodeInvariance == CodeSpec => [](CodeTypeOK /\ CodeInv)
<1>1. CodeSpec => [](TypeOK /\ Inv)
  BY RunsOnFlows, Invariance, PTL
<1>2. QED
  BY <1>1, CodeInitially, CodeInvStep, PTL DEF CodeSpec

(* The digits a login was let in on were drawn by a /send of its own flow  *)
(* to the very destination it is for.                                      *)
THEOREM LoginsAreForTheCode == CodeSpec => []LoginsHeldTheCode
<1>1. CodeInv => LoginsHeldTheCode
  BY DEF CodeInv
<1>2. QED
  BY <1>1, CodeInvariance, PTL

(* No flow is denied before MaxAttempts of its verifies have failed. *)
THEOREM DenialsComeAfterFailures == CodeSpec => []DenialsAreEarned
<1>1. CodeInv => DenialsAreEarned
  BY DEF CodeInv
<1>2. QED
  BY <1>1, CodeInvariance, PTL

(* A flow with one /send has at most MaxAttempts failed verifies, unless   *)
(* two of them were dispatched with the same state (handleVerify's         *)
(* read-then-save).                                                        *)
THEOREM FailuresStayCounted == CodeSpec => []FailuresAreCounted
<1>1. TypeOK /\ Inv /\ CodeTypeOK /\ CodeInv => FailuresAreCounted
  <2> SUFFICES ASSUME TypeOK, Inv, CodeTypeOK, CodeInv, NEW f \in Requests, OneByOne(f)
               PROVE  Cardinality(Failures(f)) <= MaxAttempts
    BY DEF FailuresAreCounted, OneByOne
  <2>1. Cardinality(Failures(f)) \in Nat
    BY FlowSets DEF FlowSetsOK
  <2>2. CASE \A s \in Requests : ~StateOf(s, f)
    <3>1. Failures(f) = {}
      BY <2>2 DEF Failures, Failed, StateOf, Stored
    <3>2. QED
      BY <3>1, FS_EmptySet, CodeAssumption
  <2>3. ASSUME NEW l \in Requests, LastOf(l, f)
        PROVE  Cardinality(Failures(f)) <= MaxAttempts
    BY <2>1, <2>3, CodeAssumption DEF LastOf, StateOf, CodeTypeOK, CodeState
  <2>4. QED
    BY <2>2, <2>3 DEF CodeInv, ChainsCount
<1>2. QED
  BY <1>1, RunsOnFlows, Invariance, CodeInvariance, PTL
=============================================================================

---------------------------- MODULE FlowsProofs ----------------------------
(***************************************************************************)
(* Proofs about Flows for any number of requests, tenants, clients and     *)
(* methods and any bound on the clock.                                     *)
(***************************************************************************)
EXTENDS FlowsProps, TLAPS

RequestRecord ==
  [pc : {"idle", "handling", "persisted", "minting", "done"},
   op : {"none", "authorize", "callback", "route", "unsolicited"},
   flow : Requests \cup {None},   \* the flow it began, or came back for
   ask : Ask \cup {None},         \* the record it holds
   by : Handler \cup {None},      \* whose handler it runs
   seen : Requests \cup {None},   \* the state the handler was given
   out : {"none", "code", "challenge", "saved", "denied", "refused", "replay"}]

TypeOK ==
  /\ now \in Nat
  /\ flows \in [Requests -> StoredFlow \cup {None}]
  /\ codes \in [Requests -> Ask \cup {None}]
  /\ req \in [Requests -> RequestRecord]

----------------------------------------------------------------------------
(* The inductive invariant.  That a flow yields one code rests on who holds *)
(* its record, that on when records are stored, and that on which requests *)
(* began a flow and which came back for one.                               *)
Started(f) == req[f].op = "authorize" /\ req[f].flow = f
HandlerOf(a) == [tenant |-> a.tenant, method |-> a.method]

(* What a request carries at each stage. *)
StageOK(r) ==
  /\ req[r].pc = "idle" => req[r] = Idle
  /\ req[r].out # "none" => req[r].pc = "done"
  /\ codes[r] # None => req[r].pc = "done"
  /\ req[r].pc = "handling" => req[r].by # None
  /\ req[r].op = "authorize" =>
       \/ Started(r) /\ req[r].ask # None
       \/ req[r].flow = None /\ req[r].out = "refused"
  /\ req[r].op \in {"none", "unsolicited"} => req[r].flow = None
  /\ req[r].op \in {"callback", "route"} => req[r].flow # None

StagesOK == \A r \in Requests : StageOK(r)

(* Flows come from /authorize, and a user comes back only for one whose    *)
(* challenge went out.                                                     *)
FlowsWereStarted ==
  /\ \A f \in Requests :
       flows[f] # None => Started(f) /\ flows[f].ask = req[f].ask
  /\ \A r \in Requests :
       req[r].op \in {"callback", "route"} =>
         Surfaced(req[r].flow) /\ Started(req[r].flow)

(* A request for a code that is on its way to one, or has it. *)
Holds(r) ==
  \/ codes[r] # None
  \/ req[r].pc = "minting"
  \/ req[r].pc = "handling" /\ req[r].op = "callback"

(* What a request has in hand is what its flow was asked for, and whoever  *)
(* runs for it is the method that was asked for.                           *)
AsksAreKept ==
  \A r \in Requests :
    /\ Holds(r) =>
         /\ req[r].by = HandlerOf(req[r].ask)
         /\ req[r].ask # None
         /\ req[r].flow # None => req[r].ask = req[req[r].flow].ask
         /\ codes[r] # None => codes[r] = req[r].ask
    /\ Started(r) => req[r].by = HandlerOf(req[r].ask)
    /\ req[r].op = "route" /\ req[r].by # None =>
         req[r].by = HandlerOf(req[req[r].flow].ask)

(* A challenge that needed the state to be saved finds it saved. *)
StatesAreStored ==
  \A f \in Requests :
    /\ req[f].op = "authorize"
    /\ req[f].pc = "persisted" \/ req[f].out = "saved"
    /\ flows[f] # None
    => flows[f].state # None

Inv ==
  /\ StagesOK
  /\ FlowsWereStarted
  /\ FlowsAreSpentOnce
  /\ AsksAreKept
  /\ StatesAreStored
  /\ SavedStateIsFound

(* It has spent the flow it is for. *)
LEMMA HoldersSpend ==
  ASSUME StagesOK, NEW r \in Requests, Holds(r)
  PROVE  Spends(r)
  BY DEF StagesOK, StageOK, Holds, Spends

----------------------------------------------------------------------------
(* Replacing one request keeps the type of req. *)
LEMMA BecomesType ==
  ASSUME req \in [Requests -> RequestRecord],
         NEW r \in Requests, NEW q \in RequestRecord, Becomes(r, q)
  PROVE  req' \in [Requests -> RequestRecord]
  BY DEF Becomes

(* So does answering one that is being handled. *)
LEMMA AnswerType ==
  ASSUME req \in [Requests -> RequestRecord],
         NEW r \in Requests, NEW q \in RequestRecord,
         NEW result \in {"code", "challenge", "saved", "denied", "refused", "replay"},
         Answer(r, q, result)
  PROVE  req' \in [Requests -> RequestRecord]
<1>1. [q EXCEPT !.pc = "done", !.out = result] \in RequestRecord
  BY DEF RequestRecord
<1>2. QED
  BY <1>1, BecomesType DEF Answer

LEMMA IdleType == Idle \in RequestRecord
  BY DEF Idle, RequestRecord

LEMMA RowType ==
  ASSUME TypeOK, NEW f \in Requests, flows[f] # None
  PROVE  /\ flows[f].ask \in Ask
         /\ flows[f].state \in Requests \cup {None}
         /\ [tenant |-> flows[f].ask.tenant, method |-> flows[f].ask.method] \in Handler
  BY DEF TypeOK, StoredFlow, Ask, Handler

(* Every step keeps the types: what is minted for an unsolicited callback  *)
(* is of its handler's tenant and method, and a request being handled has  *)
(* a handler.                                                              *)
LEMMA TypeStep ==
  ASSUME TypeOK, StagesOK, [Next]_vars
  PROVE  TypeOK'
<1> USE DEF TypeOK
<1>1. ASSUME NEW r \in Requests, StartRefused(r) PROVE TypeOK'
  <2>1. [Idle EXCEPT !.op = "authorize"] \in RequestRecord
    BY DEF Idle, RequestRecord
  <2>2. QED
    BY <1>1, <2>1, AnswerType DEF StartRefused
<1>2. ASSUME NEW r \in Requests, NEW a \in Ask, StartAuthorize(r, a) PROVE TypeOK'
  <2>1. [ask |-> a, state |-> None, expiresAt |-> now + FlowTtl] \in StoredFlow
    BY FlowsAssumption DEF StoredFlow
  <2>2. [Idle EXCEPT !.pc = "handling", !.op = "authorize", !.flow = r, !.ask = a,
           !.by = [tenant |-> a.tenant, method |-> a.method]] \in RequestRecord
    BY DEF Idle, RequestRecord, Ask, Handler
  <2>3. QED
    BY <1>2, <2>1, <2>2, BecomesType DEF StartAuthorize
<1>3. ASSUME NEW r \in Requests, NEW f \in Requests, CallbackReplayed(r, f) PROVE TypeOK'
  <2>1. [Idle EXCEPT !.op = "callback", !.flow = f] \in RequestRecord
    BY DEF Idle, RequestRecord
  <2>2. QED
    BY <1>3, <2>1, AnswerType DEF CallbackReplayed, Take
<1>4. ASSUME NEW r \in Requests, NEW f \in Requests, NEW host \in Hosts,
             NEW m \in Methods, CallbackConsume(r, f, host, m)
      PROVE  TypeOK'
  <2> DEFINE begun == [Idle EXCEPT !.op = "callback", !.flow = f, !.seen = flows[f].state]
             row == flows[f]
  <2>1. begun \in RequestRecord
    BY <1>4, RowType DEF CallbackConsume, Live, Idle, RequestRecord
  <2>2. [begun EXCEPT !.pc = "handling", !.ask = row.ask,
           !.by = [tenant |-> row.ask.tenant, method |-> row.ask.method]] \in RequestRecord
    BY <1>4, <2>1, RowType DEF CallbackConsume, Live, RequestRecord
  <2>3. req' \in [Requests -> RequestRecord]
    BY <1>4, <2>1, <2>2, AnswerType, BecomesType DEF CallbackConsume
  <2>4. QED
    BY <1>4, <2>3 DEF CallbackConsume, Take
<1>5. ASSUME NEW r \in Requests, NEW h \in Handler, CallbackUnsolicited(r, h) PROVE TypeOK'
  <2>1. /\ [Idle EXCEPT !.op = "unsolicited"] \in RequestRecord
        /\ [Idle EXCEPT !.pc = "handling", !.op = "unsolicited", !.by = h] \in RequestRecord
    BY DEF Idle, RequestRecord
  <2>2. QED
    BY <1>5, <2>1, AnswerType, BecomesType DEF CallbackUnsolicited
<1>6. ASSUME NEW r \in Requests, NEW f \in Requests, NEW h \in Handler, RouteRead(r, f, h)
      PROVE  TypeOK'
  <2> DEFINE begun == [Idle EXCEPT !.op = "route", !.flow = f]
  <2>1. begun \in RequestRecord
    BY DEF Idle, RequestRecord
  <2>2. Live(f) => [begun EXCEPT !.pc = "handling", !.by = h, !.seen = flows[f].state]
                     \in RequestRecord
    BY <2>1, RowType DEF Live, RequestRecord
  <2>3. req' \in [Requests -> RequestRecord]
    BY <1>6, <2>1, <2>2, AnswerType, BecomesType DEF RouteRead
  <2>4. QED
    BY <1>6, <2>3 DEF RouteRead, Sweep
<1>7. ASSUME NEW r \in Requests,
             HandlerFails(r) \/ HandlerDenies(r) \/ HandlerChallenges(r)
      PROVE  TypeOK'
  BY <1>7, AnswerType DEF HandlerFails, HandlerDenies, HandlerChallenges
<1>8. ASSUME NEW r \in Requests, HandlerSaves(r) PROVE TypeOK'
  <2>1. [req[r] EXCEPT !.pc = "persisted"] \in RequestRecord
    BY DEF RequestRecord
  <2>2. req' \in [Requests -> RequestRecord]
    BY <1>8, <2>1, AnswerType, BecomesType DEF HandlerSaves
  <2>3. req[r].flow \in Requests \cup {None}
    BY DEF RequestRecord
  <2>4. flows' \in [Requests -> StoredFlow \cup {None}]
    <3>1. ASSUME NEW f \in Requests, flows[f] # None
          PROVE  [flows[f] EXCEPT !.state = r] \in StoredFlow
      BY <3>1 DEF StoredFlow
    <3>2. QED
      BY <1>8, <2>3, <3>1 DEF HandlerSaves, Live, Sweep
  <2>5. QED
    BY <1>8, <2>2, <2>4 DEF HandlerSaves
<1>9. ASSUME NEW r \in Requests, Surface(r) PROVE TypeOK'
  BY <1>9, AnswerType DEF Surface
<1>10. ASSUME NEW r \in Requests, CallbackSucceeds(r) PROVE TypeOK'
  <2>1. [req[r] EXCEPT !.pc = "minting"] \in RequestRecord
    BY DEF RequestRecord
  <2>2. QED
    BY <1>10, <2>1, BecomesType DEF CallbackSucceeds
<1>11. ASSUME NEW r \in Requests, FlowSucceeds(r) PROVE TypeOK'
  <2>1. req[r].flow \in Requests \cup {None}
    BY DEF RequestRecord
  <2>2. req' \in [Requests -> RequestRecord]
    <3>1. req[r].flow \in Requests
      BY <1>11, <2>1 DEF FlowSucceeds, StagesOK, StageOK, Started, Live
    <3>2. Live(req[r].flow) => flows[req[r].flow].ask \in Ask
      BY <3>1, RowType DEF Live
    <3>3. Live(req[r].flow)
            => [req[r] EXCEPT !.pc = "minting", !.ask = flows[req[r].flow].ask] \in RequestRecord
      BY <3>2 DEF RequestRecord
    <3>4. QED
      BY <1>11, <3>3, AnswerType, BecomesType DEF FlowSucceeds
  <2>3. QED
    BY <1>11, <2>1, <2>2 DEF FlowSucceeds, Take
<1>12. ASSUME NEW r \in Requests, NEW c \in Clients, UnsolicitedSucceeds(r, c) PROVE TypeOK'
  <2>1. req[r].by \in Handler
    BY <1>12 DEF UnsolicitedSucceeds, StagesOK, StageOK, RequestRecord
  <2>2. [req[r] EXCEPT !.pc = "minting",
           !.ask = [tenant |-> req[r].by.tenant, client |-> c, method |-> req[r].by.method]]
          \in RequestRecord
    BY <2>1 DEF RequestRecord, Ask, Handler
  <2>3. QED
    BY <1>12, <2>2, AnswerType, BecomesType DEF UnsolicitedSucceeds
<1>13. ASSUME NEW r \in Requests, IssueCode(r) PROVE TypeOK'
  <2>1. req[r].ask \in Ask \cup {None}
    BY DEF RequestRecord
  <2>2. QED
    BY <1>13, <2>1, AnswerType DEF IssueCode
<1>14. ASSUME NEW r \in Requests, IssueFails(r) PROVE TypeOK'
  BY <1>14, AnswerType DEF IssueFails
<1>15. CASE Tick
  BY <1>15 DEF Tick
<1>16. CASE UNCHANGED vars
  BY <1>16 DEF vars
<1>17. QED
  BY <1>1, <1>2, <1>3, <1>4, <1>5, <1>6, <1>7, <1>8, <1>9, <1>10, <1>11,
     <1>12, <1>13, <1>14, <1>15, <1>16 DEF Next, Begin, Continue

----------------------------------------------------------------------------
(* What a step that replaces the record of one request leaves alone. *)
LEMMA Becoming ==
  ASSUME TypeOK, NEW r \in Requests, NEW q, Becomes(r, q)
  PROVE  /\ req'[r] = q
         /\ \A x \in Requests \ {r} : req'[x] = req[x]
  BY DEF TypeOK, Becomes

(* No step but StartAuthorize and HandlerSaves writes a flow. *)
NoFlowIsWritten == \A f \in Requests : flows'[f] \in {flows[f], None}

LEMMA Deletions ==
  ASSUME TypeOK, NEW f, Take(f) \/ Sweep(f) \/ UNCHANGED flows
  PROVE  NoFlowIsWritten
  BY DEF TypeOK, Take, Sweep, NoFlowIsWritten

(* The flow of a request is one, and one that went out if it came back. *)
LEMMA FlowOf ==
  ASSUME TypeOK, Inv, NEW x \in Requests
  PROVE  /\ req[x].flow \in Requests \cup {None}
         /\ req[x].op \in {"callback", "route"} =>
              /\ req[x].flow \in Requests
              /\ Surfaced(req[x].flow) /\ Started(req[x].flow)
  BY DEF TypeOK, RequestRecord, Inv, StagesOK, StageOK, FlowsWereStarted

(* A request that is answered without a code gives up whatever it held.    *)
LEMMA QuietStep ==
  ASSUME TypeOK, Inv, NEW r \in Requests,
         req[r].pc \in {"handling", "persisted", "minting"},
         NEW result \in {"challenge", "saved", "denied", "refused"},
         Answer(r, req[r], result),
         result = "saved" => req[r].pc = "persisted",
         NoFlowIsWritten, UNCHANGED codes
  PROVE  Inv'
<1> DEFINE q == [req[r] EXCEPT !.pc = "done", !.out = result]
<1>1. /\ req'[r] = q
      /\ \A x \in Requests \ {r} : req'[x] = req[x]
  BY Becoming DEF Answer
<1>2. /\ q.pc = "done" /\ q.out = result
      /\ q.op = req[r].op /\ q.flow = req[r].flow /\ q.ask = req[r].ask
      /\ q.by = req[r].by /\ q.seen = req[r].seen
  BY DEF TypeOK, RequestRecord
<1> HIDE DEF q
<1>3. req[r].out = "none"
  BY DEF Inv, StagesOK, StageOK
<1>4. \A x \in Requests : /\ req'[x].op = req[x].op /\ req'[x].flow = req[x].flow
                          /\ req'[x].ask = req[x].ask /\ req'[x].by = req[x].by
                          /\ req'[x].seen = req[x].seen
  BY <1>1, <1>2
<1>5. \A x \in Requests : Started(x)' <=> Started(x)
  BY <1>4 DEF Started
<1>6. \A x \in Requests : (Holds(x)' => Holds(x)) /\ (Spends(x)' => Spends(x))
  BY <1>1, <1>2, <1>3 DEF Holds, Spends
<1>7. \A x \in Requests : Surfaced(x) => x # r /\ Surfaced(x)'
  BY <1>1, <1>3 DEF Surfaced
<1>8. \A x \in Requests :
        /\ req[x].flow \in Requests \cup {None}
        /\ req[x].op \in {"callback", "route"} =>
             /\ req[x].flow \in Requests
             /\ Surfaced(req[x].flow) /\ Started(req[x].flow)
  BY FlowOf
<1>9. StagesOK'
  BY <1>1, <1>2, <1>3, <1>5 DEF Inv, StagesOK, StageOK
<1>10. FlowsWereStarted'
  <2>1. ASSUME NEW f \in Requests, flows'[f] # None
        PROVE  Started(f)' /\ flows'[f].ask = req'[f].ask
    BY <2>1, <1>4, <1>5 DEF NoFlowIsWritten, Inv, FlowsWereStarted
  <2>2. ASSUME NEW x \in Requests, req[x].op \in {"callback", "route"}
        PROVE  (Surfaced(req[x].flow) /\ Started(req[x].flow))'
    BY <2>2, <1>4, <1>5, <1>7, <1>8 DEF Surfaced, Started
  <2>3. QED
    BY <2>1, <2>2, <1>4 DEF FlowsWereStarted
<1>11. FlowsAreSpentOnce'
  BY <1>4, <1>6, <1>8 DEF Inv, FlowsAreSpentOnce, NoFlowIsWritten
<1>12. AsksAreKept'
  BY <1>4, <1>5, <1>6, <1>8 DEF Inv, AsksAreKept, StagesOK, StageOK
<1>13. StatesAreStored'
  BY <1>1, <1>2, <1>3, <1>4 DEF Inv, StatesAreStored, NoFlowIsWritten
<1>14. SavedStateIsFound'
  BY <1>1, <1>4, <1>7, <1>8 DEF Inv, SavedStateIsFound
<1>15. QED
  BY <1>9, <1>10, <1>11, <1>12, <1>13, <1>14 DEF Inv

(* A request that mints has taken its flow, or had; its code will be for   *)
(* what the flow was asked for.                                            *)
LEMMA MintStep ==
  ASSUME TypeOK, Inv, NEW r \in Requests, NEW a \in Ask,
         req[r].pc = "handling",
         Becomes(r, [req[r] EXCEPT !.pc = "minting", !.ask = a]),
         req[r].by = HandlerOf(a),
         req[r].flow # None =>
           /\ flows'[req[r].flow] = None
           /\ \/ Holds(r) /\ a = req[r].ask
              \/ flows[req[r].flow] # None /\ a = flows[req[r].flow].ask,
         NoFlowIsWritten, UNCHANGED codes
  PROVE  Inv'
<1> DEFINE q == [req[r] EXCEPT !.pc = "minting", !.ask = a]
<1>1. /\ req'[r] = q
      /\ \A x \in Requests \ {r} : req'[x] = req[x]
  BY Becoming
<1>2. /\ q.pc = "minting" /\ q.out = req[r].out
      /\ q.op = req[r].op /\ q.flow = req[r].flow /\ q.ask = a
      /\ q.by = req[r].by /\ q.seen = req[r].seen
  BY DEF TypeOK, RequestRecord
<1> HIDE DEF q
<1>3. \A x \in Requests : /\ req'[x].op = req[x].op /\ req'[x].flow = req[x].flow
                          /\ req'[x].by = req[x].by /\ req'[x].seen = req[x].seen
                          /\ req'[x].out = req[x].out
  BY <1>1, <1>2
<1>4. \A x \in Requests : /\ Started(x)' <=> Started(x)
                          /\ Surfaced(x)' <=> Surfaced(x)
  BY <1>3 DEF Started, Surfaced
<1>5. \A x \in Requests :
        /\ req[x].flow \in Requests \cup {None}
        /\ req[x].op \in {"callback", "route"} =>
             /\ req[x].flow \in Requests
             /\ Surfaced(req[x].flow) /\ Started(req[x].flow)
  BY FlowOf
<1>6. a # None
  BY NoneIsNoRecord
<1>7. ASSUME NEW x \in Requests, req[x].flow # None
      PROVE  req[x].flow \in Requests /\ Started(req[x].flow)
  BY <1>7, <1>5 DEF Inv, StagesOK, StageOK, Started, TypeOK, RequestRecord
<1>8. req[r].flow # None => Started(req[r].flow) /\ a = req[req[r].flow].ask
  BY <1>7 DEF Inv, FlowsWereStarted, AsksAreKept
<1>9. \A x \in Requests : Started(x) => req'[x].ask = req[x].ask
  BY <1>1, <1>2, <1>8, FlowsAssumption DEF Started
<1>10. ASSUME NEW x \in Requests, x # r
       PROVE  (Holds(x)' => Holds(x)) /\ (Spends(x)' => Spends(x))
  BY <1>1, <1>10 DEF Holds, Spends
<1>11. StagesOK'
  BY <1>1, <1>2, <1>4, <1>6 DEF Inv, StagesOK, StageOK
<1>12. FlowsWereStarted'
  <2>1. ASSUME NEW f \in Requests, flows'[f] # None
        PROVE  Started(f)' /\ flows'[f].ask = req'[f].ask
    BY <2>1, <1>4, <1>9 DEF NoFlowIsWritten, Inv, FlowsWereStarted
  <2>2. ASSUME NEW x \in Requests, req[x].op \in {"callback", "route"}
        PROVE  (Surfaced(req[x].flow) /\ Started(req[x].flow))'
    BY <2>2, <1>3, <1>4, <1>5 DEF Surfaced, Started
  <2>3. QED
    BY <2>1, <2>2, <1>3 DEF FlowsWereStarted
<1>13. FlowsAreSpentOnce'
  <2>1. ASSUME NEW x \in Requests, x # r, Spends(x), req[x].flow # None
        PROVE  /\ flows'[req[x].flow] = None
               /\ \A y \in Requests \ {r} : Spends(y)' /\ req[y].flow = req[x].flow => y = x
    BY <2>1, <1>5, <1>10 DEF Inv, FlowsAreSpentOnce, NoFlowIsWritten
  <2>2. ASSUME req[r].flow # None,
               NEW x \in Requests, x # r, Spends(x), req[x].flow = req[r].flow
        PROVE  FALSE
    <3>1. flows[req[r].flow] = None /\ ~Spends(r)
      BY <2>2 DEF Inv, FlowsAreSpentOnce
    <3>2. QED
      BY <2>2, <3>1, HoldersSpend DEF Inv
  <2>3. QED
    BY <2>1, <2>2, <1>3, <1>10 DEF FlowsAreSpentOnce
<1>14. AsksAreKept'
  <2>1. ASSUME NEW x \in Requests, Holds(x)'
        PROVE  (/\ req[x].by = HandlerOf(req[x].ask)
                /\ req[x].ask # None
                /\ req[x].flow # None => req[x].ask = req[req[x].flow].ask
                /\ codes[x] # None => codes[x] = req[x].ask)'
    <3>1. CASE x = r
      <4>1. codes[r] = None
        BY DEF Inv, StagesOK, StageOK
      <4>2. QED
        BY <3>1, <4>1, <1>1, <1>2, <1>3, <1>6, <1>7, <1>8, <1>9
    <3>2. CASE x # r
      <4>1. Holds(x)
        BY <2>1, <3>2, <1>10
      <4>2. QED
        BY <3>2, <4>1, <1>1, <1>3, <1>7, <1>9 DEF Inv, AsksAreKept
    <3>3. QED
      BY <3>1, <3>2
  <2>2. ASSUME NEW x \in Requests, Started(x)'
        PROVE  (req[x].by = HandlerOf(req[x].ask))'
    BY <2>2, <1>3, <1>4, <1>9 DEF Inv, AsksAreKept
  <2>3. ASSUME NEW x \in Requests, req'[x].op = "route", req'[x].by # None
        PROVE  (req[x].by = HandlerOf(req[req[x].flow].ask))'
    BY <2>3, <1>3, <1>5, <1>9 DEF Inv, AsksAreKept
  <2>4. QED
    BY <2>1, <2>2, <2>3 DEF AsksAreKept
<1>15. StatesAreStored'
  BY <1>1, <1>2, <1>3 DEF Inv, StatesAreStored, NoFlowIsWritten
<1>16. SavedStateIsFound'
  BY <1>3, <1>5 DEF Inv, SavedStateIsFound
<1>17. QED
  BY <1>11, <1>12, <1>13, <1>14, <1>15, <1>16 DEF Inv

(* A request that begins without starting a flow is refused, or runs the   *)
(* handler it is for with what the flow's record says.                     *)
Begun(r, q) ==
  LET row == flows[q.flow] IN
  /\ \/ q.pc = "done" /\ q.out \in {"refused", "replay"} /\ q.by = None
     \/ q.pc = "handling" /\ q.out = "none" /\ q.by # None
  /\ \/ q.op = "authorize" /\ q.flow = None /\ q.out = "refused"
     \/ q.op = "unsolicited" /\ q.flow = None
     \/ /\ q.op \in {"callback", "route"}
        /\ q.flow \in Requests /\ Surfaced(q.flow)
        /\ q.op = "callback" =>
             flows'[q.flow] = None /\ (q.out # "replay" => row # None)
  /\ q.flow # None /\ q.pc = "handling" =>
       row # None /\ q.by = HandlerOf(row.ask) /\ q.seen = row.state
  /\ q.op = "callback" /\ q.pc = "handling" => q.ask = row.ask

LEMMA BeginStep ==
  ASSUME TypeOK, Inv, NEW r \in Requests, NEW q \in RequestRecord,
         req[r].pc = "idle", Becomes(r, q), Begun(r, q),
         NoFlowIsWritten, UNCHANGED codes
  PROVE  Inv'
<1>1. /\ req'[r] = q
      /\ \A x \in Requests \ {r} : req'[x] = req[x]
  BY Becoming
<1>2. req[r] = Idle /\ codes[r] = None
  BY DEF Inv, StagesOK, StageOK
<1>3. ~Started(r) /\ ~Started(r)' /\ ~Surfaced(r) /\ flows[r] = None
  BY <1>1, <1>2, FlowsAssumption DEF Started, Surfaced, Idle, Begun, Inv, FlowsWereStarted
<1>4. \A x \in Requests : /\ Started(x)' <=> Started(x)
                          /\ Surfaced(x) => Surfaced(x)'
  BY <1>1, <1>3 DEF Started, Surfaced
<1>5. \A x \in Requests :
        /\ req[x].flow \in Requests \cup {None}
        /\ req[x].op \in {"callback", "route"} =>
             /\ req[x].flow \in Requests
             /\ Surfaced(req[x].flow) /\ Started(req[x].flow)
  BY FlowOf
<1>6. Surfaced(q.flow) /\ q.flow \in Requests => Started(q.flow)
  BY DEF Surfaced, Inv, StagesOK, StageOK
<1>7. \A x \in Requests : Started(x) => x # r /\ req'[x] = req[x]
  BY <1>1, <1>3
<1>8. ASSUME NEW x \in Requests, req[x].flow # None
      PROVE  req[x].flow \in Requests /\ Started(req[x].flow)
  BY <1>8, <1>5 DEF Inv, StagesOK, StageOK, Started, TypeOK, RequestRecord
<1>9. StagesOK'
  BY <1>1, <1>2, <1>4, FlowsAssumption DEF Inv, StagesOK, StageOK, Begun
<1>10. FlowsWereStarted'
  <2>1. ASSUME NEW f \in Requests, flows'[f] # None
        PROVE  Started(f)' /\ flows'[f].ask = req'[f].ask
    BY <2>1, <1>4, <1>7 DEF NoFlowIsWritten, Inv, FlowsWereStarted
  <2>2. ASSUME NEW x \in Requests, req'[x].op \in {"callback", "route"}
        PROVE  Surfaced(req'[x].flow) /\ Started(req'[x].flow) /\ req'[x].flow \in Requests
    BY <2>2, <1>1, <1>5, <1>6 DEF Begun, RequestRecord
  <2>3. QED
    BY <2>1, <2>2, <1>7 DEF FlowsWereStarted, Surfaced, Started
<1>11. FlowsAreSpentOnce'
  <2>1. /\ \A x \in Requests \ {r} : (Spends(x)' <=> Spends(x)) /\ req'[x].flow = req[x].flow
        /\ req'[r].flow = q.flow
    BY <1>1 DEF Spends
  <2>2. Spends(r)' /\ q.flow # None =>
          q.flow \in Requests /\ flows[q.flow] # None /\ flows'[q.flow] = None
    BY <1>1, <1>2 DEF Spends, Begun
  <2>3. \A x \in Requests : Spends(x) /\ req[x].flow # None =>
          flows[req[x].flow] = None /\ flows'[req[x].flow] = None
    BY <1>5 DEF Inv, FlowsAreSpentOnce, NoFlowIsWritten
  <2>4. QED
    BY <2>1, <2>2, <2>3 DEF Inv, FlowsAreSpentOnce
<1>12. AsksAreKept'
  <2>1. ASSUME NEW x \in Requests, x # r
        PROVE  /\ Holds(x)' <=> Holds(x)
               /\ req'[x] = req[x]
               /\ req'[x].flow # None => req'[req'[x].flow] = req[req[x].flow]
    BY <2>1, <1>1, <1>7, <1>8 DEF Holds
  <2>2. q.flow # None /\ q.pc = "handling" =>
          /\ flows[q.flow].ask = req[q.flow].ask
          /\ req'[q.flow] = req[q.flow]
    BY <1>6, <1>7 DEF Begun, Inv, FlowsWereStarted
  <2>3. q.op = "callback" /\ q.pc = "handling" => q.ask # None
    BY RowType, NoneIsNoRecord, FlowsAssumption DEF Begun
  <2>4. ASSUME Holds(r)' PROVE q.op = "callback" /\ q.pc = "handling" /\ q.flow # None
    BY <2>4, <1>1, <1>2, FlowsAssumption DEF Holds, Begun
  <2> DEFINE Kept(x) ==
        /\ Holds(x) =>
             /\ req[x].by = HandlerOf(req[x].ask)
             /\ req[x].ask # None
             /\ req[x].flow # None => req[x].ask = req[req[x].flow].ask
             /\ codes[x] # None => codes[x] = req[x].ask
        /\ Started(x) => req[x].by = HandlerOf(req[x].ask)
        /\ req[x].op = "route" /\ req[x].by # None =>
             req[x].by = HandlerOf(req[req[x].flow].ask)
  <2>5. ASSUME NEW x \in Requests, x # r PROVE Kept(x)'
    <3>1. req[x].op = "route" => req[x].flow # None
      BY <1>5, FlowsAssumption
    <3>2. Kept(x)
      BY DEF Inv, AsksAreKept
    <3>3. QED
      BY <2>1, <2>5, <3>1, <3>2, <1>4
  <2>6. Kept(r)'
    BY <2>2, <2>3, <2>4, <1>1, <1>2, <1>3, FlowsAssumption DEF Begun
  <2>7. QED
    BY <2>5, <2>6 DEF AsksAreKept
<1>13. StatesAreStored'
  BY <1>1, <1>2 DEF Inv, StatesAreStored, NoFlowIsWritten, Begun
<1>14. SavedStateIsFound'
  <2>1. ASSUME NEW x \in Requests, x # r, req'[x].op \in {"callback", "route"},
               req'[x].by # None, req'[req'[x].flow].out = "saved"
        PROVE  req'[x].seen # None
    BY <2>1, <1>1, <1>5, <1>7 DEF Inv, SavedStateIsFound
  <2>2. ASSUME q.op \in {"callback", "route"}, q.by # None, req'[q.flow].out = "saved"
        PROVE  q.seen # None
    BY <2>2, <1>6, <1>7, FlowsAssumption DEF Begun, Inv, StatesAreStored, Started
  <2>3. QED
    BY <2>1, <2>2, <1>1 DEF SavedStateIsFound
<1>15. QED
  BY <1>9, <1>10, <1>11, <1>12, <1>13, <1>14 DEF Inv

(* A flow of a request being handled was begun by /authorize. *)
LEMMA FlowsBegan ==
  ASSUME TypeOK, Inv, NEW x \in Requests, req[x].flow # None
  PROVE  req[x].flow \in Requests /\ Started(req[x].flow)
  BY FlowOf DEF Inv, StagesOK, StageOK, Started, TypeOK, RequestRecord

(* A new flow is nobody's but its request's. *)
LEMMA StartStep ==
  ASSUME TypeOK, Inv, NEW r \in Requests, NEW a \in Ask, StartAuthorize(r, a)
  PROVE  Inv'
<1> DEFINE q == [Idle EXCEPT !.pc = "handling", !.op = "authorize", !.flow = r,
                   !.ask = a, !.by = [tenant |-> a.tenant, method |-> a.method]]
           row == [ask |-> a, state |-> None, expiresAt |-> now + FlowTtl]
<1>1. /\ req'[r] = q
      /\ \A x \in Requests \ {r} : req'[x] = req[x]
  BY Becoming DEF StartAuthorize
<1>2. /\ flows'[r] = row
      /\ \A x \in Requests \ {r} : flows'[x] = flows[x]
  BY DEF StartAuthorize, TypeOK
<1>3. /\ q.pc = "handling" /\ q.op = "authorize" /\ q.flow = r /\ q.ask = a
      /\ q.by = HandlerOf(a) /\ q.seen = None /\ q.out = "none"
  BY DEF Idle, HandlerOf
<1>4. row.ask = a /\ codes' = codes /\ a # None /\ HandlerOf(a) # None
  BY NoneIsNoRecord DEF StartAuthorize, HandlerOf, Ask, Handler
<1> HIDE DEF q, row
<1>5. req[r] = Idle /\ codes[r] = None
  BY DEF Inv, StagesOK, StageOK, StartAuthorize
<1>6. ~Started(r) /\ ~Surfaced(r) /\ Started(r)'
  BY <1>1, <1>3, <1>5, FlowsAssumption DEF Started, Surfaced, Idle
<1>7. \A x \in Requests : Started(x) => x # r /\ req'[x] = req[x] /\ Started(x)'
  BY <1>1, <1>6 DEF Started
<1>8. ASSUME NEW x \in Requests, x # r, req[x].flow # None
      PROVE  req[x].flow \in Requests /\ req[x].flow # r /\ Started(req[x].flow)
  BY <1>8, <1>6, FlowsBegan
<1>9. \A x \in Requests : /\ Holds(x)' => x # r /\ Holds(x)
                          /\ Spends(x)' => x # r /\ Spends(x)
  BY <1>1, <1>3, <1>4, <1>5 DEF Holds, Spends
<1>10. StagesOK'
  BY <1>1, <1>3, <1>4, <1>5, <1>6 DEF Inv, StagesOK, StageOK, Started
<1>11. FlowsWereStarted'
  <2>1. ASSUME NEW f \in Requests, flows'[f] # None
        PROVE  Started(f)' /\ flows'[f].ask = req'[f].ask
    BY <2>1, <1>1, <1>2, <1>3, <1>4, <1>6, <1>7 DEF Inv, FlowsWereStarted
  <2>2. ASSUME NEW x \in Requests, req'[x].op \in {"callback", "route"}
        PROVE  (Surfaced(req[x].flow) /\ Started(req[x].flow))'
    <3>1. x # r /\ req'[x] = req[x]
      BY <2>2, <1>1, <1>3
    <3>2. QED
      BY <2>2, <3>1, <1>7, FlowOf DEF Surfaced, Started
  <2>3. QED
    BY <2>1, <2>2 DEF FlowsWereStarted
<1>12. FlowsAreSpentOnce'
  BY <1>1, <1>2, <1>8, <1>9 DEF Inv, FlowsAreSpentOnce
<1>13. AsksAreKept'
  <2> DEFINE Kept(x) ==
        /\ Holds(x) =>
             /\ req[x].by = HandlerOf(req[x].ask)
             /\ req[x].ask # None
             /\ req[x].flow # None => req[x].ask = req[req[x].flow].ask
             /\ codes[x] # None => codes[x] = req[x].ask
        /\ Started(x) => req[x].by = HandlerOf(req[x].ask)
        /\ req[x].op = "route" /\ req[x].by # None =>
             req[x].by = HandlerOf(req[req[x].flow].ask)
  <2>1. ASSUME NEW x \in Requests, x # r PROVE Kept(x)'
    <3>1. req[x].op = "route" => req[x].flow # None
      BY FlowOf, FlowsAssumption
    <3>2. Kept(x)
      BY DEF Inv, AsksAreKept
    <3>3. req'[x] = req[x] /\ (Started(x)' => Started(x))
      BY <2>1, <1>1 DEF Started
    <3>4. QED
      BY <2>1, <3>1, <3>2, <3>3, <1>4, <1>7, <1>8, <1>9
  <2>2. Kept(r)'
    BY <1>1, <1>3, <1>9
  <2>3. QED
    BY <2>1, <2>2 DEF AsksAreKept
<1>14. StatesAreStored'
  BY <1>1, <1>2, <1>3 DEF Inv, StatesAreStored
<1>15. SavedStateIsFound'
  <2>1. ASSUME NEW x \in Requests, req'[x].op \in {"callback", "route"}, req'[x].by # None,
               req'[req'[x].flow].out = "saved"
        PROVE  req'[x].seen # None
    <3>1. x # r /\ req'[x] = req[x]
      BY <2>1, <1>1, <1>3
    <3>2. QED
      BY <2>1, <3>1, <1>7, FlowOf DEF Inv, SavedStateIsFound
  <2>2. QED
    BY <2>1 DEF SavedStateIsFound
<1>16. QED
  BY <1>10, <1>11, <1>12, <1>13, <1>14, <1>15 DEF Inv

(* A state is saved in a live flow only, which stays what it was asked for. *)
LEMMA SaveStep ==
  ASSUME TypeOK, Inv, NEW r \in Requests, HandlerSaves(r)
  PROVE  Inv'
<1> DEFINE f == req[r].flow
           q == [req[r] EXCEPT !.pc = "persisted"]
<1>1. CASE Answer(r, req[r], "refused") /\ (Sweep(f) \/ UNCHANGED flows)
  BY <1>1, Deletions, QuietStep DEF HandlerSaves
<1>2. CASE /\ f # None /\ Live(f)
           /\ flows' = [flows EXCEPT ![f].state = r]
           /\ Becomes(r, q)
  <2>1. f \in Requests /\ Started(f) /\ flows[f] # None
    BY <1>2, FlowsBegan DEF Live
  <2>2. /\ req'[r] = q
        /\ \A x \in Requests \ {r} : req'[x] = req[x]
    BY <1>2, Becoming
  <2>3. /\ q.pc = "persisted" /\ req[r].pc = "handling" /\ q.out = req[r].out
        /\ q.op = req[r].op /\ q.flow = req[r].flow /\ q.ask = req[r].ask
        /\ q.by = req[r].by /\ q.seen = req[r].seen
    BY DEF TypeOK, RequestRecord, HandlerSaves
  <2>4. /\ flows'[f].ask = flows[f].ask /\ flows'[f].state = r
        /\ \A x \in Requests \ {f} : flows'[x] = flows[x]
    <3>1. flows[f] \in StoredFlow
      BY <2>1 DEF TypeOK
    <3>2. QED
      BY <1>2, <2>1, <3>1 DEF TypeOK, StoredFlow
  <2>5. codes' = codes /\ r # None
    BY FlowsAssumption DEF HandlerSaves
  <2> HIDE DEF q
  <2>6. \A x \in Requests : /\ req'[x].op = req[x].op /\ req'[x].flow = req[x].flow
                            /\ req'[x].ask = req[x].ask /\ req'[x].by = req[x].by
                            /\ req'[x].seen = req[x].seen /\ req'[x].out = req[x].out
    BY <2>2, <2>3
  <2>7. \A x \in Requests : /\ Started(x)' <=> Started(x)
                            /\ Surfaced(x)' <=> Surfaced(x)
                            /\ Holds(x)' => Holds(x)
                            /\ Spends(x)' => Spends(x)
    BY <2>2, <2>3, <2>5, <2>6 DEF Started, Surfaced, Holds, Spends
  <2>8. \A x \in Requests \ {f} : flows'[x] = flows[x]
    BY <2>4
  <2>9. StagesOK'
    BY <2>2, <2>3, <2>5, <2>7 DEF Inv, StagesOK, StageOK
  <2>10. FlowsWereStarted'
    <3>1. ASSUME NEW x \in Requests, flows'[x] # None
          PROVE  Started(x)' /\ flows'[x].ask = req'[x].ask
      BY <3>1, <2>1, <2>4, <2>6, <2>7 DEF Inv, FlowsWereStarted
    <3>2. ASSUME NEW x \in Requests, req'[x].op \in {"callback", "route"}
          PROVE  (Surfaced(req[x].flow) /\ Started(req[x].flow))'
      BY <3>2, <2>6, <2>7, FlowOf DEF Surfaced, Started
    <3>3. QED
      BY <3>1, <3>2 DEF FlowsWereStarted
  <2>11. FlowsAreSpentOnce'
    BY <2>1, <2>4, <2>6, <2>7, FlowsBegan DEF Inv, FlowsAreSpentOnce
  <2>12. AsksAreKept'
    <3>1. \A x \in Requests : req[x].op = "route" => req[x].flow \in Requests
      BY FlowOf
    <3>2. QED
      BY <3>1, <2>5, <2>6, <2>7, FlowsBegan DEF Inv, AsksAreKept
  <2>13. StatesAreStored'
    <3>1. ASSUME NEW x \in Requests, req'[x].op = "authorize",
                 req'[x].pc = "persisted" \/ req'[x].out = "saved", flows'[x] # None
          PROVE  flows'[x].state # None
      <4>1. CASE x = f
        BY <4>1, <2>4, <2>5
      <4>2. CASE x # f
        <5>1. x # r \/ req[x].out = "saved"
          BY <3>1, <4>2, <2>3, <2>6 DEF Inv, StagesOK, StageOK, Started
        <5>2. QED
          BY <3>1, <4>2, <5>1, <2>2, <2>4, <2>6 DEF Inv, StatesAreStored
      <4>3. QED
        BY <4>1, <4>2
    <3>2. QED
      BY <3>1 DEF StatesAreStored
  <2>14. SavedStateIsFound'
    BY <2>6, FlowOf DEF Inv, SavedStateIsFound
  <2>15. QED
    BY <2>9, <2>10, <2>11, <2>12, <2>13, <2>14 DEF Inv
<1>3. QED
  BY <1>1, <1>2 DEF HandlerSaves

(* The code is of the record in hand. *)
LEMMA IssueStep ==
  ASSUME TypeOK, Inv, NEW r \in Requests, IssueCode(r)
  PROVE  Inv'
<1> DEFINE q == [req[r] EXCEPT !.pc = "done", !.out = "code"]
<1>1. /\ req'[r] = q
      /\ \A x \in Requests \ {r} : req'[x] = req[x]
  BY Becoming DEF IssueCode, Answer
<1>2. /\ q.pc = "done" /\ q.out = "code"
      /\ q.op = req[r].op /\ q.flow = req[r].flow /\ q.ask = req[r].ask
      /\ q.by = req[r].by /\ q.seen = req[r].seen
  BY DEF TypeOK, RequestRecord
<1> HIDE DEF q
<1>3. \A x \in Requests : /\ req'[x].op = req[x].op /\ req'[x].flow = req[x].flow
                          /\ req'[x].ask = req[x].ask /\ req'[x].by = req[x].by
                          /\ req'[x].seen = req[x].seen
  BY <1>1, <1>2
<1>4. /\ codes'[r] = req[r].ask /\ flows' = flows
      /\ \A x \in Requests \ {r} : codes'[x] = codes[x]
  BY DEF IssueCode, TypeOK
<1>5. Holds(r) /\ req[r].out = "none"
  BY DEF Holds, IssueCode, Inv, StagesOK, StageOK
<1>6. \A x \in Requests : /\ Started(x)' <=> Started(x)
                          /\ Surfaced(x) => x # r /\ Surfaced(x)'
                          /\ Holds(x)' => Holds(x)
                          /\ Spends(x)' => Spends(x)
  BY <1>1, <1>2, <1>3, <1>4, <1>5 DEF Started, Surfaced, Holds, Spends, IssueCode
<1>7. StagesOK'
  BY <1>1, <1>2, <1>4, <1>5, <1>6 DEF Inv, StagesOK, StageOK
<1>8. FlowsWereStarted'
  <2>1. ASSUME NEW x \in Requests, req'[x].op \in {"callback", "route"}
        PROVE  (Surfaced(req[x].flow) /\ Started(req[x].flow))'
    BY <2>1, <1>3, <1>6, FlowOf DEF Surfaced, Started
  <2>2. QED
    BY <2>1, <1>3, <1>4, <1>6 DEF Inv, FlowsWereStarted
<1>9. FlowsAreSpentOnce'
  BY <1>3, <1>4, <1>6 DEF Inv, FlowsAreSpentOnce
<1>10. AsksAreKept'
  <2>1. \A x \in Requests : req[x].op = "route" => req[x].flow \in Requests
    BY FlowOf
  <2>2. QED
    BY <2>1, <1>1, <1>3, <1>4, <1>6, FlowsBegan DEF Inv, AsksAreKept
<1>11. StatesAreStored'
  BY <1>1, <1>2, <1>3, <1>4 DEF Inv, StatesAreStored
<1>12. SavedStateIsFound'
  BY <1>1, <1>2, <1>3, FlowOf DEF Inv, SavedStateIsFound
<1>13. QED
  BY <1>7, <1>8, <1>9, <1>10, <1>11, <1>12 DEF Inv

LEMMA InvStep ==
  ASSUME TypeOK, Inv, [Next]_vars
  PROVE  Inv'
<1>1. ASSUME NEW r \in Requests, StartRefused(r) PROVE Inv'
  <2> DEFINE q == [Idle EXCEPT !.op = "authorize", !.pc = "done", !.out = "refused"]
  <2>1. q \in RequestRecord /\ Begun(r, q)
    BY DEF Idle, RequestRecord, Begun
  <2>2. req[r].pc = "idle" /\ Becomes(r, q) /\ NoFlowIsWritten /\ UNCHANGED codes
    BY <1>1 DEF StartRefused, Answer, NoFlowIsWritten
  <2>3. QED
    BY <2>1, <2>2, BeginStep
<1>2. ASSUME NEW r \in Requests, NEW a \in Ask, StartAuthorize(r, a) PROVE Inv'
  BY <1>2, StartStep
<1>3. ASSUME NEW r \in Requests, NEW f \in Requests, CallbackReplayed(r, f) PROVE Inv'
  <2> DEFINE q == [Idle EXCEPT !.op = "callback", !.flow = f, !.pc = "done", !.out = "replay"]
  <2>1. flows'[f] = None
    BY <1>3 DEF CallbackReplayed, Take, TypeOK
  <2>2. q \in RequestRecord /\ Begun(r, q)
    BY <1>3, <2>1 DEF Idle, RequestRecord, Begun, CallbackReplayed
  <2>3. req[r].pc = "idle" /\ Becomes(r, q) /\ NoFlowIsWritten /\ UNCHANGED codes
    BY <1>3, Deletions DEF CallbackReplayed, Answer
  <2>4. QED
    BY <2>2, <2>3, BeginStep
<1>4. ASSUME NEW r \in Requests, NEW f \in Requests, NEW host \in Hosts,
             NEW m \in Methods, CallbackConsume(r, f, host, m)
      PROVE  Inv'
  <2> DEFINE begun == [Idle EXCEPT !.op = "callback", !.flow = f, !.seen = flows[f].state]
             refused == [begun EXCEPT !.pc = "done", !.out = "refused"]
             handled == [begun EXCEPT !.pc = "handling", !.ask = flows[f].ask,
                           !.by = [tenant |-> flows[f].ask.tenant,
                                   method |-> flows[f].ask.method]]
  <2>1. /\ flows[f] # None /\ flows'[f] = None /\ Surfaced(f)
        /\ req[r].pc = "idle" /\ NoFlowIsWritten /\ UNCHANGED codes
    BY <1>4, Deletions DEF CallbackConsume, Take, TypeOK, Live
  <2>2. /\ flows[f].ask \in Ask
        /\ flows[f].state \in Requests \cup {None}
        /\ HandlerOf(flows[f].ask) \in Handler
    BY <2>1, RowType DEF HandlerOf
  <2>3. refused \in RequestRecord /\ Begun(r, refused)
    BY <2>1, <2>2 DEF Idle, RequestRecord, Begun
  <2>4. handled \in RequestRecord /\ Begun(r, handled)
    BY <2>1, <2>2, NoneIsNoRecord DEF Idle, RequestRecord, Begun, HandlerOf
  <2>5. Becomes(r, refused) \/ Becomes(r, handled)
    BY <1>4 DEF CallbackConsume, Answer
  <2>6. QED
    BY <2>1, <2>3, <2>4, <2>5, BeginStep
<1>5. ASSUME NEW r \in Requests, NEW h \in Handler, CallbackUnsolicited(r, h) PROVE Inv'
  <2> DEFINE refused == [Idle EXCEPT !.op = "unsolicited", !.pc = "done", !.out = "refused"]
             handled == [Idle EXCEPT !.pc = "handling", !.op = "unsolicited", !.by = h]
  <2>1. refused \in RequestRecord /\ Begun(r, refused)
    BY DEF Idle, RequestRecord, Begun
  <2>2. handled \in RequestRecord /\ Begun(r, handled)
    BY NoneIsNoRecord DEF Idle, RequestRecord, Begun
  <2>3. /\ req[r].pc = "idle" /\ NoFlowIsWritten /\ UNCHANGED codes
        /\ Becomes(r, refused) \/ Becomes(r, handled)
    BY <1>5 DEF CallbackUnsolicited, Answer, NoFlowIsWritten
  <2>4. QED
    BY <2>1, <2>2, <2>3, BeginStep
<1>6. ASSUME NEW r \in Requests, NEW f \in Requests, NEW h \in Handler, RouteRead(r, f, h)
      PROVE  Inv'
  <2> DEFINE begun == [Idle EXCEPT !.op = "route", !.flow = f]
             refused == [begun EXCEPT !.pc = "done", !.out = "refused"]
             handled == [begun EXCEPT !.pc = "handling", !.by = h, !.seen = flows[f].state]
  <2>1. /\ Surfaced(f) /\ req[r].pc = "idle"
        /\ NoFlowIsWritten /\ UNCHANGED codes
    BY <1>6, Deletions DEF RouteRead
  <2>2. refused \in RequestRecord /\ Begun(r, refused)
    BY <2>1 DEF Idle, RequestRecord, Begun
  <2>3. ASSUME flows[f] # None, OwnedBy(flows[f], h)
        PROVE  handled \in RequestRecord /\ Begun(r, handled)
    <3>1. flows[f].state \in Requests \cup {None} /\ h = HandlerOf(flows[f].ask)
      BY <2>3, RowType DEF OwnedBy, HandlerOf, Handler
    <3>2. QED
      BY <2>1, <2>3, <3>1, NoneIsNoRecord DEF Idle, RequestRecord, Begun
  <2>4. Becomes(r, refused) \/ (Becomes(r, handled) /\ flows[f] # None /\ OwnedBy(flows[f], h))
    BY <1>6 DEF RouteRead, Answer, Live
  <2>5. QED
    BY <2>1, <2>2, <2>3, <2>4, BeginStep
<1>7. ASSUME NEW r \in Requests,
             HandlerFails(r) \/ HandlerDenies(r) \/ HandlerChallenges(r)
               \/ Surface(r) \/ IssueFails(r)
      PROVE  Inv'
  BY <1>7, QuietStep
  DEF HandlerFails, HandlerDenies, HandlerChallenges, Surface, IssueFails, NoFlowIsWritten
<1>8. ASSUME NEW r \in Requests, HandlerSaves(r) PROVE Inv'
  BY <1>8, SaveStep
<1>9. ASSUME NEW r \in Requests, CallbackSucceeds(r) PROVE Inv'
  <2>1. Holds(r) /\ req[r].flow # None
    BY <1>9, FlowOf, FlowsAssumption DEF CallbackSucceeds, Holds
  <2>2. req[r].ask \in Ask /\ flows[req[r].flow] = None /\ req[r].by = HandlerOf(req[r].ask)
    BY <2>1, HoldersSpend DEF Inv, AsksAreKept, FlowsAreSpentOnce, TypeOK, RequestRecord
  <2>3. [req[r] EXCEPT !.pc = "minting"] = [req[r] EXCEPT !.pc = "minting", !.ask = req[r].ask]
    BY DEF TypeOK, RequestRecord
  <2>4. QED
    BY <1>9, <2>1, <2>2, <2>3, MintStep DEF CallbackSucceeds, NoFlowIsWritten
<1>10. ASSUME NEW r \in Requests, FlowSucceeds(r) PROVE Inv'
  <2> DEFINE f == req[r].flow
  <2>1. NoFlowIsWritten /\ UNCHANGED codes /\ req[r].pc = "handling"
    BY <1>10, Deletions DEF FlowSucceeds
  <2>2. CASE Live(f) /\ Becomes(r, [req[r] EXCEPT !.pc = "minting", !.ask = flows[f].ask])
    <3>1. f \in Requests /\ Started(f)
      BY <1>10, FlowOf, FlowsBegan DEF FlowSucceeds, Inv, StagesOK, StageOK, Started
    <3>2. flows[f] # None /\ flows'[f] = None /\ flows[f].ask \in Ask
      BY <1>10, <2>2, <3>1, RowType DEF FlowSucceeds, Live, Take, TypeOK
    <3>3. flows[f].ask = req[f].ask
      BY <3>1, <3>2 DEF Inv, FlowsWereStarted
    <3>4. req[r].by = HandlerOf(flows[f].ask)
      BY <1>10, <3>1, <3>3 DEF FlowSucceeds, Inv, AsksAreKept, StagesOK, StageOK, Started
    <3>5. QED
      BY <2>1, <2>2, <3>2, <3>4, MintStep
  <2>3. CASE Answer(r, req[r], "refused")
    BY <2>1, <2>3, QuietStep
  <2>4. QED
    BY <1>10, <2>2, <2>3 DEF FlowSucceeds
<1>11. ASSUME NEW r \in Requests, NEW c \in Clients, UnsolicitedSucceeds(r, c) PROVE Inv'
  <2> DEFINE a == [tenant |-> req[r].by.tenant, client |-> c, method |-> req[r].by.method]
  <2>1. /\ NoFlowIsWritten /\ UNCHANGED codes
        /\ req[r].pc = "handling" /\ req[r].op = "unsolicited"
    BY <1>11 DEF UnsolicitedSucceeds, NoFlowIsWritten
  <2>2. req[r].by \in Handler /\ req[r].flow = None
    BY <2>1 DEF Inv, StagesOK, StageOK, TypeOK, RequestRecord
  <2>3. a \in Ask /\ req[r].by = HandlerOf(a)
    BY <2>2 DEF Ask, Handler, HandlerOf
  <2>4. QED
    BY <1>11, <2>1, <2>2, <2>3, MintStep, QuietStep DEF UnsolicitedSucceeds
<1>12. ASSUME NEW r \in Requests, IssueCode(r) PROVE Inv'
  BY <1>12, IssueStep
<1>13. CASE Tick \/ UNCHANGED vars
  BY <1>13 DEF Tick, vars, Inv, StagesOK, StageOK, FlowsWereStarted, FlowsAreSpentOnce,
    AsksAreKept, StatesAreStored, SavedStateIsFound, Started, Surfaced, Holds, Spends
<1>14. QED
  BY <1>1, <1>2, <1>3, <1>4, <1>5, <1>6, <1>7, <1>8, <1>9, <1>10, <1>11, <1>12, <1>13
  DEF Next, Begin, Continue

----------------------------------------------------------------------------
(* The types and the bookkeeping of requests, flows and codes hold in any  *)
(* interleaving of authorize requests, callbacks and method routes.        *)
THEOREM Invariance == Spec => [](TypeOK /\ Inv)
<1>1. Init => TypeOK /\ Inv
  <2> SUFFICES ASSUME Init PROVE TypeOK /\ Inv
    OBVIOUS
  <2>1. TypeOK
    BY IdleType DEF Init, TypeOK
  <2>2. \A r \in Requests : req[r] = Idle /\ flows[r] = None /\ codes[r] = None
    BY DEF Init
  <2>3. Inv
    BY <2>2 DEF Inv, StagesOK, StageOK, FlowsWereStarted, FlowsAreSpentOnce,
      AsksAreKept, StatesAreStored, SavedStateIsFound, Started, Holds, Spends, Idle
  <2>4. QED
    BY <2>1, <2>3
<1>2. TypeOK /\ Inv /\ [Next]_vars => (TypeOK /\ Inv)'
  BY TypeStep, InvStep DEF Inv
<1>3. QED
  BY <1>1, <1>2, PTL DEF Spec

(* A flow is spent once, by whichever callback, inline success or form post *)
(* comes first, even if nothing comes of it.                               *)
THEOREM FlowsAreSpent == Spec => []FlowsAreSpentOnce
<1>1. Inv => FlowsAreSpentOnce
  BY DEF Inv
<1>2. QED
  BY <1>1, Invariance, PTL

(* One login, one code, for any number of callbacks and form posts that    *)
(* race for the flow.                                                      *)
THEOREM OneLoginOneCode == Spec => []OneCodePerFlow
<1>1. Inv => OneCodePerFlow
  BY DEF Inv, OneCodePerFlow, FlowsAreSpentOnce, Spends
<1>2. QED
  BY <1>1, Invariance, PTL

(* A code carries what /authorize was asked for, and the method that was   *)
(* asked for vouched for the user.                                         *)
THEOREM CodesMeanTheAsk == Spec => []CodesAreVouchedFor
<1>1. Inv => CodesAreVouchedFor
  BY DEF Inv, CodesAreVouchedFor, AsksAreKept, Holds, HandlerOf
<1>2. QED
  BY <1>1, Invariance, PTL

(* Whoever comes back for a challenge that saved a state finds one.        *)
THEOREM SavedStates == Spec => []SavedStateIsFound
<1>1. Inv => SavedStateIsFound
  BY DEF Inv
<1>2. QED
  BY <1>1, Invariance, PTL

----------------------------------------------------------------------------
(* What a step can do to the flow, the record and the code of a request.   *)

(* A request stays what it began as. *)
LEMMA KeptStep ==
  ASSUME TypeOK, Inv, [Next]_vars, NEW x \in Requests, req[x].pc # "idle"
  PROVE  req'[x].op = req[x].op /\ req'[x].flow = req[x].flow
<1>1. req[x] \in RequestRecord
  BY DEF TypeOK
<1>2. ASSUME NEW r \in Requests, Begin(r)
      PROVE  req'[x] = req[x]
  BY <1>2 DEF TypeOK, Begin, StartRefused, StartAuthorize, CallbackReplayed, CallbackConsume,
    CallbackUnsolicited, RouteRead, Becomes, Answer
<1>3. ASSUME NEW r \in Requests, Continue(r)
      PROVE  req'[x].op = req[x].op /\ req'[x].flow = req[x].flow
  <2>1. ASSUME NEW result, Answer(r, req[r], result)
        PROVE  req'[x].op = req[x].op /\ req'[x].flow = req[x].flow
    BY <1>1, <2>1 DEF TypeOK, RequestRecord, Becomes, Answer
  <2>2. ASSUME NEW a, Becomes(r, [req[r] EXCEPT !.pc = "minting", !.ask = a])
        PROVE  req'[x].op = req[x].op /\ req'[x].flow = req[x].flow
    BY <1>1, <2>2 DEF TypeOK, RequestRecord, Becomes
  <2>3. ASSUME HandlerSaves(r) \/ CallbackSucceeds(r)
        PROVE  req'[x].op = req[x].op /\ req'[x].flow = req[x].flow
    BY <1>1, <2>1, <2>3 DEF TypeOK, RequestRecord, Becomes, HandlerSaves, CallbackSucceeds
  <2>4. ASSUME FlowSucceeds(r) \/ \E c \in Clients : UnsolicitedSucceeds(r, c)
        PROVE  req'[x].op = req[x].op /\ req'[x].flow = req[x].flow
    BY <2>1, <2>2, <2>4 DEF FlowSucceeds, UnsolicitedSucceeds
  <2>5. QED
    BY <1>3, <2>1, <2>3, <2>4 DEF Continue, HandlerFails, HandlerDenies, HandlerChallenges,
      Surface, IssueCode, IssueFails
<1>4. CASE Tick \/ UNCHANGED vars
  BY <1>4 DEF Tick, vars
<1>5. QED
  BY <1>2, <1>3, <1>4 DEF Next

(* A flow that began is never live again once it is not. *)
LEMMA NoRevival ==
  ASSUME TypeOK, Inv, [Next]_vars, NEW f \in Requests, Started(f), ~Live(f)
  PROVE  ~Live(f)'
<1>1. now' \in {now, now + 1}
  BY DEF Next, Tick, vars, Begin, StartRefused, StartAuthorize, CallbackReplayed,
    CallbackConsume, CallbackUnsolicited, RouteRead, Continue, HandlerFails, HandlerDenies,
    HandlerChallenges, HandlerSaves, Surface, CallbackSucceeds, FlowSucceeds,
    UnsolicitedSucceeds, IssueCode, IssueFails
<1>2. req[f].pc # "idle"
  BY DEF Started, Idle, Inv, StagesOK, StageOK
<1>3. flows'[f] \in {flows[f], None}
  BY <1>2 DEF TypeOK, Next, Tick, vars, Begin, StartRefused, StartAuthorize, CallbackReplayed,
    CallbackConsume, CallbackUnsolicited, RouteRead, Continue, HandlerFails, HandlerDenies,
    HandlerChallenges, HandlerSaves, Surface, CallbackSucceeds, FlowSucceeds,
    UnsolicitedSucceeds, IssueCode, IssueFails, Take, Sweep
<1>4. flows[f] # None => flows[f].expiresAt \in Nat
  BY DEF TypeOK, StoredFlow
<1>5. now \in Nat /\ now' \in Nat
  BY TypeStep DEF TypeOK, Inv
<1>6. QED
  BY <1>1, <1>3, <1>4, <1>5 DEF Live

(* No request comes to hold a flow that is not live. *)
LEMMA NoLateHolder ==
  ASSUME TypeOK, Inv, [Next]_vars, NEW f \in Requests, ~Live(f),
         NEW x \in Requests, Minting(x, f)'
  PROVE  Minting(x, f)
<1>1. req[x] \in RequestRecord
  BY DEF TypeOK
<1>2. CASE req'[x] = req[x]
  BY <1>2 DEF Minting
<1>3. ASSUME NEW r \in Requests, Begin(r), req'[x] # req[x]
      PROVE  FALSE
  <2>1. x = r
    BY <1>3 DEF TypeOK, Begin, StartRefused, StartAuthorize, CallbackReplayed,
      CallbackConsume, CallbackUnsolicited, RouteRead, Becomes, Answer
  <2>2. ASSUME NEW g \in Requests, NEW host \in Hosts, NEW m \in Methods,
               CallbackConsume(x, g, host, m)
        PROVE  FALSE
    BY <2>2 DEF TypeOK, CallbackConsume, Becomes, Answer, Minting, Idle
  <2>3. \/ req'[x].pc = "done"
        \/ req'[x].op # "callback" /\ req'[x].pc # "minting"
    BY <1>3, <2>1, <2>2 DEF TypeOK, Begin, StartRefused, StartAuthorize, CallbackReplayed,
      CallbackUnsolicited, RouteRead, Becomes, Answer, Idle
  <2>4. QED
    BY <2>3 DEF Minting
<1>4. ASSUME NEW r \in Requests, Continue(r), req'[x] # req[x]
      PROVE  Minting(x, f)
  <2>1. x = r
    BY <1>4 DEF TypeOK, Continue, HandlerFails, HandlerDenies, HandlerChallenges, HandlerSaves,
      Surface, CallbackSucceeds, FlowSucceeds, UnsolicitedSucceeds, IssueCode, IssueFails,
      Becomes, Answer
  <2>2. req[x].pc # "idle"
    BY <1>4, <2>1 DEF Continue, HandlerFails, HandlerDenies, HandlerChallenges, HandlerSaves,
      Surface, CallbackSucceeds, FlowSucceeds, UnsolicitedSucceeds, IssueCode, IssueFails
  <2>3. req[x].flow = f /\ req'[x].op = req[x].op
    BY <2>2, KeptStep DEF Minting
  <2>4. ASSUME NEW result, Answer(x, req[x], result)
        PROVE  FALSE
    BY <1>1, <2>4 DEF TypeOK, RequestRecord, Answer, Becomes, Minting
  <2>5. ASSUME HandlerSaves(x)
        PROVE  FALSE
    BY <1>1, <2>4, <2>5 DEF TypeOK, RequestRecord, HandlerSaves, Becomes, Minting
  <2>6. ASSUME NEW c \in Clients, UnsolicitedSucceeds(x, c)
        PROVE  FALSE
    BY <2>3, <2>6, FlowsAssumption DEF UnsolicitedSucceeds, Inv, StagesOK, StageOK
  <2>7. CASE CallbackSucceeds(x)
    BY <2>3, <2>7 DEF CallbackSucceeds, Minting
  <2>8. ASSUME FlowSucceeds(x)
        PROVE  FALSE
    BY <2>3, <2>4, <2>8 DEF FlowSucceeds
  <2>9. QED
    BY <1>4, <2>1, <2>4, <2>5, <2>6, <2>7, <2>8 DEF Continue, HandlerFails, HandlerDenies,
      HandlerChallenges, Surface, IssueCode, IssueFails
<1>5. CASE Tick \/ UNCHANGED vars
  BY <1>2, <1>5 DEF Tick, vars
<1>6. QED
  BY <1>2, <1>3, <1>4, <1>5 DEF Next

(* Only a request that is minting gets a code. *)
LEMMA CodeStep ==
  ASSUME TypeOK, [Next]_vars, NEW x \in Requests, codes'[x] # codes[x]
  PROVE  IssueCode(x)
<1>1. ASSUME NEW r \in Requests, IssueCode(r)
      PROVE  x = r
  BY <1>1 DEF TypeOK, IssueCode
<1>2. QED
  BY <1>1 DEF Next, Tick, vars, Begin, StartRefused, StartAuthorize, CallbackReplayed,
    CallbackConsume, CallbackUnsolicited, RouteRead, Continue, HandlerFails, HandlerDenies,
    HandlerChallenges, HandlerSaves, Surface, CallbackSucceeds, FlowSucceeds,
    UnsolicitedSucceeds, IssueFails

(* The codes of a flow that began are those of requests that held it. *)
LEMMA CodesOfStep ==
  ASSUME TypeOK, Inv, [Next]_vars, NEW f \in Requests,
         \A x \in Requests : IssueCode(x) => req[x].flow # f
  PROVE  CodesOf(f)' = CodesOf(f)
<1>1. ASSUME NEW x \in Requests
      PROVE  req'[x].flow = f /\ codes'[x] # None <=> req[x].flow = f /\ codes[x] # None
  <2>1. CASE codes'[x] = codes[x] /\ req[x].pc # "idle"
    BY <2>1, KeptStep
  <2>2. CASE codes'[x] = codes[x] /\ req[x].pc = "idle"
    BY <2>2 DEF Inv, StagesOK, StageOK
  <2>3. CASE codes'[x] # codes[x]
    <3>1. IssueCode(x) /\ req[x].pc # "idle"
      BY <2>3, CodeStep DEF IssueCode
    <3>2. req[x].flow # f /\ req'[x].flow = req[x].flow
      BY <3>1, KeptStep
    <3>3. QED
      BY <3>2
  <2>4. QED
    BY <2>1, <2>2, <2>3
<1>2. QED
  BY <1>1 DEF CodesOf

(* A flow that is consumed or past its deadline is over for good: nothing  *)
(* revives it and no code is issued for it any more.                       *)
THEOREM FinishedFlows == Spec => FinishedFlowsStayFinished
<1>1. ASSUME TypeOK, Inv, [Next]_vars, NEW f \in Requests, Over(f)
      PROVE  Over(f)' /\ CodesOf(f)' = CodesOf(f)
  <2>1. Started(f) /\ req[f].pc # "idle"
    BY <1>1 DEF Over, Started, Inv, StagesOK, StageOK, Idle
  <2>2. Started(f)'
    BY <1>1, <2>1, KeptStep DEF Started
  <2>3. ~Live(f)'
    BY <1>1, <2>1, NoRevival DEF Over
  <2>4. \A x \in Requests : ~Minting(x, f)'
    BY <1>1, NoLateHolder DEF Over
  <2>5. CodesOf(f)' = CodesOf(f)
    BY <1>1, CodesOfStep DEF Over, Minting, IssueCode
  <2>6. QED
    BY <2>2, <2>3, <2>4, <2>5 DEF Over, Started
<1>2. TypeOK /\ Inv /\ [Next]_vars =>
        [\A f \in Requests : Over(f) => Over(f)' /\ CodesOf(f)' = CodesOf(f)]_vars
  BY <1>1
<1>3. QED
  BY <1>2, Invariance, PTL DEF Spec, FinishedFlowsStayFinished

----------------------------------------------------------------------------
(* The refinement.  A flow is spent when its row goes, whether a callback   *)
(* consumed it or its deadline passed; a code is born of a spent flow.      *)
Ticket == FlowTicket \cup CodeTicket

LEMMA TicketKinds ==
  /\ \A f \in Requests :
       /\ <<f, "flow">> \in FlowTicket /\ <<f, "flow">> \notin CodeTicket
       /\ <<f, "code">> \in CodeTicket /\ <<f, "code">> \notin FlowTicket
  /\ \A t \in Ticket :
       \/ t \in FlowTicket /\ t[1] \in Requests /\ t = <<t[1], "flow">>
       \/ t \notin FlowTicket /\ t[1] \in Requests /\ t = <<t[1], "code">>
  BY DEF Ticket, FlowTicket, CodeTicket

(* The steps of OneShot, ticket by ticket. *)
LEMMA NoTicketMoves ==
  ASSUME \A t \in Ticket : /\ TicketStatus(t)' = TicketStatus(t)
                           /\ TicketHeir(t)' = TicketHeir(t)
  PROVE  [Abstract!Next]_Abstract!vars
  BY DEF Abstract!vars, Ticket

LEMMA SpendTicket ==
  ASSUME NEW g \in Ticket,
         TicketStatus(g) = "live" /\ TicketStatus(g)' = "spent",
         \A t \in Ticket \ {g} : TicketStatus(t)' = TicketStatus(t),
         \A t \in Ticket : TicketHeir(t)' = TicketHeir(t)
  PROVE  [Abstract!Next]_Abstract!vars
<1>1. Abstract!Spend(g)
  BY DEF Abstract!Spend, Ticket
<1>2. QED
  BY <1>1 DEF Abstract!Next, Ticket

LEMMA IssueTicket ==
  ASSUME NEW g \in FlowTicket,
         TicketStatus(g) = "unborn" /\ TicketStatus(g)' = "live",
         \A t \in Ticket \ {g} : TicketStatus(t)' = TicketStatus(t),
         \A t \in Ticket : TicketHeir(t)' = TicketHeir(t)
  PROVE  [Abstract!Next]_Abstract!vars
<1>1. Abstract!Issue(g)
  BY DEF Abstract!Issue, Ticket
<1>2. QED
  BY <1>1 DEF Abstract!Next

LEMMA BearTicket ==
  ASSUME NEW g \in FlowTicket, NEW u \in Ticket \ FlowTicket,
         TicketStatus(g) = "spent", TicketHeir(g) = None,
         TicketStatus(u) = "unborn" /\ TicketStatus(u)' = "live",
         TicketHeir(g)' = u,
         \A t \in Ticket \ {u} : TicketStatus(t)' = TicketStatus(t),
         \A t \in Ticket \ {g} : TicketHeir(t)' = TicketHeir(t)
  PROVE  [Abstract!Next]_Abstract!vars
<1>1. Abstract!Bear(g, u)
  BY DEF Abstract!Bear, Ticket
<1>2. QED
  BY <1>1 DEF Abstract!Next, Ticket

(* How the tickets of one request move. *)
LEMMA StartedStep ==
  ASSUME TypeOK, Inv, [Next]_vars, NEW x \in Requests,
         ~ \E a \in Ask : StartAuthorize(x, a)
  PROVE  Started(x)' <=> Started(x)
<1>1. CASE req[x].pc # "idle"
  BY <1>1, KeptStep DEF Started
<1>2. CASE req[x].pc = "idle"
  <2>1. req[x].op = "none"
    BY <1>2 DEF Inv, StagesOK, StageOK, Idle
  <2>2. CASE req'[x] = req[x]
    BY <2>2 DEF Started
  <2>3. CASE req'[x] # req[x]
    <3>1. ASSUME NEW r \in Requests, Begin(r)
          PROVE  Begin(x)
      <4>1. x = r
        BY <2>3, <3>1 DEF TypeOK, Begin, StartRefused, StartAuthorize, CallbackReplayed,
          CallbackConsume, CallbackUnsolicited, RouteRead, Becomes, Answer
      <4>2. QED
        BY <3>1, <4>1
    <3>2. ASSUME NEW r \in Requests, Continue(r)
          PROVE  FALSE
      <4>1. x = r
        BY <2>3, <3>2 DEF TypeOK, Continue, HandlerFails, HandlerDenies, HandlerChallenges,
          HandlerSaves, Surface, CallbackSucceeds, FlowSucceeds, UnsolicitedSucceeds,
          IssueCode, IssueFails, Becomes, Answer
      <4>2. QED
        BY <1>2, <3>2, <4>1 DEF Continue, HandlerFails, HandlerDenies, HandlerChallenges,
          HandlerSaves, Surface, CallbackSucceeds, FlowSucceeds, UnsolicitedSucceeds,
          IssueCode, IssueFails
    <3>3. Begin(x)
      BY <2>3, <3>1, <3>2 DEF Next, Tick, vars
    <3>4. req'[x].op # "authorize" \/ req'[x].flow = None
      <4> DEFINE Apart(q) == q.op # "authorize" \/ q.flow = None
      <4>1. CASE StartRefused(x)
        BY <4>1 DEF TypeOK, StartRefused, Becomes, Answer, Idle
      <4>2. CASE \E f \in Requests : CallbackReplayed(x, f)
        BY <4>2 DEF TypeOK, CallbackReplayed, Becomes, Answer, Idle
      <4>3. ASSUME NEW f \in Requests, NEW host \in Hosts, NEW m \in Methods,
                   CallbackConsume(x, f, host, m)
            PROVE  Apart(req'[x])
        <5> DEFINE begun == [Idle EXCEPT !.op = "callback", !.flow = f, !.seen = flows[f].state]
                   handled == [begun EXCEPT !.pc = "handling", !.ask = flows[f].ask,
                                 !.by = [tenant |-> flows[f].ask.tenant,
                                         method |-> flows[f].ask.method]]
                   refused == [begun EXCEPT !.pc = "done", !.out = "refused"]
        <5>1. Apart(handled) /\ Apart(refused)
          BY DEF Idle
        <5>2. req'[x] \in {handled, refused}
          BY <4>3 DEF TypeOK, CallbackConsume, Becomes, Answer
        <5>3. QED
          BY <5>1, <5>2
      <4>4. ASSUME NEW h \in Handler, CallbackUnsolicited(x, h)
            PROVE  Apart(req'[x])
        BY <4>4 DEF TypeOK, CallbackUnsolicited, Becomes, Answer, Idle
      <4>5. ASSUME NEW f \in Requests, NEW h \in Handler, RouteRead(x, f, h)
            PROVE  Apart(req'[x])
        <5> DEFINE begun == [Idle EXCEPT !.op = "route", !.flow = f]
                   handled == [begun EXCEPT !.pc = "handling", !.by = h, !.seen = flows[f].state]
                   refused == [begun EXCEPT !.pc = "done", !.out = "refused"]
        <5>1. Apart(handled) /\ Apart(refused)
          BY DEF Idle
        <5>2. req'[x] \in {handled, refused}
          BY <4>5 DEF TypeOK, RouteRead, Becomes, Answer
        <5>3. QED
          BY <5>1, <5>2
      <4>6. QED
        BY <3>3, <4>1, <4>2, <4>3, <4>4, <4>5 DEF Begin
    <3>5. QED
      BY <2>1, <3>4, FlowsAssumption DEF Started
  <2>4. QED
    BY <2>2, <2>3
<1>3. QED
  BY <1>1, <1>2

LEMMA CodeTicketStep ==
  ASSUME TypeOK, Inv, [Next]_vars, NEW x \in Requests,
         IssueCode(x) => req[x].flow = None
  PROVE  TicketStatus(<<x, "code">>)' = TicketStatus(<<x, "code">>)
<1>1. codes'[x] # None /\ req'[x].flow # None <=> codes[x] # None /\ req[x].flow # None
  <2>1. CASE codes'[x] = codes[x] /\ req[x].pc # "idle"
    BY <2>1, KeptStep
  <2>2. CASE codes'[x] = codes[x] /\ req[x].pc = "idle"
    BY <2>2 DEF Inv, StagesOK, StageOK
  <2>3. CASE codes'[x] # codes[x]
    BY <2>3, CodeStep, KeptStep DEF IssueCode
  <2>4. QED
    BY <2>1, <2>2, <2>3
<1>2. QED
  BY <1>1, TicketKinds DEF TicketStatus

LEMMA FlowTicketStep ==
  ASSUME NEW x \in Requests, Started(x)' <=> Started(x)
  PROVE  /\ (flows'[x] = None <=> flows[x] = None)
              => TicketStatus(<<x, "flow">>)' = TicketStatus(<<x, "flow">>)
         /\ flows[x] # None /\ flows'[x] = None /\ Started(x)
              => /\ TicketStatus(<<x, "flow">>) = "live"
                 /\ TicketStatus(<<x, "flow">>)' = "spent"
  BY TicketKinds DEF TicketStatus, FlowStatus, Started

(* At most one row goes at a step, and none comes that was not asked for. *)
LEMMA RowStep ==
  ASSUME TypeOK, Inv, [Next]_vars, ~ \E r \in Requests, a \in Ask : StartAuthorize(r, a)
  PROVE  \/ \A x \in Requests : flows'[x] = None <=> flows[x] = None
         \/ \E g \in Requests :
              /\ flows[g] # None /\ flows'[g] = None
              /\ \A x \in Requests \ {g} : flows'[x] = flows[x]
<1> DEFINE Same == \A x \in Requests : flows'[x] = None <=> flows[x] = None
           Goes == \E g \in Requests :
                     /\ flows[g] # None /\ flows'[g] = None
                     /\ \A x \in Requests \ {g} : flows'[x] = flows[x]
<1>1. ASSUME NEW g, Take(g) \/ Sweep(g)
      PROVE  Same \/ Goes
  BY <1>1 DEF TypeOK, Take, Sweep
<1>2. ASSUME NEW r \in Requests, HandlerSaves(r)
      PROVE  Same \/ Goes
  <2> DEFINE f == req[r].flow
  <2>1. CASE Live(f) /\ f # None /\ flows' = [flows EXCEPT ![f].state = r]
    <3>1. f \in Requests
      BY <2>1, FlowsBegan
    <3>2. flows[f] # None /\ flows[f] \in StoredFlow
      BY <2>1, <3>1 DEF Live, TypeOK
    <3>3. [flows[f] EXCEPT !.state = r] \in StoredFlow
      BY <3>2 DEF StoredFlow
    <3>4. flows'[f] # None
      BY <2>1, <3>1, <3>3, NoneIsNoRecord DEF TypeOK
    <3>5. \A x \in Requests \ {f} : flows'[x] = flows[x]
      BY <2>1 DEF TypeOK
    <3>6. QED
      BY <3>2, <3>4, <3>5
  <2>2. QED
    BY <1>1, <1>2, <2>1 DEF HandlerSaves
<1>3. QED
  BY <1>1, <1>2 DEF Next, Tick, vars, Begin, StartRefused, CallbackReplayed,
    CallbackConsume, CallbackUnsolicited, RouteRead, Continue, HandlerFails, HandlerDenies,
    HandlerChallenges, Surface, CallbackSucceeds, FlowSucceeds, UnsolicitedSucceeds,
    IssueCode, IssueFails

LEMMA HeirsStay ==
  ASSUME \A f \in Requests : CodesOf(f)' = CodesOf(f)
  PROVE  \A t \in Ticket : TicketHeir(t)' = TicketHeir(t)
  BY TicketKinds DEF TicketHeir

(* A flow is issued by StartAuthorize. *)
LEMMA IssueRefines ==
  ASSUME TypeOK, Inv, [Next]_vars, NEW r \in Requests, NEW a \in Ask, StartAuthorize(r, a)
  PROVE  [Abstract!Next]_Abstract!vars
<1>1. /\ flows'[r] # None /\ Started(r)' /\ ~Started(r)
      /\ \A x \in Requests \ {r} : /\ flows'[x] = flows[x]
                                   /\ Started(x)' <=> Started(x)
  <2>1. flows'[r] # None
    <3>1. [ask |-> a, state |-> None, expiresAt |-> now + FlowTtl] \in StoredFlow
      BY FlowsAssumption DEF StoredFlow, TypeOK
    <3>2. QED
      BY <3>1, NoneIsNoRecord DEF StartAuthorize, TypeOK
  <2>2. Started(r)' /\ ~Started(r)
    BY FlowsAssumption DEF StartAuthorize, Becomes, TypeOK, Started, Idle, Inv, StagesOK, StageOK
  <2>3. QED
    BY <2>1, <2>2 DEF StartAuthorize, Becomes, TypeOK, Started
<1>2. \A x \in Requests : ~IssueCode(x)
  BY <1>1 DEF IssueCode, Inv, FlowsWereStarted
<1>3. \A t \in Ticket : TicketHeir(t)' = TicketHeir(t)
  BY <1>2, CodesOfStep, HeirsStay
<1>4. \A t \in Ticket \ {<<r, "flow">>} : TicketStatus(t)' = TicketStatus(t)
  BY <1>1, <1>2, TicketKinds, CodeTicketStep, FlowTicketStep
<1>5. TicketStatus(<<r, "flow">>) = "unborn" /\ TicketStatus(<<r, "flow">>)' = "live"
  BY <1>1, TicketKinds DEF TicketStatus, FlowStatus, Started
<1>6. QED
  BY <1>3, <1>4, <1>5, TicketKinds, IssueTicket

(* A code is born of the flow its request took. *)
LEMMA BearRefines ==
  ASSUME TypeOK, Inv, [Next]_vars, NEW r \in Requests, IssueCode(r),
         NEW f \in Requests, req[r].flow = f
  PROVE  [Abstract!Next]_Abstract!vars
<1>1. Started(f) /\ flows[f] = None /\ Holds(r)
  BY FlowsBegan, FlowsAssumption DEF IssueCode, Holds, Spends, Inv, FlowsAreSpentOnce
<1>2. req[r].ask # None /\ codes[r] = None
  BY <1>1 DEF Inv, AsksAreKept, StagesOK, StageOK, IssueCode
<1>3. /\ codes'[r] # None /\ flows' = flows /\ req'[r].flow = f
      /\ \A x \in Requests \ {r} : codes'[x] = codes[x] /\ req'[x] = req[x] /\ ~IssueCode(x)
  <2>1. req'[r].flow = f
    BY KeptStep DEF IssueCode
  <2>2. ASSUME NEW x \in Requests \ {r}, IssueCode(x)
        PROVE  FALSE
    <3>1. codes'[r] = codes[r]
      BY <2>2 DEF IssueCode, TypeOK
    <3>2. QED
      BY <3>1, <1>2 DEF IssueCode, TypeOK
  <2>3. QED
    BY <1>2, <2>1, <2>2 DEF IssueCode, TypeOK, Answer, Becomes
<1>4. CodesOf(f) = {}
  BY <1>1, <1>2, FlowsAssumption DEF CodesOf, Inv, FlowsAreSpentOnce, Spends, IssueCode
<1>5. CodesOf(f)' = {r}
  BY <1>3, <1>4 DEF CodesOf
<1>6. \A x \in Requests : Started(x)' <=> Started(x)
  BY <1>2, <1>3, StartedStep DEF StartAuthorize
<1>7. TicketStatus(<<f, "flow">>) = "spent" /\ TicketHeir(<<f, "flow">>) = None
  BY <1>1, <1>4, TicketKinds DEF TicketStatus, FlowStatus, Started, TicketHeir
<1>8. TicketStatus(<<r, "code">>) = "unborn" /\ TicketStatus(<<r, "code">>)' = "live"
  BY <1>2, <1>3, FlowsAssumption, TicketKinds DEF TicketStatus
<1>9. TicketHeir(<<f, "flow">>)' = <<r, "code">>
  <2>1. AnyOf(CodesOf(f))' = r
    BY <1>5 DEF AnyOf
  <2>2. QED
    BY <2>1, <1>5, TicketKinds DEF TicketHeir
<1>10. \A t \in Ticket \ {<<r, "code">>} : TicketStatus(t)' = TicketStatus(t)
  BY <1>3, <1>6, TicketKinds, CodeTicketStep, FlowTicketStep
<1>11. \A t \in Ticket \ {<<f, "flow">>} : TicketHeir(t)' = TicketHeir(t)
  <2>1. \A g \in Requests \ {f} : CodesOf(g)' = CodesOf(g)
    BY <1>3, CodesOfStep
  <2>2. QED
    BY <2>1, TicketKinds DEF TicketHeir
<1>12. QED
  BY <1>7, <1>8, <1>9, <1>10, <1>11, TicketKinds, BearTicket DEF Ticket

(* Every other step spends one flow or none. *)
LEMMA SpendRefines ==
  ASSUME TypeOK, Inv, [Next]_vars,
         ~ \E r \in Requests, a \in Ask : StartAuthorize(r, a),
         \A x \in Requests : IssueCode(x) => req[x].flow = None
  PROVE  [Abstract!Next]_Abstract!vars
<1>1. \A f \in Requests : CodesOf(f)' = CodesOf(f)
  BY CodesOfStep, FlowsAssumption
<1>2. \A t \in Ticket : TicketHeir(t)' = TicketHeir(t)
  BY <1>1, HeirsStay
<1>3. \A x \in Requests : Started(x)' <=> Started(x)
  BY StartedStep
<1>4. \A x \in Requests : TicketStatus(<<x, "code">>)' = TicketStatus(<<x, "code">>)
  BY CodeTicketStep
<1>5. CASE \A x \in Requests : flows'[x] = None <=> flows[x] = None
  <2>1. \A t \in Ticket : TicketStatus(t)' = TicketStatus(t)
    BY <1>3, <1>4, <1>5, TicketKinds, FlowTicketStep
  <2>2. QED
    BY <2>1, <1>2, NoTicketMoves
<1>6. ASSUME NEW g \in Requests, flows[g] # None, flows'[g] = None,
             \A x \in Requests \ {g} : flows'[x] = flows[x]
      PROVE  [Abstract!Next]_Abstract!vars
  <2>1. Started(g)
    BY <1>6 DEF Inv, FlowsWereStarted
  <2>2. TicketStatus(<<g, "flow">>) = "live" /\ TicketStatus(<<g, "flow">>)' = "spent"
    BY <1>3, <1>6, <2>1, FlowTicketStep
  <2>3. \A t \in Ticket \ {<<g, "flow">>} : TicketStatus(t)' = TicketStatus(t)
    BY <1>3, <1>4, <1>6, TicketKinds, FlowTicketStep
  <2>4. QED
    BY <2>2, <2>3, <1>2, TicketKinds, SpendTicket DEF Ticket
<1>7. QED
  BY <1>5, <1>6, RowStep

(* The login endpoints implement the one-shot credentials of OneShot: a    *)
(* flow is consumed once, and bears one code at most.                      *)
THEOREM FlowsAreOneShot == Spec => ImplementsOneShot
<1>1. Init => Abstract!Init
  <2> SUFFICES ASSUME Init PROVE Abstract!Init
    OBVIOUS
  <2>1. \A x \in Requests : req[x] = Idle /\ codes[x] = None
    BY DEF Init
  <2>2. \A x \in Requests : ~Started(x)
    <3>1. Idle.op = "none"
      BY DEF Idle
    <3>2. QED
      BY <2>1, <3>1 DEF Started
  <2>3. \A x \in Requests : CodesOf(x) = {}
    BY <2>1 DEF CodesOf
  <2>4. \A t \in Ticket : TicketStatus(t) = "unborn" /\ TicketHeir(t) = None
    BY <2>1, <2>2, <2>3, TicketKinds DEF TicketStatus, TicketHeir, FlowStatus, Started
  <2>5. QED
    BY <2>4 DEF Abstract!Init, Ticket
<1>2. TypeOK /\ Inv /\ [Next]_vars => [Abstract!Next]_Abstract!vars
  BY IssueRefines, BearRefines, SpendRefines, FlowOf
<1>3. QED
  BY <1>1, <1>2, Invariance, PTL DEF Spec, ImplementsOneShot, Abstract!Spec

============================================================================

----------------------------- MODULE FlowsProps -----------------------------
(***************************************************************************)
(* What Flows must guarantee.                                              *)
(***************************************************************************)
EXTENDS Flows

(* One login, one code: however the callbacks, the form posts and their    *)
(* repetitions interleave, a flow yields at most one code (consumeFlow).   *)
OneCodePerFlow ==
  \A q, r \in Requests :
    /\ codes[q] # None /\ codes[r] # None
    /\ req[q].flow # None /\ req[q].flow = req[r].flow
    => q = r

(* A request that spent the record of its flow: it mints or has minted     *)
(* from it, or is a callback that was not told of a replay.                *)
Spends(r) ==
  \/ codes[r] # None \/ req[r].pc = "minting"
  \/ req[r].op = "callback" /\ req[r].out # "replay"

(* A flow is spent once, by one request.  A callback spends it before the  *)
(* address, the handler or the minting can fail, so that a second callback *)
(* for it, the same form posted again, and a method route that succeeds    *)
(* late all find nothing, and no state saved or surfaced meanwhile puts    *)
(* the record back (callback.ts:132-170, method-route.ts, authorize.ts).   *)
FlowsAreSpentOnce ==
  \A r \in Requests :
    Spends(r) /\ req[r].flow # None =>
      /\ flows[req[r].flow] = None
      /\ \A q \in Requests : Spends(q) /\ req[q].flow = req[r].flow => q = r

(* A code is for what /authorize was asked: it carries the tenant, client  *)
(* and method of the ask, and it was that tenant's instance of that method *)
(* that vouched for the user, though instances of several tenants share    *)
(* one session store and may have the same id.                             *)
CodesAreVouchedFor ==
  \A r \in Requests :
    codes[r] # None =>
      /\ req[r].flow # None => codes[r] = req[req[r].flow].ask
      /\ req[r].by = [tenant |-> codes[r].tenant, method |-> codes[r].method]

(* A request that will mint for f holds the flow's only record.            *)
Minting(r, f) ==
  /\ req[r].flow = f
  /\ \/ req[r].pc = "minting"
     \/ req[r].pc = "handling" /\ req[r].op = "callback"

(* Nothing is left of the flow but handlers that read it before.           *)
Over(f) ==
  /\ req[f].op = "authorize" /\ req[f].flow = f
  /\ ~Live(f)
  /\ \A r \in Requests : ~Minting(r, f)

CodesOf(f) == {r \in Requests : req[r].flow = f /\ codes[r] # None}

(* Once a flow is consumed or past its deadline it is over for good: no    *)
(* late answer of a slow handler, repeated callback or write of a method's *)
(* state brings it back or has a code issued for it.                       *)
FinishedFlowsStayFinished ==
  [][\A f \in Requests : Over(f) => Over(f)' /\ CodesOf(f)' = CodesOf(f)]_vars

(* The promise of method-dispatch.ts: a challenge that needs the method's  *)
(* state is surfaced only when the state is durable, so whichever request  *)
(* comes back for the flow finds one.                                      *)
SavedStateIsFound ==
  \A r \in Requests :
    LET f == req[r].flow IN
    req[r].op \in {"callback", "route"} /\ req[r].by # None
      /\ req[f].out = "saved" => req[r].seen # None

----------------------------------------------------------------------------
(* Flows and the codes they yield, as the one-shot tickets of OneShot: the *)
(* code is the heir of its flow.  A flow that ran out counts as spent too.  *)
FlowTicket == Requests \X {"flow"}
CodeTicket == Requests \X {"code"}

FlowStatus(f) ==
  IF req[f].flow # f \/ req[f].op # "authorize" THEN "unborn"
  ELSE IF flows[f] # None THEN "live" ELSE "spent"

TicketStatus(t) ==
  IF t \in FlowTicket THEN FlowStatus(t[1])
  ELSE IF codes[t[1]] # None /\ req[t[1]].flow # None THEN "live" ELSE "unborn"

AnyOf(S) == CHOOSE r \in S : TRUE

TicketHeir(t) ==
  IF t \in FlowTicket /\ CodesOf(t[1]) # {}
  THEN <<AnyOf(CodesOf(t[1])), "code">>
  ELSE None

Abstract == INSTANCE OneShot WITH
  Ticket <- FlowTicket \cup CodeTicket,
  Root <- FlowTicket,
  status <- [t \in FlowTicket \cup CodeTicket |-> TicketStatus(t)],
  heir <- [t \in FlowTicket \cup CodeTicket |-> TicketHeir(t)]

(* The login endpoints implement the one-shot credentials of OneShot.      *)
ImplementsOneShot == Abstract!Spec
=============================================================================

------------------------------- MODULE Flows -------------------------------
(***************************************************************************)
(* From /authorize to an authorization code: startAuthorize,               *)
(* handleCallback (with tryIdpInitiated) and handleMethodRoute, running    *)
(* concurrently over the flows of adapters/memory/session-store.ts.        *)
(*                                                                         *)
(* A request is a process whose steps are its SessionStore and TokenStore  *)
(* calls, with the method's handler between them; everything the code does *)
(* between two awaits is folded into one step.  A method is any code that  *)
(* fulfils AuthMethod: its handler may answer success, challenge (asking   *)
(* for its state to be saved, or not), denied or error, or throw, whenever *)
(* it likes.                                                               *)
(*                                                                         *)
(* Abstractions.  A flow, its flowId, its nonce and its state envelope are *)
(* drawn and minted by one authorize request and stand for each other, so  *)
(* they are named by that request; a code is named by the request that     *)
(* issues it.  An ask is what /authorize was asked for: the fields a flow  *)
(* record only carries along (redirect URI, scopes, PKCE challenge, ...)   *)
(* are not told apart.  A method's state is named by the request that      *)
(* saved it.                                                               *)
(***************************************************************************)
EXTENDS Naturals

CONSTANTS
  Requests,     \* one element per request the server handles
  Tenants, Clients, Methods,
  Hosts, HostOf,   \* HostOf[t]: the callback host of tenant t
  Registered,   \* <<tenant, client>>: the clients of each tenant
  Configured,   \* <<tenant, method>>: the enabled methods of each tenant
  Unsolicited,  \* those whose method accepts an unsolicited callback
  FlowTtl,      \* DEFAULT_FLOW_TTL_MS in clock ticks
  MaxTime,      \* bound on the clock
  None

ASSUME FlowsAssumption ==
  /\ HostOf \in [Tenants -> Hosts]
  /\ Registered \subseteq Tenants \X Clients
  /\ Unsolicited \subseteq Configured /\ Configured \subseteq Tenants \X Methods
  /\ FlowTtl \in Nat \ {0} /\ MaxTime \in Nat
  /\ None \notin Requests

VARIABLES
  now,    \* the clock
  flows,  \* MemorySessionStore.#flows: what is stored under a flowId
  codes,  \* what saveEncryptedCode stored for each code
  req     \* the requests being handled, and what became of them

vars == <<now, flows, codes, req>>

Ask == [tenant : Tenants, client : Clients, method : Methods]
Handler == [tenant : Tenants, method : Methods]

StoredFlow == [ask : Ask, state : Requests \cup {None}, expiresAt : Nat]

ASSUME NoneIsNoRecord == None \notin Ask \cup Handler \cup StoredFlow

(* What the handler of a request knows.  ask is the record it holds, to    *)
(* mint a code from; by the tenant and method whose handler it runs; seen  *)
(* is ctx.methodState, as dispatched.                                      *)
Idle ==
  [pc |-> "idle",      \* or "handling", "persisted", "minting", "done"
   op |-> "none",      \* or "authorize", "callback", "route", "unsolicited"
   flow |-> None, ask |-> None, by |-> None, seen |-> None,
   out |-> "none"]     \* or "code", "challenge", "saved", "denied",
                       \* "refused", "replay"

Init ==
  /\ now = 0
  /\ flows = [f \in Requests |-> None]
  /\ codes = [r \in Requests |-> None]
  /\ req = [r \in Requests |-> Idle]

----------------------------------------------------------------------------
(* MemorySessionStore: a flow is there until its deadline or its first     *)
(* consumeFlow; every method that finds it expired deletes it.             *)
Live(f) == flows[f] # None /\ now < flows[f].expiresAt

(* Variant for mutation: the record is left in place. *)
TakeKeeps(f) == UNCHANGED flows

(* consumeFlow, whatever it answers. *)
Take(f) == flows' = [flows EXCEPT ![f] = None]

(* readFlow and updateFlowMethodState delete an expired row they come upon. *)
Sweep(f) == flows' = [flows EXCEPT ![f] = IF Live(f) THEN @ ELSE None]

Becomes(r, q) == req' = [req EXCEPT ![r] = q]
Answer(r, q, result) == Becomes(r, [q EXCEPT !.pc = "done", !.out = result])

(* The challenge that carries the flow's envelope and cookie has gone out. *)
Surfaced(f) == req[f].op = "authorize" /\ req[f].out \in {"challenge", "saved"}

----------------------------------------------------------------------------
(* startAuthorize: the client, the redirect URI, the scopes, PKCE and the  *)
(* method are checked before anything is stored; several methods and none  *)
(* named is answered by the picker.                                        *)
StartRefused(r) ==
  /\ req[r].pc = "idle"
  /\ Answer(r, [Idle EXCEPT !.op = "authorize"], "refused")
  /\ UNCHANGED <<now, flows, codes>>

StartAuthorize(r, a) ==
  /\ req[r].pc = "idle"
  /\ <<a.tenant, a.client>> \in Registered
  /\ <<a.tenant, a.method>> \in Configured
  /\ flows' = [flows EXCEPT ![r] = [ask |-> a, state |-> None,
                                    expiresAt |-> now + FlowTtl]]
  /\ Becomes(r, [Idle EXCEPT !.pc = "handling", !.op = "authorize",
                   !.flow = r, !.ask = a,
                   !.by = [tenant |-> a.tenant, method |-> a.method]])
  /\ UNCHANGED <<now, codes>>

(***************************************************************************)
(* handleCallback.  The flow is consumed before anything is compared, so a *)
(* callback at the wrong address burns it.  The envelope's tenant and      *)
(* nonce are those of its flow: the two checks on them compare a value     *)
(* with itself here.                                                       *)
(***************************************************************************)
(* The callback arrives at the URL callbackTarget derives for its flow. *)
AtItsAddress(a, host, method) == host = HostOf[a.tenant] /\ method = a.method

(* consumeFlow answers: unknown, already consumed, or expired. *)
CallbackReplayed(r, f) ==
  /\ req[r].pc = "idle"
  /\ Surfaced(f)
  /\ ~Live(f)
  /\ Take(f)
  /\ Answer(r, [Idle EXCEPT !.op = "callback", !.flow = f], "replay")
  /\ UNCHANGED <<now, codes>>

(* Variant for mutation: the address is compared before the flow is spent. *)
CallbackAtAddressConsumes(r, f, host, method) ==
  LET row == flows[f]
      begun == [Idle EXCEPT !.op = "callback", !.flow = f, !.seen = row.state]
  IN /\ req[r].pc = "idle"
     /\ Surfaced(f)
     /\ Live(f)
     /\ \/ /\ ~AtItsAddress(row.ask, host, method)
           /\ UNCHANGED flows
           /\ Answer(r, begun, "refused")
        \/ /\ AtItsAddress(row.ask, host, method)
           /\ Take(f)
           /\ Becomes(r, [begun EXCEPT !.pc = "handling", !.ask = row.ask,
                            !.by = [tenant |-> row.ask.tenant,
                                    method |-> row.ask.method]])
     /\ UNCHANGED <<now, codes>>

CallbackConsume(r, f, host, method) ==
  LET row == flows[f]
      begun == [Idle EXCEPT !.op = "callback", !.flow = f, !.seen = row.state]
  IN /\ req[r].pc = "idle"
     /\ Surfaced(f)
     /\ Live(f)
     /\ Take(f)
     /\ \/ /\ ~AtItsAddress(row.ask, host, method)
           /\ Answer(r, begun, "refused")
        \/ /\ AtItsAddress(row.ask, host, method)
           /\ Becomes(r, [begun EXCEPT !.pc = "handling", !.ask = row.ask,
                            !.by = [tenant |-> row.ask.tenant,
                                    method |-> row.ask.method]])
     /\ UNCHANGED <<now, codes>>

(* tryIdpInitiated: a POST without a verifiable envelope, to a method that *)
(* opted in.  Any other request without an envelope is refused.            *)
CallbackUnsolicited(r, h) ==
  /\ req[r].pc = "idle"
  /\ \/ /\ <<h.tenant, h.method>> \in Unsolicited
        /\ Becomes(r, [Idle EXCEPT !.pc = "handling", !.op = "unsolicited",
                         !.by = h])
     \/ /\ <<h.tenant, h.method>> \notin Unsolicited
        /\ Answer(r, [Idle EXCEPT !.op = "unsolicited"], "refused")
  /\ UNCHANGED <<now, flows, codes>>

(***************************************************************************)
(* handleMethodRoute: the flow of the cookie is read, not consumed.  The   *)
(* tenant comes from the request's host, the method from its path.         *)
(***************************************************************************)
(* Variant for mutation: a flow of any tenant will do. *)
OwnedByMethod(row, h) == row.ask.method = h.method

OwnedBy(row, h) == row.ask.tenant = h.tenant /\ row.ask.method = h.method

RouteRead(r, f, h) ==
  LET row == flows[f]
      begun == [Idle EXCEPT !.op = "route", !.flow = f]
  IN /\ req[r].pc = "idle"
     /\ Surfaced(f)
     /\ \/ /\ ~Live(f)
           /\ Answer(r, begun, "refused")
        \/ /\ Live(f) /\ ~OwnedBy(row, h)
           /\ Answer(r, begun, "refused")
        \/ /\ Live(f) /\ OwnedBy(row, h)
           /\ Becomes(r, [begun EXCEPT !.pc = "handling", !.by = h,
                            !.seen = row.state])
     /\ Sweep(f)
     /\ UNCHANGED <<now, codes>>

----------------------------------------------------------------------------
(* dispatchMethod and the translation of its result, for a request whose   *)
(* handler is running.  The configuration or the method may turn out not   *)
(* to load, and the handler may throw: all end like an error result.       *)
HandlerFails(r) ==
  /\ req[r].pc = "handling"
  /\ Answer(r, req[r], "refused")
  /\ UNCHANGED <<now, flows, codes>>

HandlerDenies(r) ==
  /\ req[r].pc = "handling"
  /\ Answer(r, req[r], "denied")
  /\ UNCHANGED <<now, flows, codes>>

HandlerChallenges(r) ==
  /\ req[r].pc = "handling"
  /\ Answer(r, req[r], "challenge")
  /\ UNCHANGED <<now, flows, codes>>

(* Variants for mutation: a missing row is written anew; the state is not  *)
(* waited for.                                                             *)
HandlerSavesAnew(r) ==
  LET f == req[r].flow
  IN /\ req[r].pc = "handling"
     /\ f # None /\ req[f].ask # None
     /\ flows' = [flows EXCEPT ![f] = [ask |-> req[f].ask, state |-> r,
                                       expiresAt |-> now + FlowTtl]]
     /\ Becomes(r, [req[r] EXCEPT !.pc = "persisted"])
     /\ UNCHANGED <<now, codes>>

HandlerSavesLater(r) ==
  /\ req[r].pc = "handling"
  /\ Becomes(r, [req[r] EXCEPT !.pc = "persisted"])
  /\ UNCHANGED <<now, flows, codes>>

(* A challenge with saveMethodState: updateFlowMethodState comes first, and *)
(* without a live flow the challenge is not sent at all.                   *)
HandlerSaves(r) ==
  LET f == req[r].flow
  IN /\ req[r].pc = "handling"
     /\ \/ /\ f # None /\ Live(f)
           /\ flows' = [flows EXCEPT ![f].state = r]
           /\ Becomes(r, [req[r] EXCEPT !.pc = "persisted"])
        \/ /\ f # None /\ ~Live(f)
           /\ Sweep(f)
           /\ Answer(r, req[r], "refused")
        \/ /\ f = None
           /\ Answer(r, req[r], "refused")
           /\ UNCHANGED flows
     /\ UNCHANGED <<now, codes>>

Surface(r) ==
  /\ req[r].pc = "persisted"
  /\ Answer(r, req[r], "saved")
  /\ UNCHANGED <<now, flows, codes>>

(* Success on a callback: the flow is consumed already. *)
CallbackSucceeds(r) ==
  /\ req[r].pc = "handling" /\ req[r].op = "callback"
  /\ Becomes(r, [req[r] EXCEPT !.pc = "minting"])
  /\ UNCHANGED <<now, flows, codes>>

(* Success inline at /authorize or on a method route: whoever consumes the *)
(* flow mints from the consumed record, whoever does not is refused.       *)
FlowSucceeds(r) ==
  LET f == req[r].flow
  IN /\ req[r].pc = "handling" /\ req[r].op \in {"authorize", "route"}
     /\ Take(f)
     /\ \/ /\ Live(f)
           /\ Becomes(r, [req[r] EXCEPT !.pc = "minting", !.ask = flows[f].ask])
        \/ /\ ~Live(f)
           /\ Answer(r, req[r], "refused")
     /\ UNCHANGED <<now, codes>>

(* Success without a flow: the binding the operator configured must name a *)
(* client of the request's tenant.                                         *)
UnsolicitedSucceeds(r, client) ==
  LET h == req[r].by
  IN /\ req[r].pc = "handling" /\ req[r].op = "unsolicited"
     /\ \/ /\ <<h.tenant, client>> \in Registered
           /\ Becomes(r, [req[r] EXCEPT !.pc = "minting",
                            !.ask = [tenant |-> h.tenant, client |-> client,
                                     method |-> h.method]])
        \/ /\ <<h.tenant, client>> \notin Registered
           /\ Answer(r, req[r], "refused")
     /\ UNCHANGED <<now, flows, codes>>

(* saveEncryptedCode: encrypting or storing may fail, and the flow is      *)
(* spent all the same.                                                     *)
IssueCode(r) ==
  /\ req[r].pc = "minting"
  /\ codes' = [codes EXCEPT ![r] = req[r].ask]
  /\ Answer(r, req[r], "code")
  /\ UNCHANGED <<now, flows>>

IssueFails(r) ==
  /\ req[r].pc = "minting"
  /\ Answer(r, req[r], "refused")
  /\ UNCHANGED <<now, flows, codes>>

Tick ==
  /\ now < MaxTime
  /\ now' = now + 1
  /\ UNCHANGED <<flows, codes, req>>

----------------------------------------------------------------------------
Begin(r) ==
  \/ StartRefused(r)
  \/ \E a \in Ask : StartAuthorize(r, a)
  \/ \E f \in Requests : CallbackReplayed(r, f)
  \/ \E f \in Requests, host \in Hosts, m \in Methods :
       CallbackConsume(r, f, host, m)
  \/ \E h \in Handler : CallbackUnsolicited(r, h)
  \/ \E f \in Requests, h \in Handler : RouteRead(r, f, h)

(* What the server does for a request it has begun to handle. *)
Continue(r) ==
  \/ HandlerFails(r)
  \/ HandlerDenies(r)
  \/ HandlerChallenges(r)
  \/ HandlerSaves(r)
  \/ Surface(r)
  \/ CallbackSucceeds(r)
  \/ FlowSucceeds(r)
  \/ \E c \in Clients : UnsolicitedSucceeds(r, c)
  \/ IssueCode(r)
  \/ IssueFails(r)

Next == Tick \/ \E r \in Requests : Begin(r) \/ Continue(r)

Spec == Init /\ [][Next]_vars
============================================================================

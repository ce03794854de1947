-------------------------- MODULE TokenGrantsProps --------------------------
(***************************************************************************)
(* What TokenGrants must guarantee.                                        *)
(***************************************************************************)
EXTENDS TokenGrants

(* Single use under concurrency: of all the requests that present the same *)
(* code or refresh token, at any time and in any interleaving, at most one *)
(* consumes it (consumeCode, consumeRefresh).                              *)
OneWinner ==
  \A q, r \in Requests :
    req[q].won /\ req[r].won /\ req[q].input = req[r].input => q = r

LiveIn(t, f) == InFamily(t, f) /\ refresh[t].consumedAt = None
MintingIn(r, f) == req[r].pc = "minting" /\ req[r].grant.family = f

(* A family is a chain: at any moment it has at most one tip, which is     *)
(* either one unconsumed token or one request on its way from              *)
(* consumeRefresh to saveRefresh.  Were there two, two holders could       *)
(* refresh side by side and reuse detection would never see either.        *)
OneTip ==
  \A f \in Families :
    /\ \A t, u \in Tokens : LiveIn(t, f) /\ LiveIn(u, f) => t = u
    /\ \A q, r \in Requests : MintingIn(q, f) /\ MintingIn(r, f) => q = r
    /\ \A t \in Tokens, r \in Requests : ~(LiveIn(t, f) /\ MintingIn(r, f))

(* What a refresh mints is never more than what its input was minted with: *)
(* same client, subject, family and DPoP key, scopes only narrower.  And a *)
(* key-bound chain is only ever extended by a request that proved the key. *)
LineageNarrows ==
  \A q, r \in Requests :
    req[q].heir # None /\ req[r].input = req[q].heir /\ req[r].grant # None =>
      /\ req[r].grant.scopes \subseteq req[q].grant.scopes
      /\ [req[r].grant EXCEPT !.scopes = {}] = [req[q].grant EXCEPT !.scopes = {}]
      /\ req[r].grant.jkt # None => req[r].proof = req[r].grant.jkt

(* A refresh the grant cannot satisfy (wrong client, secret, DPoP key or   *)
(* scope) leaves the token unconsumed, so the client's own next attempt is *)
(* not mistaken for theft.                                                 *)
MistakesDoNotBurn ==
  \A r \in Requests :
    req[r].op \in {"refresh", "revoke"} /\ req[r].out = "rejected" => ~req[r].won

(* Reuse detection accuses nobody wrongly: a request is answered with the  *)
(* reuse signal only if another request consumed the same token before it. *)
ReuseHasAnEarlierWinner ==
  \A r \in Requests :
    req[r].out = "reuse" =>
      \E q \in Requests : q # r /\ req[q].won /\ req[q].input = req[r].input

(* A token the server answered "revoked" for cannot be refreshed again.    *)
RevokedTokensStayDead ==
  \A r \in Requests : req[r].out = "revoked" => ~Claimable(req[r].input)

Started(f) == ~FreshFamily(f)
Dead(f) ==
  /\ Started(f)
  /\ \A t \in Tokens : ~LiveIn(t, f)
  /\ \A r \in Requests : ~MintingIn(r, f)

(* A family with no unconsumed token and nothing in flight is over: no     *)
(* retry, replay or late answer brings it back.  In particular a family    *)
(* revoked while none of its refreshes was in flight stays revoked.        *)
DeadFamiliesStayDead ==
  [][\A f \in Families : Dead(f) => Dead(f)']_vars

----------------------------------------------------------------------------
(* The credentials seen as the one-shot tickets of OneShot. *)
SpentBy(t, r) == req[r].won /\ req[r].input = t
Spent(t) == \E r \in Requests : SpentBy(t, r)
EverSaved(t) == \E r \in Requests : req[r].heir = t

TicketStatus(t) ==
  CASE Spent(t) -> "spent"
    [] ~Spent(t) /\ t \in Codes ->
         IF codes[t] # None THEN "live"
         ELSE IF FreshCode(t) THEN "unborn" ELSE "void"
    [] ~Spent(t) /\ t \in Tokens ->
         IF refresh[t] # None THEN "live"
         ELSE IF EverSaved(t) THEN "void" ELSE "unborn"

TicketHeir(t) ==
  IF \E r \in Requests : SpentBy(t, r) /\ req[r].heir # None
  THEN req[CHOOSE r \in Requests : SpentBy(t, r)].heir
  ELSE None

Abstract == INSTANCE OneShot WITH
  Ticket <- Codes \cup Tokens,
  Root <- Codes,
  status <- [t \in Codes \cup Tokens |-> TicketStatus(t)],
  heir <- [t \in Codes \cup Tokens |-> TicketHeir(t)]

(* The endpoints together implement the one-shot credentials of OneShot.   *)
ImplementsOneShot == Abstract!Spec

----------------------------------------------------------------------------
(* Every request the server begins to handle is answered, and a consumed   *)
(* refresh token never stays without either an heir or an error.           *)
EveryRequestIsAnswered ==
  \A r \in Requests : (req[r].pc # "idle") ~> (req[r].pc = "done")

(* "Detected reuse within the 60 s window invalidates every token in the   *)
(* family" (INTEGRATION.md) and "Revoke every refresh token for a          *)
(* (tenantId, subjectId) pair" (domain/revoke.ts): a family that a         *)
(* revocation was called on has no token that can be refreshed.            *)
RevokedFamiliesEnd == \A f \in cut, t \in Tokens : ~LiveIn(t, f)
=============================================================================

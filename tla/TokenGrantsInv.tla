--------------------------- MODULE TokenGrantsInv ---------------------------
(***************************************************************************)
(* The inductive invariant behind the properties of TokenGrantsProps.      *)
(* None of them is inductive alone: that one request wins a token rests on *)
(* which rows can still be won, that rests on where rows come from, and    *)
(* that rests on how far each request has got.                             *)
(***************************************************************************)
EXTENDS TokenGrantsProps

(* What a request carries at each stage of its handler. *)
StageOK(q) ==
  /\ q.pc = "idle" => q = Idle
  /\ q.pc = "peeked" => ~q.won
  /\ q.pc = "minting" => q.heir = None
  /\ q.grant # None => q.won
  /\ q.heir # None => q.grant # None
  /\ q.won => q.input # None
  /\ q.out = "revoked" => q.won /\ q.input \in Tokens
  /\ q.out \in {"revoked", "reuse", "rejected"} => q.pc = "done"
  /\ q.out = "reuse" => q.op = "refresh"

StagesOK == \A r \in Requests : StageOK(req[r])

(* saveRefresh is called with a token nobody else was given. *)
HeirsAreUnique ==
  \A q, r \in Requests : req[q].heir # None /\ req[q].heir = req[r].heir => q = r

(* A row holds what its request minted, until it is deleted. *)
RowsComeFromRequests ==
  \A t \in Tokens :
    refresh[t] # None =>
      \E r \in Requests : req[r].heir = t /\ req[r].grant = refresh[t].grant

(* What can still be won has not been won. *)
StoredCodesAreUnspent ==
  \A c \in Codes, r \in Requests : codes[c] # None => req[r].input # c

UnconsumedIsUnspent ==
  \A t \in Tokens, r \in Requests :
    refresh[t] # None /\ refresh[t].consumedAt = None => ~SpentBy(t, r)

ConsumedIsSpent ==
  \A t \in Tokens :
    refresh[t] # None /\ refresh[t].consumedAt # None => Spent(t)

(* Nobody holds a token that is yet to be drawn. *)
HeldTokensWereSaved ==
  \A r \in Requests :
    (req[r].won \/ req[r].pc = "peeked") /\ req[r].input \in Tokens =>
      EverSaved(req[r].input)

(* What a refresh found in order when it peeked is in order when it claims. *)
PeekStillHolds ==
  \A r \in Requests :
    LET row == refresh[req[r].input]
    IN Peeked(r, "refresh") /\ row # None =>
         /\ req[r].ask \subseteq row.grant.scopes
         /\ row.grant.jkt # None => req[r].proof = row.grant.jkt

(* All of it, with the properties that are part of the induction. *)
Inv ==
  /\ StagesOK
  /\ HeirsAreUnique
  /\ RowsComeFromRequests
  /\ StoredCodesAreUnspent
  /\ UnconsumedIsUnspent
  /\ ConsumedIsSpent
  /\ HeldTokensWereSaved
  /\ PeekStillHolds
  /\ OneWinner
  /\ OneTip
  /\ LineageNarrows
  /\ MistakesDoNotBurn
  /\ ReuseHasAnEarlierWinner
=============================================================================

------------------------- MODULE TokenGrantsProofs -------------------------
(***************************************************************************)
(* Proofs about TokenGrants for any number of requests, codes, tokens,     *)
(* families, clients and clock ticks.                                      *)
(***************************************************************************)
EXTENDS TokenGrantsInv, TLAPS

----------------------------------------------------------------------------
(* The record a request becomes. *)

(* The start of a request is a request. *)
LEMMA IdleType == Idle \in Request
  BY DEF Idle, Request, RequestRecord

(* Answering keeps the type of a request. *)
LEMMA AnsweredType ==
  ASSUME NEW q \in RequestRecord,
         NEW result \in {"ok", "rejected", "gone", "reuse", "failed",
                         "revoked", "noop"}
  PROVE  Answered(q, result) \in Request
<1>1. Answered(q, result) \in RequestRecord
  BY DEF Answered, RequestRecord
<1>2. Answered(q, result).pc = "done"
  BY DEF Answered, RequestRecord
<1>3. QED
  BY <1>1, <1>2 DEF Request

(* Replacing one request keeps the type of req. *)
LEMMA BecomesType ==
  ASSUME NEW r \in Requests, NEW q \in Request,
         req \in [Requests -> Request], Becomes(r, q)
  PROVE  req' \in [Requests -> Request]
  BY DEF Becomes

(* A row that is present is a row. *)
LEMMA RowType ==
  ASSUME TypeOK, NEW t \in Tokens, refresh[t] # None
  PROVE  /\ refresh[t] \in StoredRefresh
         /\ refresh[t].grant \in Grant
  BY DEF TypeOK, StoredRefresh

(* Claiming keeps the type of the store. *)
LEMMA ClaimType ==
  ASSUME TypeOK, NEW t \in Tokens, Claimable(t), Claim(t)
  PROVE  refresh' \in [Tokens -> StoredRefresh \cup {None}]
<1>1. [refresh[t] EXCEPT !.consumedAt = now] \in StoredRefresh
  BY RowType DEF Claimable, StoredRefresh, TypeOK
<1>2. refresh' = [refresh EXCEPT ![t] = [refresh[t] EXCEPT !.consumedAt = now]]
  BY DEF Claim, TypeOK
<1>3. QED
  BY <1>1, <1>2 DEF TypeOK

(* So does revoking a family. *)
LEMMA RevokeFamilyType ==
  ASSUME TypeOK, NEW f \in Families, RevokeFamily(f)
  PROVE  /\ refresh' \in [Tokens -> StoredRefresh \cup {None}]
         /\ cut' \subseteq Families
  BY DEF TypeOK, RevokeFamily

----------------------------------------------------------------------------
(* Every step keeps the types. *)
LEMMA TypeStep ==
  ASSUME TypeOK, [Next]_vars
  PROVE  TypeOK'
<1> USE DEF store
<1>1. ASSUME NEW c \in Codes, SaveCode(c) PROVE TypeOK'
  <2>1. now + CodeTtl \in Nat
    BY GrantsAssumption DEF TypeOK
  <2>2. QED
    BY <1>1, <2>1 DEF SaveCode, StoredCode, TypeOK
<1>2. ASSUME NEW r \in Requests, NEW c \in Codes, ExchangeUnknown(r, c)
      PROVE TypeOK'
  <2>1. Answered([Idle EXCEPT !.op = "exchange"], "gone") \in Request
    <3>1. [Idle EXCEPT !.op = "exchange"] \in RequestRecord
      BY DEF Idle, RequestRecord
    <3>2. QED
      BY <3>1, AnsweredType
  <2>2. QED
    BY <1>2, <2>1, BecomesType DEF ExchangeUnknown, TypeOK
<1>3. ASSUME NEW r \in Requests, NEW c \in Codes, ExchangeExpired(r, c)
      PROVE TypeOK'
  <2>1. Answered([Idle EXCEPT !.op = "exchange", !.input = c], "gone") \in Request
    <3>1. [Idle EXCEPT !.op = "exchange", !.input = c] \in RequestRecord
      BY DEF Idle, RequestRecord
    <3>2. QED
      BY <3>1, AnsweredType
  <2>2. QED
    BY <1>3, <2>1, BecomesType DEF ExchangeExpired, TypeOK
<1>4. ASSUME NEW r \in Requests, NEW c \in Codes, NEW client \in Clients,
             NEW secret \in Secrets, NEW b \in Bindings,
             NEW proof \in Keys \cup {None},
             ExchangeConsume(r, c, client, secret, b, proof)
      PROVE TypeOK'
  <2> DEFINE won == [Idle EXCEPT !.op = "exchange", !.input = c,
                                 !.proof = proof, !.won = TRUE]
  <2>1. won \in RequestRecord
    BY DEF Idle, RequestRecord
  <2>2. codes[c] \in StoredCode
    BY <1>4 DEF ExchangeConsume, TypeOK
  <2>3. req' \in [Requests -> Request]
    <3>1. CASE Becomes(r, Answered(won, "rejected"))
      <4>1. Answered(won, "rejected") \in Request
        BY <2>1, AnsweredType
      <4>2. QED
        BY <3>1, <4>1, BecomesType DEF TypeOK
    <3>2. ASSUME NEW f \in Families, NEW q,
                 q = [won EXCEPT !.pc = "minting", !.at = now,
                        !.grant = [client |-> client,
                                   subject |-> codes[c].subject,
                                   scopes |-> codes[c].scopes,
                                   jkt |-> proof, family |-> f]],
                 Becomes(r, q)
          PROVE  req' \in [Requests -> Request]
      <4>1. [client |-> client, subject |-> codes[c].subject,
             scopes |-> codes[c].scopes, jkt |-> proof, family |-> f] \in Grant
        BY <2>2 DEF Grant, StoredCode
      <4>2. q \in RequestRecord
        BY <2>1, <3>2, <4>1 DEF RequestRecord, TypeOK
      <4>3. q.pc = "minting" /\ q.grant # None
        BY <2>1, <3>2, <4>1, NoneIsNoRow DEF RequestRecord
      <4>4. q \in Request
        BY <4>2, <4>3 DEF Request
      <4>5. QED
        BY <3>2, <4>4, BecomesType DEF TypeOK
    <3>3. QED
      BY <1>4, <3>1, <3>2 DEF ExchangeConsume
  <2>4. QED
    BY <1>4, <2>3 DEF ExchangeConsume, TypeOK
<1>5. ASSUME NEW r \in Requests, NEW t \in Tokens,
             NEW client \in Clients \cup {None}, NEW secret \in Secrets,
             NEW proof \in Keys \cup {None}, NEW asked \in SUBSET Scopes,
             RefreshPeek(r, t, client, secret, proof, asked)
      PROVE TypeOK'
  <2>1. [Idle EXCEPT !.op = "refresh"] \in RequestRecord
    BY DEF Idle, RequestRecord
  <2>2. [Idle EXCEPT !.pc = "peeked", !.op = "refresh", !.input = t,
                     !.ask = asked, !.proof = proof] \in Request
    BY DEF Idle, Request, RequestRecord
  <2>3. req' \in [Requests -> Request]
    BY <1>5, <2>1, <2>2, AnsweredType, BecomesType DEF RefreshPeek, TypeOK
  <2>4. QED
    BY <1>5, <2>3 DEF RefreshPeek, TypeOK
<1>6. ASSUME NEW r \in Requests, RefreshClaim(r) PROVE TypeOK'
  <2> DEFINE t == req[r].input
             g == refresh[t].grant
  <2>1. req[r] \in Request /\ req[r] \in RequestRecord
    BY DEF TypeOK, Request
  <2>2. t \in Tokens
    BY <1>6, <2>1 DEF RefreshClaim, Peeked, Request
  <2> HIDE DEF t
  <2>3. g \in Grant /\ refresh[t] # None
    BY <1>6, <2>2, RowType DEF RefreshClaim, Claimable, t
  <2>4. refresh' \in [Tokens -> StoredRefresh \cup {None}]
    BY <1>6, <2>2, ClaimType DEF RefreshClaim, t
  <2>5. req' \in [Requests -> Request]
    <3>1. [g EXCEPT !.scopes = req[r].ask] \in Grant
      BY <2>1, <2>3 DEF Grant, Request, RequestRecord
    <3> DEFINE narrowed == [g EXCEPT !.scopes = req[r].ask]
               minting == [req[r] EXCEPT !.pc = "minting", !.won = TRUE,
                             !.at = now, !.ask = {}, !.grant = narrowed]
    <3>2. minting \in Request
      <4> HIDE DEF g, narrowed
      <4>1. minting \in RequestRecord
        BY <2>1, <3>1 DEF RequestRecord, TypeOK, narrowed
      <4>2. minting.pc = "minting" /\ minting.grant # None
        BY <2>1, <3>1, NoneIsNoRow DEF RequestRecord, narrowed
      <4>3. QED
        BY <4>1, <4>2 DEF Request
    <3>3. Answered([req[r] EXCEPT !.won = TRUE], "rejected") \in Request
      <4>1. [req[r] EXCEPT !.won = TRUE] \in RequestRecord
        BY <2>1 DEF RequestRecord
      <4>2. QED
        BY <4>1, AnsweredType
    <3>4. QED
      BY <1>6, <3>2, <3>3, BecomesType DEF RefreshClaim, TypeOK, t
  <2>6. QED
    BY <1>6, <2>4, <2>5 DEF RefreshClaim, TypeOK
<1>7. ASSUME NEW r \in Requests, RefreshReuse(r) PROVE TypeOK'
  <2>1. req[r] \in Request /\ req[r].input \in Tokens
    BY <1>7 DEF TypeOK, RefreshReuse, Peeked, Request
  <2>2. refresh[req[r].input].grant.family \in Families
    BY <1>7, <2>1, RowType DEF RefreshReuse, Reused, Grant
  <2>3. /\ refresh' \in [Tokens -> StoredRefresh \cup {None}]
        /\ cut' \subseteq Families
    BY <1>7, <2>2, RevokeFamilyType DEF RefreshReuse
  <2>4. req' \in [Requests -> Request]
    BY <1>7, <2>1, AnsweredType, BecomesType DEF RefreshReuse, Answer, TypeOK, Request
  <2>5. QED
    BY <1>7, <2>3, <2>4 DEF RefreshReuse, TypeOK
<1>8. ASSUME NEW r \in Requests, RefreshMiss(r) PROVE TypeOK'
  <2>1. req' \in [Requests -> Request]
    BY <1>8, AnsweredType, BecomesType DEF RefreshMiss, Answer, TypeOK, Request
  <2>2. QED
    BY <1>8, <2>1 DEF RefreshMiss, TypeOK
<1>9. ASSUME NEW r \in Requests, MintFails(r) PROVE TypeOK'
  <2>1. req' \in [Requests -> Request]
    BY <1>9, AnsweredType, BecomesType DEF MintFails, Answer, TypeOK, Request
  <2>2. QED
    BY <1>9, <2>1 DEF MintFails, TypeOK
<1>10. ASSUME NEW r \in Requests, NEW t \in Tokens, SaveRefresh(r, t)
       PROVE TypeOK'
  <2>1. req[r] \in Request /\ req[r].grant \in Grant
    BY <1>10 DEF TypeOK, SaveRefresh, Request, RequestRecord
  <2>2. PICK issuedAt \in req[r].at .. now :
          refresh' = [refresh EXCEPT ![t] =
                        [grant |-> req[r].grant,
                         expiresAt |-> issuedAt + RefreshTtl,
                         consumedAt |-> None]]
    BY <1>10 DEF SaveRefresh
  <2>3. issuedAt + RefreshTtl \in Nat
    BY <2>1, GrantsAssumption DEF Request, RequestRecord, TypeOK
  <2>4. [grant |-> req[r].grant, expiresAt |-> issuedAt + RefreshTtl,
         consumedAt |-> None] \in StoredRefresh
    BY <2>1, <2>3 DEF StoredRefresh
  <2>5. refresh' \in [Tokens -> StoredRefresh \cup {None}]
    BY <2>2, <2>4 DEF TypeOK
  <2>6. [req[r] EXCEPT !.pc = "saved", !.heir = t, !.at = 0] \in Request
    BY <2>1 DEF Request, RequestRecord
  <2>7. req' \in [Requests -> Request]
    BY <1>10, <2>6, BecomesType DEF SaveRefresh, TypeOK
  <2>8. QED
    BY <1>10, <2>5, <2>7 DEF SaveRefresh, TypeOK
<1>11. ASSUME NEW r \in Requests, Respond(r) PROVE TypeOK'
  <2>1. req' \in [Requests -> Request]
    BY <1>11, AnsweredType, BecomesType DEF Respond, Answer, TypeOK, Request
  <2>2. QED
    BY <1>11, <2>1 DEF Respond, TypeOK
<1>12. ASSUME NEW r \in Requests, NEW t \in Tokens,
              NEW client \in Clients \cup {None}, NEW secret \in Secrets,
              RevokePeek(r, t, client, secret)
       PROVE TypeOK'
  <2>1. /\ [Idle EXCEPT !.op = "revoke", !.input = t] \in RequestRecord
        /\ [[Idle EXCEPT !.op = "revoke", !.input = t]
              EXCEPT !.pc = "peeked"] \in Request
    BY DEF Idle, Request, RequestRecord
  <2>2. req' \in [Requests -> Request]
    BY <1>12, <2>1, AnsweredType, BecomesType DEF RevokePeek, TypeOK
  <2>3. QED
    BY <1>12, <2>2 DEF RevokePeek, TypeOK
<1>13. ASSUME NEW r \in Requests, RevokeConsume(r) PROVE TypeOK'
  <2> DEFINE t == req[r].input
  <2>1. req[r] \in Request /\ t \in Tokens
    BY <1>13 DEF TypeOK, RevokeConsume, Peeked, Request
  <2> HIDE DEF t
  <2>2. CASE Claimable(t) /\ Claim(t) /\ UNCHANGED cut
             /\ Becomes(r, Answered([req[r] EXCEPT !.won = TRUE], "revoked"))
    <3>1. refresh' \in [Tokens -> StoredRefresh \cup {None}]
      BY <2>1, <2>2, ClaimType
    <3>2. [req[r] EXCEPT !.won = TRUE] \in RequestRecord
      BY <2>1 DEF Request, RequestRecord
    <3>3. req' \in [Requests -> Request]
      BY <2>2, <3>2, AnsweredType, BecomesType DEF TypeOK
    <3>4. QED
      BY <1>13, <2>2, <3>1, <3>3 DEF RevokeConsume, TypeOK
  <2>3. CASE Reused(t, 0) /\ RevokeFamily(refresh[t].grant.family)
             /\ Answer(r, "noop")
    <3>1. refresh[t].grant.family \in Families
      BY <2>1, <2>3, RowType DEF Reused, Grant
    <3>2. /\ refresh' \in [Tokens -> StoredRefresh \cup {None}]
          /\ cut' \subseteq Families
      BY <2>3, <3>1, RevokeFamilyType
    <3>3. req' \in [Requests -> Request]
      BY <2>1, <2>3, AnsweredType, BecomesType DEF Answer, TypeOK, Request
    <3>4. QED
      BY <1>13, <3>2, <3>3 DEF RevokeConsume, TypeOK
  <2>4. CASE Answer(r, "noop") /\ UNCHANGED <<refresh, cut>>
    <3>1. req' \in [Requests -> Request]
      BY <2>1, <2>4, AnsweredType, BecomesType DEF Answer, TypeOK, Request
    <3>2. QED
      BY <1>13, <2>4, <3>1 DEF RevokeConsume, TypeOK
  <2>5. QED
    BY <1>13, <2>2, <2>3, <2>4 DEF RevokeConsume, t
<1>14. ASSUME NEW s \in Subjects, RevokeSubject(s) PROVE TypeOK'
  BY <1>14 DEF RevokeSubject, TypeOK
<1>15. CASE Tick
  BY <1>15 DEF Tick, TypeOK
<1>16. CASE UNCHANGED vars
  BY <1>16 DEF vars, TypeOK
<1>17. QED
  BY <1>1, <1>2, <1>3, <1>4, <1>5, <1>6, <1>7, <1>8, <1>9, <1>10, <1>11,
     <1>12, <1>13, <1>14, <1>15, <1>16
     DEF Next, Exchange, Refresh, Revoke, Continue
----------------------------------------------------------------------------
(* Steps that win nothing, and steps that win a credential. *)

(* A request that answers, or peeks, and wins nothing. *)
QuietChange(q) ==
  /\ StageOK(req'[q])
  /\ req'[q].pc # "minting"
  /\ req'[q].won = req[q].won
  /\ req'[q].grant = req[q].grant
  /\ req'[q].heir = req[q].heir
  /\ req[q].won => req'[q].input = req[q].input /\ req'[q].proof = req[q].proof
  /\ req'[q].input \in Codes => codes'[req'[q].input] = None
  /\ req'[q].pc = "peeked" => EverSaved(req'[q].input)
  /\ req'[q].out = "reuse" =>
       \E p \in Requests : p # q /\ SpentBy(req'[q].input, p)
  /\ req'[q].op # "exchange" /\ req'[q].out = "rejected" => ~req'[q].won
  /\ Peeked(q, "refresh")' =>
       LET row == refresh'[req'[q].input]
       IN row # None => /\ req'[q].ask \subseteq row.grant.scopes
                        /\ row.grant.jkt # None => req'[q].proof = row.grant.jkt

(* Such steps keep the invariant if they only delete rows. *)
LEMMA QuietStep ==
  ASSUME TypeOK, TypeOK', Inv,
         \A t \in Tokens : refresh'[t] \in {None, refresh[t]},
         \A c \in Codes : codes'[c] \in {None, codes[c]},
         \A q \in Requests : req'[q] = req[q] \/ QuietChange(q)
  PROVE  Inv'
<1> USE DEF Inv
<1>1. \A q \in Requests : /\ req'[q].won = req[q].won
                          /\ req'[q].grant = req[q].grant
                          /\ req'[q].heir = req[q].heir
                          /\ req[q].won => /\ req'[q].input = req[q].input
                                           /\ req'[q].proof = req[q].proof
                          /\ req'[q].pc = "minting" => req[q].pc = "minting"
  BY DEF QuietChange
<1>2. StagesOK'
  BY DEF QuietChange, StagesOK
<1>3. HeirsAreUnique'
  BY <1>1 DEF HeirsAreUnique
<1>4. RowsComeFromRequests'
  BY <1>1 DEF RowsComeFromRequests, TypeOK
<1>5. StoredCodesAreUnspent'
  BY NoneAssumption DEF StoredCodesAreUnspent, QuietChange
<1>6. UnconsumedIsUnspent'
  BY <1>1 DEF UnconsumedIsUnspent, SpentBy
<1>7. ConsumedIsSpent'
  BY <1>1 DEF ConsumedIsSpent, Spent, SpentBy
<1>8. HeldTokensWereSaved'
  <2>1. \A t : EverSaved(t)' <=> EverSaved(t)
    BY <1>1 DEF EverSaved
  <2>2. QED
    BY <1>1, <2>1 DEF HeldTokensWereSaved, QuietChange
<1>9. PeekStillHolds'
  BY DEF PeekStillHolds, QuietChange, Peeked, TypeOK, Request
<1>10. OneWinner'
  BY <1>1 DEF OneWinner
<1>11. OneTip'
  BY <1>1 DEF OneTip, LiveIn, MintingIn, InFamily
<1>12. LineageNarrows'
  <2>1. \A q \in Requests : req[q].grant # None => req[q].won
    BY DEF StagesOK, StageOK
  <2>2. QED
    BY <1>1, <2>1 DEF LineageNarrows
<1>13. MistakesDoNotBurn'
  BY <1>1 DEF MistakesDoNotBurn, QuietChange
<1>14. ReuseHasAnEarlierWinner'
  BY <1>1 DEF ReuseHasAnEarlierWinner, QuietChange, SpentBy
<1>15. QED
  BY <1>2, <1>3, <1>4, <1>5, <1>6, <1>7, <1>8, <1>9, <1>10, <1>11, <1>12, <1>13, <1>14

(* A request wins the credential p.input, which nobody has won before. *)
LEMMA WinStep ==
  ASSUME TypeOK, TypeOK', Inv,
         NEW r \in Requests, NEW p, p = req'[r],
         \A q \in Requests : q # r => req'[q] = req[q],
         ~req[r].won, StageOK(p), p.won, p.heir = None,
         p.pc # "peeked", p.out # "reuse",
         p.out = "rejected" => p.op = "exchange",
         \A q \in Requests : ~SpentBy(p.input, q),
         \A c \in Codes : codes'[c] \in {None, codes[c]},
         p.input \in Codes => codes'[p.input] = None,
         p.input \in Tokens => /\ EverSaved(p.input)
                               /\ refresh'[p.input] # None
                               /\ refresh'[p.input].consumedAt # None,
         \A t \in Tokens :
           \/ refresh'[t] = refresh[t]
           \/ /\ t = p.input
              /\ refresh[t] # None
              /\ refresh'[t].grant = refresh[t].grant,
         p.pc = "minting" =>
           /\ \A t \in Tokens : ~LiveIn(t, p.grant.family)'
           /\ \A q \in Requests : q # r => ~MintingIn(q, p.grant.family),
         \A q \in Requests :
           req[q].heir # None /\ p.input = req[q].heir /\ p.grant # None =>
             /\ p.grant.scopes \subseteq req[q].grant.scopes
             /\ [p.grant EXCEPT !.scopes = {}] = [req[q].grant EXCEPT !.scopes = {}]
             /\ p.grant.jkt # None => p.proof = p.grant.jkt
  PROVE  Inv'
<1> USE DEF Inv
<1>0. /\ req[r].grant = None
      /\ req[r].heir = None
      /\ \A q \in Requests : req[q].grant # None => req[q].won
      /\ \A q \in Requests : req[q].heir # None => req[q].grant # None
  BY DEF StagesOK, StageOK
<1>1. /\ \A q \in Requests : req[q].won => req'[q] = req[q]
      /\ \A q \in Requests : req'[q].heir = req[q].heir
      /\ \A q \in Requests : req[q].heir # None => req'[q] = req[q]
  BY <1>0
<1>2. StagesOK'
  BY DEF StagesOK
<1>3. HeirsAreUnique'
  BY <1>1 DEF HeirsAreUnique
<1>4. RowsComeFromRequests'
  BY <1>1, NoneAssumption DEF RowsComeFromRequests
<1>5. StoredCodesAreUnspent'
  BY <1>1, NoneAssumption DEF StoredCodesAreUnspent
<1>6. UnconsumedIsUnspent'
  BY <1>1 DEF UnconsumedIsUnspent, SpentBy
<1>7. ConsumedIsSpent'
  BY <1>1 DEF ConsumedIsSpent, Spent, SpentBy
<1>8. HeldTokensWereSaved'
  <2>1. \A t : EverSaved(t)' <=> EverSaved(t)
    BY <1>1 DEF EverSaved
  <2>2. QED
    BY <1>1, <2>1 DEF HeldTokensWereSaved
<1>9. PeekStillHolds'
  BY DEF PeekStillHolds, Peeked, TypeOK, Request
<1>10. OneWinner'
  BY <1>1 DEF OneWinner, SpentBy
<1>11. OneTip'
  <2>1. \A t \in Tokens, f \in Families : LiveIn(t, f)' => LiveIn(t, f)
    BY DEF LiveIn, InFamily
  <2>2. \A q \in Requests, f \in Families :
          MintingIn(q, f)' => \/ MintingIn(q, f)
                              \/ q = r /\ p.pc = "minting" /\ f = p.grant.family
    BY DEF MintingIn
  <2>3. QED
    BY <2>1, <2>2 DEF OneTip
<1>12. LineageNarrows'
  <2> SUFFICES ASSUME NEW a \in Requests, NEW b \in Requests,
                      req'[a].heir # None, req'[b].input = req'[a].heir,
                      req'[b].grant # None
               PROVE  /\ req'[b].grant.scopes \subseteq req'[a].grant.scopes
                      /\ [req'[b].grant EXCEPT !.scopes = {}]
                           = [req'[a].grant EXCEPT !.scopes = {}]
                      /\ req'[b].grant.jkt # None => req'[b].proof = req'[b].grant.jkt
    BY DEF LineageNarrows
  <2>1. req'[a] = req[a]
    BY <1>1
  <2>2. CASE b = r
    BY <2>1, <2>2
  <2>3. CASE b # r
    BY <2>1, <2>3 DEF LineageNarrows
  <2>4. QED
    BY <2>2, <2>3
<1>13. MistakesDoNotBurn'
  BY <1>1 DEF MistakesDoNotBurn
<1>14. ReuseHasAnEarlierWinner'
  BY <1>1 DEF ReuseHasAnEarlierWinner
<1>15. QED
  BY <1>2, <1>3, <1>4, <1>5, <1>6, <1>7, <1>8, <1>9, <1>10, <1>11, <1>12, <1>13, <1>14

(* What Answered does to a request. *)
LEMMA AnsweredFields ==
  ASSUME NEW q \in RequestRecord, NEW result
  PROVE  LET p == Answered(q, result)
         IN /\ p.pc = "done" /\ p.out = result
            /\ p.op = q.op /\ p.input = q.input /\ p.won = q.won
            /\ p.grant = q.grant /\ p.heir = q.heir /\ p.proof = q.proof
  BY DEF Answered, RequestRecord

(* Answering without having won anything is quiet. *)
LEMMA QuietAnswer ==
  ASSUME TypeOK, NEW r \in Requests, NEW q \in RequestRecord, StageOK(req[r]),
         NEW result \in {"ok", "rejected", "gone", "reuse", "failed", "noop"},
         req'[r] = Answered(q, result),
         q.won = req[r].won, q.grant = req[r].grant, q.heir = req[r].heir,
         req[r].won => q.input = req[r].input /\ q.proof = req[r].proof,
         q.input \in Codes => codes'[q.input] = None,
         result = "rejected" => ~q.won,
         result = "reuse" =>
           /\ q.op = "refresh"
           /\ \E p \in Requests : p # r /\ SpentBy(q.input, p)
  PROVE  QuietChange(r)
<1> DEFINE p == Answered(q, result)
<1>1. /\ p.pc = "done" /\ p.out = result
      /\ p.op = q.op /\ p.input = q.input /\ p.won = q.won
      /\ p.grant = q.grant /\ p.heir = q.heir /\ p.proof = q.proof
  BY AnsweredFields
<1>2. req'[r] = p
  OBVIOUS
<1> HIDE DEF p
<1>3. StageOK(p)
  BY <1>1 DEF StageOK
<1>4. ~Peeked(r, "refresh")'
  BY <1>1, <1>2 DEF Peeked
<1>5. QED
  BY <1>1, <1>2, <1>3, <1>4 DEF QuietChange

----------------------------------------------------------------------------
(* Every step keeps the invariant: an action at a time. *)
LEMMA InvStep ==
  ASSUME TypeOK, TypeOK', Inv, [Next]_vars
  PROVE  Inv'
<1> USE DEF store
<1>a. \A r \in Requests : /\ req[r] \in Request /\ req[r] \in RequestRecord
                          /\ StageOK(req[r])
  BY DEF TypeOK, Request, Inv, StagesOK
<1>b. ASSUME NEW r \in Requests, NEW q, Becomes(r, q)
      PROVE  /\ req'[r] = q
             /\ \A x \in Requests : x # r => req'[x] = req[x]
  BY <1>b DEF Becomes, TypeOK
<1>c. /\ Idle.pc = "idle" /\ Idle.input = None /\ Idle.won = FALSE /\ Idle.grant = None
      /\ Idle.heir = None /\ Idle \in RequestRecord
  BY DEF Idle, RequestRecord
<1>d. \A r \in Requests : req[r].pc = "idle" => req[r] = Idle
  BY <1>a DEF StageOK
<1>1. ASSUME NEW c \in Codes, SaveCode(c) PROVE Inv'
  <2>1. \A r \in Requests : req[r].input # c
    BY <1>1 DEF SaveCode, FreshCode
  <2>2. \A x \in Codes : x # c => codes'[x] = codes[x]
    BY <1>1 DEF SaveCode, TypeOK
  <2>3. req' = req /\ refresh' = refresh
    BY <1>1 DEF SaveCode
  <2>4. StoredCodesAreUnspent'
    BY <2>1, <2>2, <2>3 DEF StoredCodesAreUnspent, Inv
  <2>5. QED
    BY <2>3, <2>4 DEF Inv, StagesOK, HeirsAreUnique, RowsComeFromRequests,
         UnconsumedIsUnspent, ConsumedIsSpent, HeldTokensWereSaved, PeekStillHolds,
         OneWinner, OneTip, LineageNarrows, MistakesDoNotBurn, EverSaved, Spent,
         ReuseHasAnEarlierWinner, SpentBy, Peeked, LiveIn, MintingIn, InFamily
<1>2. ASSUME NEW r \in Requests, NEW c \in Codes, ExchangeUnknown(r, c) PROVE Inv'
  <2> DEFINE q == [Idle EXCEPT !.op = "exchange"]
  <2>1. req[r] = Idle
    BY <1>2, <1>d DEF ExchangeUnknown
  <2>2. /\ q \in RequestRecord /\ q.input = None
        /\ q.won = FALSE /\ q.grant = None /\ q.heir = None
    BY DEF Idle, RequestRecord
  <2>3. req'[r] = Answered(q, "gone") /\ \A x \in Requests : x # r => req'[x] = req[x]
    BY <1>2, <1>b DEF ExchangeUnknown
  <2> HIDE DEF q
  <2>4. QuietChange(r)
    BY <2>1, <2>2, <2>3, <1>a, <1>c, NoneAssumption, QuietAnswer
  <2>5. QED
    BY <1>2, <2>3, <2>4, QuietStep DEF ExchangeUnknown
<1>3. ASSUME NEW r \in Requests, NEW c \in Codes, ExchangeExpired(r, c) PROVE Inv'
  <2> DEFINE q == [Idle EXCEPT !.op = "exchange", !.input = c]
  <2>1. req[r] = Idle
    BY <1>3, <1>d DEF ExchangeExpired
  <2>2. /\ q \in RequestRecord /\ q.input = c
        /\ q.won = FALSE /\ q.grant = None /\ q.heir = None
    BY DEF Idle, RequestRecord
  <2>3. req'[r] = Answered(q, "gone") /\ \A x \in Requests : x # r => req'[x] = req[x]
    BY <1>3, <1>b DEF ExchangeExpired
  <2>4. \A x \in Codes : codes'[x] = IF x = c THEN None ELSE codes[x]
    BY <1>3 DEF ExchangeExpired, TypeOK
  <2> HIDE DEF q
  <2>5. QuietChange(r)
    BY <2>1, <2>2, <2>3, <2>4, <1>a, <1>c, QuietAnswer
  <2>6. QED
    BY <1>3, <2>3, <2>4, <2>5, QuietStep DEF ExchangeExpired
<1>4. ASSUME NEW r \in Requests, NEW c \in Codes, NEW client \in Clients,
             NEW secret \in Secrets, NEW b \in Bindings,
             NEW proof \in Keys \cup {None},
             ExchangeConsume(r, c, client, secret, b, proof)
      PROVE  Inv'
  <2> DEFINE won == [Idle EXCEPT !.op = "exchange", !.input = c,
                                 !.proof = proof, !.won = TRUE]
             grant(f) == [client |-> client, subject |-> codes[c].subject,
                          scopes |-> codes[c].scopes, jkt |-> proof,
                          family |-> f]
             minting(f) == [won EXCEPT !.pc = "minting", !.at = now,
                                       !.grant = grant(f)]
  <2>1. req[r] = Idle
    BY <1>4, <1>d DEF ExchangeConsume
  <2>2. /\ won \in RequestRecord /\ won.input = c /\ won.op = "exchange"
        /\ won.won = TRUE /\ won.grant = None /\ won.heir = None
    BY DEF Idle, RequestRecord
  <2>3. \/ Becomes(r, Answered(won, "rejected"))
        \/ \E f \in Families : FreshFamily(f) /\ Becomes(r, minting(f))
    BY <1>4 DEF ExchangeConsume
  <2>4. /\ refresh' = refresh
        /\ \A x \in Codes : codes'[x] = IF x = c THEN None ELSE codes[x]
    BY <1>4 DEF ExchangeConsume, TypeOK
  <2>5. \A q \in Requests : ~SpentBy(c, q)
    BY <1>4 DEF ExchangeConsume, Inv, StoredCodesAreUnspent, SpentBy
  <2>6. c \notin Tokens /\ c # None /\ \A q \in Requests : req[q].heir # c
    BY <1>a, GrantsAssumption, NoneAssumption DEF RequestRecord
  <2>7. CASE Becomes(r, Answered(won, "rejected"))
    <3> DEFINE p == Answered(won, "rejected")
    <3>1. req'[r] = p /\ \A x \in Requests : x # r => req'[x] = req[x]
      BY <2>7, <1>b
    <3> HIDE DEF won
    <3>2. /\ p.pc = "done" /\ p.out = "rejected" /\ p.op = "exchange"
          /\ p.input = c /\ p.won = TRUE /\ p.grant = None /\ p.heir = None
      BY <2>2, AnsweredFields
    <3> HIDE DEF p
    <3>3. StageOK(p)
      BY <2>6, <3>2 DEF StageOK
    <3>4. QED
      BY <2>1, <2>4, <2>5, <2>6, <3>1, <3>2, <3>3, <1>c, WinStep
  <2>8. ASSUME NEW f \in Families, FreshFamily(f), Becomes(r, minting(f))
        PROVE  Inv'
    <3> DEFINE p == minting(f)
    <3>1. req'[r] = p /\ \A x \in Requests : x # r => req'[x] = req[x]
      BY <2>8, <1>b
    <3>2. /\ p.pc = "minting" /\ p.out = "none" /\ p.op = "exchange"
          /\ p.input = c /\ p.won = TRUE /\ p.heir = None
          /\ p.grant = grant(f) /\ p.grant.family = f
      BY DEF Idle
    <3> HIDE DEF p, minting, won, grant
    <3>3. StageOK(p)
      BY <2>6, <3>2 DEF StageOK
    <3>4. \A q \in Requests : ~MintingIn(q, f)
      BY <2>8, <1>a DEF MintingIn, FreshFamily, Request
    <3>5. \A t \in Tokens : ~InFamily(t, f)
      <4>1. \A t \in Tokens : refresh[t] # None =>
              \E q \in Requests : req[q].grant = refresh[t].grant
        BY DEF Inv, RowsComeFromRequests
      <4>2. \A t \in Tokens : refresh[t] # None => refresh[t].grant # None
        BY RowType, NoneIsNoRow
      <4>3. QED
        BY <2>8, <4>1, <4>2 DEF InFamily, FreshFamily
    <3>6. \A t \in Tokens : ~LiveIn(t, f)'
      BY <2>4, <3>5 DEF LiveIn, InFamily
    <3>7. QED
      BY <2>1, <2>4, <2>5, <2>6, <3>1, <3>2, <3>3, <3>4, <3>6, <1>c, WinStep
  <2>9. QED
    BY <2>3, <2>7, <2>8
<1>5. ASSUME NEW r \in Requests, NEW t \in Tokens,
             NEW client \in Clients \cup {None}, NEW secret \in Secrets,
             NEW proof \in Keys \cup {None}, NEW asked \in SUBSET Scopes,
             RefreshPeek(r, t, client, secret, proof, asked)
      PROVE  Inv'
  <2> DEFINE begun == [Idle EXCEPT !.op = "refresh"]
             peeked == [Idle EXCEPT !.pc = "peeked", !.op = "refresh",
                          !.input = t, !.ask = asked, !.proof = proof]
  <2>1. req[r] = Idle
    BY <1>5, <1>d DEF RefreshPeek
  <2>2. /\ begun \in RequestRecord /\ begun.input = None
        /\ begun.won = FALSE /\ begun.grant = None /\ begun.heir = None
    BY DEF Idle, RequestRecord
  <2>3. /\ peeked.pc = "peeked" /\ peeked.op = "refresh" /\ peeked.input = t
        /\ peeked.ask = asked /\ peeked.proof = proof /\ peeked.out = "none"
        /\ peeked.won = FALSE /\ peeked.grant = None /\ peeked.heir = None
    BY DEF Idle
  <2>4. \/ /\ Peekable(t)
           /\ RefreshAccepts(refresh[t].grant, client, secret, proof, asked)
           /\ Becomes(r, peeked)
        \/ Becomes(r, Answered(begun, "rejected"))
        \/ Becomes(r, Answered(begun, "gone"))
    BY <1>5 DEF RefreshPeek
  <2>5. refresh' = refresh /\ codes' = codes
    BY <1>5 DEF RefreshPeek
  <2> HIDE DEF begun, peeked
  <2>6. ASSUME NEW result \in {"rejected", "gone"}, Becomes(r, Answered(begun, result))
        PROVE  Inv'
    <3>1. /\ req'[r] = Answered(begun, result)
          /\ \A x \in Requests : x # r => req'[x] = req[x]
      BY <2>6, <1>b
    <3>2. QuietChange(r)
      BY <2>1, <2>2, <3>1, <1>a, <1>c, NoneAssumption, QuietAnswer
    <3>3. QED
      BY <2>5, <3>1, <3>2, QuietStep
  <2>7. CASE /\ Peekable(t)
             /\ RefreshAccepts(refresh[t].grant, client, secret, proof, asked)
             /\ Becomes(r, peeked)
    <3>1. req'[r] = peeked /\ \A x \in Requests : x # r => req'[x] = req[x]
      BY <2>7, <1>b
    <3>2. EverSaved(t)
      BY <2>7 DEF Peekable, EverSaved, Inv, RowsComeFromRequests
    <3>3. StageOK(peeked)
      BY <2>3 DEF StageOK
    <3>4. /\ asked \subseteq refresh[t].grant.scopes
          /\ refresh[t].grant.jkt # None => proof = refresh[t].grant.jkt
      BY <2>7 DEF RefreshAccepts
    <3>5. QuietChange(r)
      BY <2>1, <2>3, <2>5, <3>1, <3>2, <3>3, <3>4, <1>c, GrantsAssumption
         DEF QuietChange
    <3>6. QED
      BY <2>5, <3>1, <3>5, QuietStep
  <2>8. QED
    BY <2>4, <2>6, <2>7
<1>6. ASSUME NEW r \in Requests, RefreshClaim(r) PROVE Inv'
  <2> DEFINE t == req[r].input
             g == refresh[t].grant
             narrowed == [g EXCEPT !.scopes = req[r].ask]
             minting == [req[r] EXCEPT !.pc = "minting", !.won = TRUE, !.at = now,
                           !.ask = {}, !.grant = narrowed]
  <2>1. /\ req[r].pc = "peeked" /\ req[r].op = "refresh"
        /\ t \in Tokens /\ t \notin Codes /\ t # None
        /\ ~req[r].won /\ req[r].grant = None /\ req[r].heir = None
        /\ req[r].out \notin {"revoked", "reuse", "rejected"}
    BY <1>6, <1>a, GrantsAssumption, NoneAssumption
       DEF RefreshClaim, Peeked, StageOK, Request
  <2>2. Claimable(t) /\ Claim(t) /\ codes' = codes /\ refresh[t] # None
    BY <1>6 DEF RefreshClaim, Claimable
  <2>3. g \in Grant /\ refresh[t] \in StoredRefresh
    BY <2>1, <2>2, RowType
  <2>4. /\ req[r].ask \subseteq g.scopes
        /\ g.jkt # None => req[r].proof = g.jkt
    BY <2>1, <2>2 DEF Inv, PeekStillHolds, Peeked
  <2>5. Becomes(r, minting)
    BY <1>6, <2>4 DEF RefreshClaim
  <2>6. req'[r] = minting /\ \A x \in Requests : x # r => req'[x] = req[x]
    BY <2>5, <1>b
  <2>7. /\ minting.pc = "minting" /\ minting.out = req[r].out /\ minting.input = t
        /\ minting.op = "refresh"
        /\ minting.won = TRUE /\ minting.heir = None /\ minting.grant = narrowed
        /\ minting.proof = req[r].proof
    BY <1>a, <2>1 DEF RequestRecord
  <2>8. /\ narrowed \in Grant /\ narrowed.family = g.family
        /\ narrowed.jkt = g.jkt /\ narrowed.scopes = req[r].ask
        /\ [narrowed EXCEPT !.scopes = {}] = [g EXCEPT !.scopes = {}]
    BY <1>a, <2>3 DEF Grant, RequestRecord
  <2>9. /\ refresh'[t] # None /\ refresh'[t].grant = g
        /\ refresh'[t].consumedAt # None
        /\ \A u \in Tokens : u # t => refresh'[u] = refresh[u]
    <3>1. refresh'[t] = [refresh[t] EXCEPT !.consumedAt = now]
      BY <2>1, <2>2 DEF Claim, TypeOK
    <3>2. [refresh[t] EXCEPT !.consumedAt = now] \in StoredRefresh
      BY <2>3 DEF StoredRefresh, TypeOK
    <3>3. now # None
      BY NoneAssumption DEF TypeOK
    <3>4. /\ [refresh[t] EXCEPT !.consumedAt = now].grant = g
          /\ [refresh[t] EXCEPT !.consumedAt = now].consumedAt = now
      BY <2>3 DEF StoredRefresh
    <3>5. \A u \in Tokens : u # t => refresh'[u] = refresh[u]
      BY <2>1, <2>2 DEF Claim, TypeOK
    <3>6. QED
      BY <3>1, <3>2, <3>3, <3>4, <3>5, NoneIsNoRow
  <2>10. LiveIn(t, g.family)
    BY <2>2 DEF LiveIn, InFamily, Claimable
  <2>11. g.family \in Families
    BY <2>3 DEF Grant
  <2> HIDE DEF t, g, narrowed, minting
  <2>12. PICK p : p = minting
    OBVIOUS
  <2>13. StageOK(p)
    BY <2>1, <2>7, <2>12 DEF StageOK
  <2>14. \A q \in Requests : ~SpentBy(t, q)
    BY <2>1, <2>2 DEF Inv, UnconsumedIsUnspent, Claimable
  <2>15. EverSaved(t)
    BY <2>1, <2>2 DEF Inv, RowsComeFromRequests, EverSaved
  <2>16. \A u \in Tokens : ~LiveIn(u, p.grant.family)'
    <3>1. PICK f \in Families : f = g.family
      BY <2>11
    <3>2. \A u \in Tokens : u # t => ~LiveIn(u, f)
      BY <2>1, <2>10, <3>1 DEF Inv, OneTip
    <3>3. \A u \in Tokens : ~LiveIn(u, f)'
      BY <2>1, <2>9, <3>2 DEF LiveIn, InFamily
    <3>4. p.grant.family = f
      BY <2>7, <2>8, <2>12, <3>1
    <3>5. QED
      BY <3>3, <3>4
  <2>17. \A q \in Requests : ~MintingIn(q, p.grant.family)
    BY <2>1, <2>7, <2>8, <2>10, <2>11, <2>12 DEF Inv, OneTip
  <2>18. ASSUME NEW q \in Requests, req[q].heir = t
         PROVE  req[q].grant = g
    BY <2>1, <2>2, <2>18 DEF Inv, RowsComeFromRequests, HeirsAreUnique, g
  <2>19. \A q \in Requests :
            req[q].heir # None /\ p.input = req[q].heir /\ p.grant # None =>
              /\ p.grant.scopes \subseteq req[q].grant.scopes
              /\ [p.grant EXCEPT !.scopes = {}] = [req[q].grant EXCEPT !.scopes = {}]
              /\ p.grant.jkt # None => p.proof = p.grant.jkt
    BY <2>4, <2>7, <2>8, <2>12, <2>18
  <2>20. \A u \in Tokens :
            \/ refresh'[u] = refresh[u]
            \/ /\ u = p.input
               /\ refresh[u] # None
               /\ refresh'[u].grant = refresh[u].grant
    BY <2>2, <2>7, <2>9, <2>12 DEF g
  <2>21. QED
    BY <2>1, <2>2, <2>6, <2>7, <2>9, <2>12, <2>13, <2>14, <2>15, <2>16, <2>17,
       <2>19, <2>20, WinStep
<1>7. ASSUME NEW r \in Requests, RefreshReuse(r) PROVE Inv'
  <2>1. req[r].input \in Tokens /\ req[r].op = "refresh" /\ ~req[r].won
    BY <1>7, <1>a DEF RefreshReuse, Peeked, Request, StageOK
  <2>2. /\ req'[r] = Answered(req[r], "reuse")
        /\ \A x \in Requests : x # r => req'[x] = req[x]
    BY <1>7, <1>b DEF RefreshReuse, Answer
  <2>3. \E p \in Requests : p # r /\ SpentBy(req[r].input, p)
    BY <1>7, <2>1 DEF RefreshReuse, Reused, Inv, ConsumedIsSpent, Spent, SpentBy
  <2>4. /\ codes' = codes
        /\ \A t \in Tokens : refresh'[t] \in {None, refresh[t]}
    BY <1>7 DEF RefreshReuse, RevokeFamily
  <2>5. QuietChange(r)
    BY <2>1, <2>2, <2>3, <1>a, GrantsAssumption, QuietAnswer
  <2>6. QED
    BY <2>2, <2>4, <2>5, QuietStep
<1>8. ASSUME NEW r \in Requests, NEW result \in {"gone", "failed", "ok", "noop"},
             Answer(r, result), codes' = codes, 
             \A t \in Tokens : refresh'[t] \in {None, refresh[t]}
      PROVE  Inv'
  <2>1. /\ req'[r] = Answered(req[r], result)
        /\ \A x \in Requests : x # r => req'[x] = req[x]
    BY <1>8, <1>b DEF Answer
  <2>2. req[r].input \in Codes => codes'[req[r].input] = None
    BY <1>8 DEF Inv, StoredCodesAreUnspent, TypeOK
  <2>3. QuietChange(r)
    BY <2>1, <2>2, <1>a, QuietAnswer
  <2>4. QED
    BY <1>8, <2>1, <2>3, QuietStep
<1>10. ASSUME NEW r \in Requests, NEW t \in Tokens, SaveRefresh(r, t) PROVE Inv'
  <2> DEFINE saved == [req[r] EXCEPT !.pc = "saved", !.heir = t, !.at = 0]
  <2>1. /\ req[r].pc = "minting" /\ req[r].won /\ req[r].heir = None
        /\ req[r].grant \in Grant /\ req[r].grant # None
        /\ req[r].out \notin {"revoked", "reuse", "rejected"}
    BY <1>10, <1>a DEF SaveRefresh, StageOK, Request, RequestRecord
  <2>2. /\ saved.pc = "saved" /\ saved.heir = t
        /\ saved.op = req[r].op /\ saved.input = req[r].input
        /\ saved.won = req[r].won /\ saved.grant = req[r].grant
        /\ saved.proof = req[r].proof /\ saved.out = req[r].out
    BY <1>a DEF RequestRecord
  <2>3. Becomes(r, saved) /\ codes' = codes /\ \A q \in Requests : req[q].heir # t
    BY <1>10 DEF SaveRefresh, FreshToken
  <2>4. req'[r] = saved /\ \A x \in Requests : x # r => req'[x] = req[x]
    BY <2>3, <1>b
  <2>5. /\ refresh'[t].grant = req[r].grant /\ refresh'[t].consumedAt = None
        /\ \A u \in Tokens : u # t => refresh'[u] = refresh[u]
    <3>1. PICK issuedAt \in req[r].at .. now :
            refresh' = [refresh EXCEPT ![t] =
                          [grant |-> req[r].grant,
                           expiresAt |-> issuedAt + RefreshTtl,
                           consumedAt |-> None]]
      BY <1>10 DEF SaveRefresh
    <3>2. refresh'[t] = [grant |-> req[r].grant,
                         expiresAt |-> issuedAt + RefreshTtl,
                         consumedAt |-> None]
      BY <3>1 DEF TypeOK
    <3>3. QED
      BY <3>1, <3>2 DEF TypeOK
  <2>6. refresh[t] = None
    BY <2>3 DEF Inv, RowsComeFromRequests
  <2>7. \A q \in Requests : req[q].won \/ req[q].pc = "peeked" => req[q].input # t
    BY <2>3 DEF Inv, HeldTokensWereSaved, EverSaved
  <2>8. t # None
    BY NoneAssumption
  <2> HIDE DEF saved
  <2>9. \A q \in Requests : /\ req'[q].won = req[q].won
                            /\ req'[q].op = req[q].op
                            /\ req'[q].input = req[q].input
                            /\ req'[q].grant = req[q].grant
                            /\ req'[q].proof = req[q].proof
                            /\ req'[q].out = req[q].out
                            /\ req[q].heir # None => req'[q].heir = req[q].heir
                            /\ q # r => req'[q].heir = req[q].heir
    BY <2>1, <2>2, <2>4
  <2>10. ASSUME NEW u \in Tokens, EverSaved(u) PROVE EverSaved(u)'
    <3>1. PICK q \in Requests : req[q].heir = u
      BY <2>10 DEF EverSaved
    <3>2. req'[q].heir = u
      BY <2>9, <3>1, NoneAssumption
    <3>3. QED
      BY <3>2 DEF EverSaved
  <2>11. StagesOK'
    <3>1. StageOK(saved)
      BY <1>a, <2>1, <2>2 DEF StageOK
    <3>2. QED
      BY <2>4, <3>1, <1>a DEF StagesOK
  <2>12. HeirsAreUnique'
    BY <2>2, <2>3, <2>4, <2>9 DEF Inv, HeirsAreUnique
  <2>13. RowsComeFromRequests'
    BY <2>2, <2>4, <2>5, <2>9, NoneAssumption DEF Inv, RowsComeFromRequests
  <2>14. StoredCodesAreUnspent'
    BY <2>3, <2>9 DEF Inv, StoredCodesAreUnspent
  <2>15. UnconsumedIsUnspent'
    BY <2>5, <2>7, <2>9 DEF Inv, UnconsumedIsUnspent, SpentBy
  <2>16. ConsumedIsSpent'
    BY <2>5, <2>9 DEF Inv, ConsumedIsSpent, Spent, SpentBy
  <2>17. HeldTokensWereSaved'
    <3>1. \A q \in Requests : req'[q].pc = "peeked" => req[q].pc = "peeked"
      BY <2>2, <2>4
    <3>2. QED
      BY <2>9, <2>10, <3>1, NoneAssumption DEF Inv, HeldTokensWereSaved
  <2>18. PeekStillHolds'
    BY <2>2, <2>4, <2>5, <2>7, <1>a DEF Inv, PeekStillHolds, Peeked, Request
  <2>19. OneWinner'
    BY <2>9 DEF Inv, OneWinner
  <2>20. OneTip'
    <3>1. \A u \in Tokens, f \in Families :
            LiveIn(u, f)' => LiveIn(u, f) \/ (u = t /\ MintingIn(r, f))
      BY <2>1, <2>5 DEF LiveIn, InFamily, MintingIn
    <3>2. \A q \in Requests, f \in Families : MintingIn(q, f)' => MintingIn(q, f) /\ q # r
      BY <2>2, <2>4 DEF MintingIn
    <3>3. QED
      BY <3>1, <3>2 DEF Inv, OneTip
  <2>21. LineageNarrows'
    <3> SUFFICES ASSUME NEW a \in Requests, NEW b \in Requests,
                        req'[a].heir # None, req'[b].input = req'[a].heir,
                        req'[b].grant # None
                 PROVE  /\ req'[b].grant.scopes \subseteq req'[a].grant.scopes
                        /\ [req'[b].grant EXCEPT !.scopes = {}]
                             = [req'[a].grant EXCEPT !.scopes = {}]
                        /\ req'[b].grant.jkt # None =>
                             req'[b].proof = req'[b].grant.jkt
      BY DEF LineageNarrows
    <3>1. req[b].won
      BY <1>a, <2>9 DEF StageOK
    <3>2. a # r
      BY <2>2, <2>4, <2>7, <2>9, <3>1
    <3>3. QED
      BY <2>9, <3>2 DEF Inv, LineageNarrows
  <2>22. MistakesDoNotBurn' /\ ReuseHasAnEarlierWinner'
    BY <2>9 DEF Inv, MistakesDoNotBurn, ReuseHasAnEarlierWinner
  <2>23. QED
    BY <2>11, <2>12, <2>13, <2>14, <2>15, <2>16, <2>17, <2>18, <2>19, <2>20,
       <2>21, <2>22 DEF Inv
<1>11. ASSUME NEW r \in Requests,
              RefreshMiss(r) \/ MintFails(r) \/ Respond(r)
       PROVE  Inv'
  BY <1>8, <1>11 DEF RefreshMiss, MintFails, Respond
<1>12. ASSUME NEW r \in Requests, NEW t \in Tokens,
              NEW client \in Clients \cup {None}, NEW secret \in Secrets,
              RevokePeek(r, t, client, secret)
       PROVE  Inv'
  <2> DEFINE begun == [Idle EXCEPT !.op = "revoke", !.input = t]
             peeked == [begun EXCEPT !.pc = "peeked"]
  <2>1. req[r] = Idle
    BY <1>12, <1>d DEF RevokePeek
  <2>2. /\ begun \in RequestRecord /\ begun.input = t
        /\ begun.won = FALSE /\ begun.grant = None /\ begun.heir = None
    BY DEF Idle, RequestRecord
  <2>3. /\ peeked.pc = "peeked" /\ peeked.op = "revoke" /\ peeked.input = t
        /\ peeked.out = "none"
        /\ peeked.won = FALSE /\ peeked.grant = None /\ peeked.heir = None
    BY DEF Idle
  <2>4. \/ \E result \in {"rejected", "noop"} :
             Becomes(r, Answered(begun, result))
        \/ Peekable(t) /\ Becomes(r, peeked)
    BY <1>12 DEF RevokePeek
  <2>5. refresh' = refresh /\ codes' = codes
    BY <1>12 DEF RevokePeek
  <2> HIDE DEF begun, peeked
  <2>6. ASSUME NEW result \in {"rejected", "noop"},
               Becomes(r, Answered(begun, result))
        PROVE  Inv'
    <3>1. /\ req'[r] = Answered(begun, result)
          /\ \A x \in Requests : x # r => req'[x] = req[x]
      BY <2>6, <1>b
    <3>2. QuietChange(r)
      BY <2>1, <2>2, <3>1, <1>a, <1>c, GrantsAssumption, QuietAnswer
    <3>3. QED
      BY <2>5, <3>1, <3>2, QuietStep
  <2>7. CASE Peekable(t) /\ Becomes(r, peeked)
    <3>1. req'[r] = peeked /\ \A x \in Requests : x # r => req'[x] = req[x]
      BY <2>7, <1>b
    <3>2. EverSaved(t)
      BY <2>7 DEF Peekable, EverSaved, Inv, RowsComeFromRequests
    <3>3. StageOK(peeked)
      BY <2>3 DEF StageOK
    <3>4. QuietChange(r)
      BY <2>1, <2>3, <2>5, <3>1, <3>2, <3>3, <1>c, GrantsAssumption
         DEF QuietChange, Peeked
    <3>5. QED
      BY <2>5, <3>1, <3>4, QuietStep
  <2>8. QED
    BY <2>4, <2>6, <2>7
<1>13. ASSUME NEW r \in Requests, RevokeConsume(r) PROVE Inv'
  <2> DEFINE t == req[r].input
             won == [req[r] EXCEPT !.won = TRUE]
             p == Answered(won, "revoked")
  <2>1. /\ req[r].pc = "peeked" /\ req[r].op = "revoke"
        /\ t \in Tokens /\ t \notin Codes /\ t # None
        /\ ~req[r].won /\ req[r].grant = None /\ req[r].heir = None
    BY <1>13, <1>a, GrantsAssumption, NoneAssumption
       DEF RevokeConsume, Peeked, StageOK, Request
  <2>2. CASE Claimable(t) /\ Claim(t) /\ Becomes(r, p)
    <3>1. req'[r] = p /\ \A x \in Requests : x # r => req'[x] = req[x]
      BY <2>2, <1>b
    <3>2. /\ won \in RequestRecord /\ won.won = TRUE /\ won.input = t
          /\ won.grant = None /\ won.heir = None /\ won.op = "revoke"
      BY <1>a, <2>1 DEF RequestRecord
    <3> HIDE DEF won
    <3>3. /\ p.pc = "done" /\ p.out = "revoked" /\ p.input = t /\ p.won = TRUE
          /\ p.op = "revoke" /\ p.grant = None /\ p.heir = None
      BY <3>2, AnsweredFields
    <3>4. refresh[t] \in StoredRefresh /\ refresh[t] # None
      BY <2>1, <2>2, RowType DEF Claimable
    <3>5. /\ refresh'[t] # None /\ refresh'[t].grant = refresh[t].grant
          /\ refresh'[t].consumedAt # None
          /\ \A u \in Tokens : u # t => refresh'[u] = refresh[u]
      <4>1. refresh'[t] = [refresh[t] EXCEPT !.consumedAt = now]
        BY <2>1, <2>2 DEF Claim, TypeOK
      <4>2. [refresh[t] EXCEPT !.consumedAt = now] \in StoredRefresh
        BY <3>4 DEF StoredRefresh, TypeOK
      <4>3. now # None
        BY NoneAssumption DEF TypeOK
      <4>4. /\ [refresh[t] EXCEPT !.consumedAt = now].grant = refresh[t].grant
            /\ [refresh[t] EXCEPT !.consumedAt = now].consumedAt = now
        BY <3>4 DEF StoredRefresh
      <4>5. \A u \in Tokens : u # t => refresh'[u] = refresh[u]
        BY <2>1, <2>2 DEF Claim, TypeOK
      <4>6. QED
        BY <4>1, <4>2, <4>3, <4>4, <4>5, NoneIsNoRow
    <3>6. codes' = codes
      BY <1>13 DEF RevokeConsume
    <3>7. \A q \in Requests : ~SpentBy(t, q)
      BY <2>1, <2>2 DEF Inv, UnconsumedIsUnspent, Claimable
    <3>8. EverSaved(t)
      BY <2>1, <3>4 DEF Inv, RowsComeFromRequests, EverSaved
    <3> HIDE DEF t, p
    <3>9. StageOK(p)
      BY <2>1, <3>3 DEF StageOK
    <3>10. QED
      BY <2>1, <3>1, <3>3, <3>4, <3>5, <3>6, <3>7, <3>8, <3>9, WinStep
  <2>3. CASE /\ Answer(r, "noop")
             /\ \A u \in Tokens : refresh'[u] \in {None, refresh[u]}
    BY <1>8, <1>13, <2>3 DEF RevokeConsume
  <2>4. QED
    BY <1>13, <2>2, <2>3 DEF RevokeConsume, RevokeFamily
<1>14. ASSUME NEW s \in Subjects, RevokeSubject(s) PROVE Inv'
  BY <1>14, QuietStep DEF RevokeSubject
<1>15. CASE Tick
  BY <1>15, QuietStep DEF Tick
<1>16. CASE UNCHANGED vars
  BY <1>16, QuietStep DEF vars
<1>99. QED
  BY <1>1, <1>2, <1>3, <1>4, <1>5, <1>6, <1>7, <1>10, <1>11, <1>12, <1>13,
     <1>14, <1>15, <1>16
     DEF Next, Exchange, Refresh, Revoke, Continue

----------------------------------------------------------------------------
(* A step after which a request mints only if it minted before. *)
Winds(q) ==
  /\ req[q].grant # None => req'[q].grant = req[q].grant
  /\ req'[q].pc = "minting" => req[q].pc = "minting"

(* If no request starts to mint and no row is added, the dead stay dead. *)
LEMMA WindingDown ==
  ASSUME TypeOK, NEW f \in Families, Dead(f),
         \A q \in Requests : Winds(q),
         \A t \in Tokens :
           \/ refresh'[t] \in {None, refresh[t]}
           \/ refresh'[t].consumedAt # None
  PROVE  Dead(f)'
<1>1. \A q \in Requests : req[q].pc = "minting" => req[q].grant # None
  BY DEF TypeOK, Request
<1>2. Started(f)'
  BY DEF Dead, Started, FreshFamily, Winds
<1>3. \A t \in Tokens : ~LiveIn(t, f)'
  BY DEF Dead, LiveIn, InFamily
<1>4. \A q \in Requests : ~MintingIn(q, f)'
  BY <1>1 DEF Dead, MintingIn, Winds
<1>5. QED
  BY <1>2, <1>3, <1>4 DEF Dead

(* No step revives a family that is over: the only steps that could add to  *)
(* it need an unconsumed token or a request minting in it, or start a       *)
(* family that nobody has drawn yet.                                        *)
LEMMA DeadStep ==
  ASSUME TypeOK, Inv, [Next]_vars, NEW f \in Families, Dead(f)
  PROVE  Dead(f)'
<1> USE DEF store
<1>a. \A r \in Requests : /\ req[r] \in RequestRecord
                          /\ StageOK(req[r])
  BY DEF TypeOK, Request, Inv, StagesOK
<1>b. ASSUME NEW r \in Requests, NEW q, Becomes(r, q)
      PROVE  /\ req'[r] = q
             /\ \A x \in Requests : x # r => req'[x] = req[x]
  BY <1>b DEF Becomes, TypeOK
<1>c. \A r \in Requests : req[r].pc \in {"idle", "peeked"} => req[r].grant = None
  BY <1>a DEF StageOK, Idle
<1>d. ASSUME NEW r \in Requests, NEW q, Becomes(r, q), q.pc # "minting",
             req[r].grant # None => q.grant = req[r].grant,
             \A t \in Tokens : \/ refresh'[t] \in {None, refresh[t]}
                               \/ refresh'[t].consumedAt # None
      PROVE  Dead(f)'
  BY <1>b, <1>d, WindingDown DEF Winds
<1>e. ASSUME NEW r \in Requests, NEW q \in RequestRecord, NEW result,
             Becomes(r, Answered(q, result)),
             req[r].grant # None => q.grant = req[r].grant,
             \A t \in Tokens : \/ refresh'[t] \in {None, refresh[t]}
                               \/ refresh'[t].consumedAt # None
      PROVE  Dead(f)'
  <2>1. Answered(q, result).pc = "done" /\ Answered(q, result).grant = q.grant
    BY AnsweredFields
  <2>2. QED
    BY <1>d, <1>e, <2>1
<1>f. Idle \in RequestRecord
  BY DEF Idle, RequestRecord
<1>g. ASSUME NEW t \in Tokens, Claimable(t), Claim(t)
      PROVE  \A u \in Tokens : \/ refresh'[u] = refresh[u]
                               \/ refresh'[u].consumedAt # None
  <2>1. refresh'[t] = [refresh[t] EXCEPT !.consumedAt = now]
    BY <1>g DEF Claim, TypeOK
  <2>2. [refresh[t] EXCEPT !.consumedAt = now].consumedAt = now
    BY <1>g, RowType DEF StoredRefresh, Claimable
  <2>3. now # None
    BY NoneAssumption DEF TypeOK
  <2>4. QED
    BY <1>g, <2>1, <2>2, <2>3 DEF Claim, TypeOK
<1>1. ASSUME NEW c \in Codes, SaveCode(c) PROVE Dead(f)'
  BY <1>1, WindingDown DEF SaveCode, Winds
<1>2. ASSUME NEW r \in Requests, NEW c \in Codes,
             ExchangeUnknown(r, c) \/ ExchangeExpired(r, c)
      PROVE  Dead(f)'
  <2>1. /\ [Idle EXCEPT !.op = "exchange"] \in RequestRecord
        /\ [Idle EXCEPT !.op = "exchange", !.input = c] \in RequestRecord
    BY DEF Idle, RequestRecord
  <2>2. QED
    BY <1>2, <1>c, <1>e, <2>1 DEF ExchangeUnknown, ExchangeExpired
<1>3. ASSUME NEW r \in Requests, NEW c \in Codes, NEW client \in Clients,
             NEW secret \in Secrets, NEW b \in Bindings,
             NEW proof \in Keys \cup {None},
             ExchangeConsume(r, c, client, secret, b, proof)
      PROVE  Dead(f)'
  <2> DEFINE won == [Idle EXCEPT !.op = "exchange", !.input = c,
                                 !.proof = proof, !.won = TRUE]
             minting(h) == [won EXCEPT
               !.pc = "minting", !.at = now,
               !.grant = [client |-> client, subject |-> codes[c].subject,
                          scopes |-> codes[c].scopes, jkt |-> proof,
                          family |-> h]]
  <2>1. won \in RequestRecord
    BY DEF Idle, RequestRecord
  <2>2. /\ req[r].grant = None /\ refresh' = refresh
        /\ \/ Becomes(r, Answered(won, "rejected"))
           \/ \E h \in Families : FreshFamily(h) /\ Becomes(r, minting(h))
    BY <1>3, <1>c DEF ExchangeConsume
  <2>3. CASE Becomes(r, Answered(won, "rejected"))
    <3> HIDE DEF won
    <3>1. QED
      BY <1>e, <2>1, <2>2, <2>3
  <2>4. ASSUME NEW h \in Families, FreshFamily(h), Becomes(r, minting(h))
        PROVE  Dead(f)'
    <3>1. h # f
      BY <2>4 DEF Dead, Started
    <3>2. /\ req'[r].grant.family = h
          /\ \A x \in Requests : x # r => req'[x] = req[x]
      <4>1. minting(h).grant.family = h
        BY DEF Idle
      <4>2. QED
        BY <2>4, <1>b, <4>1
    <3>3. Started(f)'
      BY <2>2, <3>2 DEF Dead, Started, FreshFamily
    <3>4. \A t \in Tokens : ~LiveIn(t, f)'
      BY <2>2 DEF Dead, LiveIn, InFamily
    <3>5. \A q \in Requests : ~MintingIn(q, f)'
      BY <3>1, <3>2 DEF Dead, MintingIn
    <3>6. QED
      BY <3>3, <3>4, <3>5 DEF Dead
  <2>5. QED
    BY <2>2, <2>3, <2>4
<1>4. ASSUME NEW r \in Requests, NEW t \in Tokens,
             NEW client \in Clients \cup {None}, NEW secret \in Secrets,
             NEW proof \in Keys \cup {None}, NEW asked \in SUBSET Scopes,
             RefreshPeek(r, t, client, secret, proof, asked)
      PROVE  Dead(f)'
  <2>1. /\ [Idle EXCEPT !.op = "refresh"] \in RequestRecord
        /\ [Idle EXCEPT !.pc = "peeked", !.op = "refresh", !.input = t,
                        !.ask = asked, !.proof = proof].pc = "peeked"
    BY DEF Idle, RequestRecord
  <2>2. req[r].grant = None
    BY <1>4, <1>c DEF RefreshPeek
  <2>3. QED
    BY <1>4, <1>d, <1>e, <2>1, <2>2 DEF RefreshPeek
<1>5. ASSUME NEW r \in Requests, RefreshClaim(r) PROVE Dead(f)'
  <2> DEFINE t == req[r].input
  <2>1. t \in Tokens /\ Claimable(t) /\ Claim(t) /\ req[r].grant = None
    BY <1>5, <1>c DEF RefreshClaim, Peeked, TypeOK, Request
  <2>2. refresh[t].grant.family # f
    BY <2>1 DEF Dead, LiveIn, InFamily, Claimable
  <2>3. refresh[t].grant \in Grant
    BY <2>1, RowType DEF Claimable
  <2> DEFINE narrowed == [refresh[t].grant EXCEPT !.scopes = req[r].ask]
             minting == [req[r] EXCEPT !.pc = "minting", !.won = TRUE, !.at = now,
                           !.ask = {}, !.grant = narrowed]
  <2>4. \/ Becomes(r, minting)
        \/ Becomes(r, Answered([req[r] EXCEPT !.won = TRUE], "rejected"))
    BY <1>5 DEF RefreshClaim
  <2>5. \A u \in Tokens : \/ refresh'[u] = refresh[u]
                          \/ refresh'[u].consumedAt # None
    BY <1>g, <2>1
  <2>6. CASE Becomes(r, Answered([req[r] EXCEPT !.won = TRUE], "rejected"))
    <3>1. [req[r] EXCEPT !.won = TRUE] \in RequestRecord
      BY <1>a DEF RequestRecord
    <3>2. QED
      BY <1>e, <2>1, <2>5, <2>6, <3>1
  <2>7. CASE Becomes(r, minting)
    <3>1. /\ req'[r].grant.family # f
          /\ \A x \in Requests : x # r => req'[x] = req[x]
      <4>1. minting.grant.family = refresh[t].grant.family
        BY <1>a, <2>3 DEF RequestRecord, Grant
      <4>2. QED
        BY <1>b, <2>2, <2>7, <4>1
    <3>2. Started(f)'
      BY <2>1, <3>1 DEF Dead, Started, FreshFamily
    <3>3. \A u \in Tokens : ~LiveIn(u, f)'
      BY <2>5 DEF Dead, LiveIn, InFamily
    <3>4. \A q \in Requests : ~MintingIn(q, f)'
      BY <3>1 DEF Dead, MintingIn
    <3>5. QED
      BY <3>2, <3>3, <3>4 DEF Dead
  <2>8. QED
    BY <2>4, <2>6, <2>7
<1>6. ASSUME NEW r \in Requests,
             \/ RefreshReuse(r)
             \/ RefreshMiss(r)
             \/ MintFails(r)
             \/ Respond(r)
      PROVE  Dead(f)'
  BY <1>6, <1>a, <1>e
     DEF RefreshReuse, RevokeFamily, RefreshMiss, MintFails, Respond, Answer
<1>7. ASSUME NEW r \in Requests, NEW t \in Tokens, SaveRefresh(r, t)
      PROVE  Dead(f)'
  <2> DEFINE saved == [req[r] EXCEPT !.pc = "saved", !.heir = t, !.at = 0]
  <2>1. req[r].grant.family # f
    BY <1>7 DEF Dead, MintingIn, SaveRefresh
  <2>2. saved.pc = "saved" /\ saved.grant = req[r].grant
    BY <1>a DEF RequestRecord
  <2>3. req'[r] = saved /\ \A x \in Requests : x # r => req'[x] = req[x]
    BY <1>7, <1>b DEF SaveRefresh
  <2> HIDE DEF saved
  <2>4. /\ refresh'[t].grant = req[r].grant
        /\ \A u \in Tokens : u # t => refresh'[u] = refresh[u]
    <3>1. PICK issuedAt \in req[r].at .. now :
            refresh' = [refresh EXCEPT ![t] =
                          [grant |-> req[r].grant,
                           expiresAt |-> issuedAt + RefreshTtl,
                           consumedAt |-> None]]
      BY <1>7 DEF SaveRefresh
    <3>2. refresh'[t] = [grant |-> req[r].grant,
                         expiresAt |-> issuedAt + RefreshTtl,
                         consumedAt |-> None]
      BY <3>1 DEF TypeOK
    <3>3. QED
      BY <3>1, <3>2 DEF TypeOK
  <2>5. Started(f)'
    BY <2>2, <2>3 DEF Dead, Started, FreshFamily
  <2>6. \A u \in Tokens : ~LiveIn(u, f)'
    BY <2>1, <2>4 DEF Dead, LiveIn, InFamily
  <2>7. \A q \in Requests : ~MintingIn(q, f)'
    BY <2>2, <2>3 DEF Dead, MintingIn
  <2>8. QED
    BY <2>5, <2>6, <2>7 DEF Dead
<1>8. ASSUME NEW r \in Requests, NEW t \in Tokens,
             NEW client \in Clients \cup {None}, NEW secret \in Secrets,
             RevokePeek(r, t, client, secret)
      PROVE  Dead(f)'
  <2> DEFINE begun == [Idle EXCEPT !.op = "revoke", !.input = t]
  <2>1. begun \in RequestRecord /\ [begun EXCEPT !.pc = "peeked"].pc = "peeked"
    BY DEF Idle, RequestRecord
  <2>2. req[r].grant = None
    BY <1>8, <1>c DEF RevokePeek
  <2>3. /\ refresh' = refresh
        /\ \/ \E result : Becomes(r, Answered(begun, result))
           \/ Becomes(r, [begun EXCEPT !.pc = "peeked"])
    BY <1>8 DEF RevokePeek
  <2> HIDE DEF begun
  <2>4. QED
    BY <1>d, <1>e, <2>1, <2>2, <2>3
<1>9. ASSUME NEW r \in Requests, RevokeConsume(r) PROVE Dead(f)'
  <2> DEFINE t == req[r].input
  <2>1. t \in Tokens /\ req[r].grant = None
    BY <1>9, <1>c DEF RevokeConsume, Peeked, TypeOK, Request
  <2>2. [req[r] EXCEPT !.won = TRUE] \in RequestRecord
    BY <1>a DEF RequestRecord
  <2>3. CASE /\ Claimable(t) /\ Claim(t)
             /\ Becomes(r, Answered([req[r] EXCEPT !.won = TRUE], "revoked"))
    BY <1>e, <1>g, <2>1, <2>2, <2>3
  <2>4. CASE /\ Answer(r, "noop")
             /\ \A u \in Tokens : refresh'[u] \in {None, refresh[u]}
    BY <1>a, <1>e, <2>1, <2>4 DEF Answer
  <2>5. QED
    BY <1>9, <2>3, <2>4 DEF RevokeConsume, RevokeFamily
<1>10. ASSUME NEW s \in Subjects, RevokeSubject(s) PROVE Dead(f)'
  BY <1>10, WindingDown DEF RevokeSubject, Winds
<1>11. CASE Tick \/ UNCHANGED vars
  BY <1>11, WindingDown DEF Tick, vars, Winds
<1>12. QED
  BY <1>1, <1>2, <1>3, <1>4, <1>5, <1>6, <1>7, <1>8, <1>9, <1>10, <1>11
     DEF Next, Exchange, Refresh, Revoke, Continue

----------------------------------------------------------------------------
(* Every variable keeps its type. *)
THEOREM TypeCorrect == Spec => []TypeOK
<1>1. Init => TypeOK
  BY IdleType DEF Init, TypeOK
<1>2. TypeOK /\ [Next]_vars => TypeOK'
  BY TypeStep
<1>3. QED
  BY <1>1, <1>2, PTL DEF Spec

(* The bookkeeping of requests and rows, in any interleaving. *)
THEOREM Invariance == Spec => [](TypeOK /\ Inv)
<1>1. Init => TypeOK /\ Inv
  <2> SUFFICES ASSUME Init PROVE TypeOK /\ Inv
    OBVIOUS
  <2>1. TypeOK
    BY IdleType DEF Init, TypeOK
  <2>2. /\ Idle.pc = "idle" /\ Idle.input = None /\ Idle.won = FALSE
        /\ Idle.grant = None /\ Idle.heir = None /\ Idle.out = "none"
    BY DEF Idle
  <2>3. /\ \A r \in Requests : req[r] = Idle
        /\ \A t \in Tokens : refresh[t] = None
        /\ \A c \in Codes : codes[c] = None
    BY DEF Init
  <2>4. StageOK(Idle)
    BY <2>2 DEF StageOK
  <2>5. Inv
    BY <2>2, <2>3, <2>4
       DEF Inv, StagesOK, HeirsAreUnique, RowsComeFromRequests,
           StoredCodesAreUnspent, UnconsumedIsUnspent, ConsumedIsSpent,
           HeldTokensWereSaved, PeekStillHolds, OneWinner, OneTip,
           LineageNarrows, MistakesDoNotBurn, ReuseHasAnEarlierWinner,
           Peeked, LiveIn, MintingIn, InFamily
  <2>6. QED
    BY <2>1, <2>5
<1>2. TypeOK /\ Inv /\ [Next]_vars => (TypeOK /\ Inv)'
  BY TypeStep, InvStep
<1>3. QED
  BY <1>1, <1>2, PTL DEF Spec

----------------------------------------------------------------------------
(* At most one request consumes a code or a refresh token.                 *)
THEOREM SingleUse == Spec => []OneWinner
<1>1. Inv => OneWinner
  BY DEF Inv
<1>2. QED
  BY <1>1, Invariance, PTL

(* No family ever forks.                                                   *)
THEOREM ChainsDoNotFork == Spec => []OneTip
<1>1. Inv => OneTip
  BY DEF Inv
<1>2. QED
  BY <1>1, Invariance, PTL

(* No refresh grants more than the token it was given.                     *)
THEOREM GrantsOnlyNarrow == Spec => []LineageNarrows
<1>1. Inv => LineageNarrows
  BY DEF Inv
<1>2. QED
  BY <1>1, Invariance, PTL

(* A refused refresh or revocation consumes nothing.                       *)
THEOREM RefusalsKeepTheToken == Spec => []MistakesDoNotBurn
<1>1. Inv => MistakesDoNotBurn
  BY DEF Inv
<1>2. QED
  BY <1>1, Invariance, PTL

(* The reuse signal is never a false accusation.                           *)
THEOREM ReuseIsReal == Spec => []ReuseHasAnEarlierWinner
<1>1. Inv => ReuseHasAnEarlierWinner
  BY DEF Inv
<1>2. QED
  BY <1>1, Invariance, PTL

(* What was revoked by the client itself stays revoked.                    *)
THEOREM RevocationIsFinal == Spec => []RevokedTokensStayDead
<1>1. Inv => RevokedTokensStayDead
  BY DEF Inv, RevokedTokensStayDead, StagesOK, StageOK, UnconsumedIsUnspent,
         Claimable, SpentBy
<1>2. QED
  BY <1>1, Invariance, PTL

(* A family that is over stays over.                                        *)
THEOREM DeadFamilies == Spec => DeadFamiliesStayDead
<1>1. TypeOK /\ Inv /\ [Next]_vars =>
        [\A f \in Families : Dead(f) => Dead(f)']_vars
  BY DeadStep
<1>2. QED
  BY <1>1, Invariance, PTL DEF Spec, DeadFamiliesStayDead

----------------------------------------------------------------------------
(* The refinement.  A credential is spent by the request that won it, void *)
(* when its row goes unspent; a refresh token is born to the request that  *)
(* saved it.                                                               *)
Ticket == Codes \cup Tokens

(* What the state of a ticket is read off. *)
StatusesAreRead ==
  \A t \in Ticket :
    /\ Spent(t) => TicketStatus(t) = "spent"
    /\ ~Spent(t) /\ t \in Codes =>
         /\ codes[t] # None => TicketStatus(t) = "live"
         /\ codes[t] = None /\ FreshCode(t) => TicketStatus(t) = "unborn"
         /\ codes[t] = None /\ ~FreshCode(t) => TicketStatus(t) = "void"
    /\ ~Spent(t) /\ t \in Tokens =>
         /\ refresh[t] # None => TicketStatus(t) = "live"
         /\ refresh[t] = None /\ EverSaved(t) => TicketStatus(t) = "void"
         /\ refresh[t] = None /\ ~EverSaved(t) => TicketStatus(t) = "unborn"

LEMMA StatusOf == StatusesAreRead
  BY GrantsAssumption DEF StatusesAreRead, TicketStatus, Ticket

LEMMA StatusOfNext == StatusesAreRead'
  BY StatusOf, PTL

(* With one winner at most, the heir of a ticket is what the winner got. *)
HeirsAreWinners ==
  \A t : /\ ~Spent(t) => TicketHeir(t) = None
         /\ \A r \in Requests : SpentBy(t, r) => TicketHeir(t) = req[r].heir

LEMMA HeirOf == OneWinner => HeirsAreWinners
<1> SUFFICES ASSUME OneWinner, NEW t
             PROVE  /\ ~Spent(t) => TicketHeir(t) = None
                    /\ \A r \in Requests : SpentBy(t, r) => TicketHeir(t) = req[r].heir
  BY DEF HeirsAreWinners
<1>1. ~Spent(t) => TicketHeir(t) = None
  BY DEF TicketHeir, Spent
<1>2. ASSUME NEW r \in Requests, SpentBy(t, r)
      PROVE  TicketHeir(t) = req[r].heir
  <2>1. (CHOOSE q \in Requests : SpentBy(t, q)) = r
    BY <1>2 DEF OneWinner, SpentBy
  <2>2. \A q \in Requests : SpentBy(t, q) => q = r
    BY <1>2 DEF OneWinner, SpentBy
  <2>3. QED
    BY <1>2, <2>1, <2>2 DEF TicketHeir
<1>3. QED
  BY <1>1, <1>2

LEMMA HeirsBeforeAndAfter ==
  ASSUME Inv, Inv'
  PROVE  HeirsAreWinners /\ HeirsAreWinners'
<1>1. OneWinner' => HeirsAreWinners'
  BY HeirOf, PTL
<1>2. QED
  BY <1>1, HeirOf DEF Inv

(* Who won what, and what it was given for it, does not change. *)
WinsStay ==
  \A x \in Requests :
    /\ req'[x].won = req[x].won /\ req'[x].heir = req[x].heir
    /\ req[x].won => req'[x].input = req[x].input

LEMMA WinsStayed ==
  ASSUME TypeOK, Inv, Inv', WinsStay
  PROVE  /\ \A t : Spent(t)' <=> Spent(t)
         /\ \A t : EverSaved(t)' <=> EverSaved(t)
         /\ \A t : TicketHeir(t)' = TicketHeir(t)
<1>1. \A t, x : x \in Requests => (SpentBy(t, x)' <=> SpentBy(t, x))
  BY DEF WinsStay, SpentBy
<1>2. \A t : Spent(t)' <=> Spent(t)
  BY <1>1 DEF Spent
<1>3. \A t : EverSaved(t)' <=> EverSaved(t)
  BY DEF EverSaved, WinsStay
<1>4. HeirsAreWinners /\ HeirsAreWinners'
  BY HeirsBeforeAndAfter
<1>5. ASSUME NEW t
      PROVE  TicketHeir(t)' = TicketHeir(t)
  <2>1. CASE ~Spent(t)
    BY <2>1, <1>2, <1>4 DEF HeirsAreWinners
  <2>2. ASSUME NEW x \in Requests, SpentBy(t, x)
        PROVE  TicketHeir(t)' = TicketHeir(t)
    <3>1. TicketHeir(t) = req[x].heir
      BY <2>2, <1>4 DEF HeirsAreWinners
    <3>2. TicketHeir(t)' = req'[x].heir
      BY <2>2, <1>1, <1>4 DEF HeirsAreWinners
    <3>3. QED
      BY <3>1, <3>2 DEF WinsStay
  <2>3. QED
    BY <2>1, <2>2 DEF Spent
<1>6. QED
  BY <1>2, <1>3, <1>5

(* No credential is won or handed out: rows only go. *)
LEMMA VoidRefines ==
  ASSUME TypeOK, Inv, Inv', WinsStay,
         \A c \in Codes :
           \/ codes'[c] = codes[c] /\ (FreshCode(c)' <=> FreshCode(c))
           \/ codes[c] # None /\ codes'[c] = None /\ ~FreshCode(c)',
         \A t \in Tokens : refresh[t] = None => refresh'[t] = None
  PROVE  [Abstract!Next]_Abstract!vars
<1> DEFINE Goes(t) ==
             /\ ~Spent(t) /\ TicketStatus(t) = "live"
             /\ t \in Codes => codes'[t] = None
             /\ t \in Tokens => refresh'[t] = None
           S == {t \in Ticket : Goes(t)}
<1>1. /\ \A t : Spent(t)' <=> Spent(t)
      /\ \A t : EverSaved(t)' <=> EverSaved(t)
      /\ \A t : TicketHeir(t)' = TicketHeir(t)
  BY WinsStayed
<1>2. \A t \in Tokens : refresh[t] # None => EverSaved(t)
  BY DEF Inv, RowsComeFromRequests, EverSaved
<1>3. \A t \in Ticket : TicketStatus(t)' = IF t \in S THEN "void" ELSE TicketStatus(t)
  <2> SUFFICES ASSUME NEW t \in Ticket
               PROVE  TicketStatus(t)' = IF t \in S THEN "void" ELSE TicketStatus(t)
    OBVIOUS
  <2>1. CASE Spent(t)
    BY <2>1, <1>1, StatusOf, StatusOfNext DEF StatusesAreRead
  <2>2. CASE ~Spent(t) /\ t \in Codes
    BY <2>2, <1>1, StatusOf, StatusOfNext, GrantsAssumption DEF StatusesAreRead
  <2>3. CASE ~Spent(t) /\ t \in Tokens
    BY <2>3, <1>1, <1>2, StatusOf, StatusOfNext, GrantsAssumption DEF StatusesAreRead
  <2>4. QED
    BY <2>1, <2>2, <2>3 DEF Ticket
<1>4. S \in SUBSET Ticket /\ \A t \in S : TicketStatus(t) = "live"
  OBVIOUS
<1> HIDE DEF S
<1>5. Abstract!Void(S)
  BY <1>1, <1>3, <1>4 DEF Abstract!Void, Ticket
<1>6. QED
  BY <1>4, <1>5 DEF Abstract!Next, Ticket

(* A request wins g, which was there to be won. *)
LEMMA WinRefines ==
  ASSUME TypeOK, Inv, Inv', NEW r \in Requests, NEW g \in Ticket,
         ~req[r].won, req'[r].won, req'[r].heir = None, req'[r].input = g,
         req[r].input \in {None, g},
         \A x \in Requests \ {r} : req'[x] = req[x],
         \A q \in Requests : ~SpentBy(g, q),
         g \in Codes => codes[g] # None,
         g \in Tokens => refresh[g] # None,
         \A c \in Codes \ {g} : codes'[c] = codes[c],
         \A t \in Tokens : refresh'[t] = None <=> refresh[t] = None
  PROVE  [Abstract!Next]_Abstract!vars
<1>1. req[r].heir = None
  BY DEF Inv, StagesOK, StageOK
<1>2. \A t, x : x \in Requests =>
        (SpentBy(t, x)' <=> SpentBy(t, x) \/ (x = r /\ t = g))
  BY DEF SpentBy
<1>3. \A t : Spent(t)' <=> Spent(t) \/ t = g
  BY <1>2 DEF Spent
<1>4. \A t : EverSaved(t)' <=> EverSaved(t)
  BY <1>1 DEF EverSaved
<1>5. \A c \in Codes \ {g} : FreshCode(c)' <=> FreshCode(c)
  BY NoneAssumption DEF FreshCode
<1>6. ~Spent(g) /\ TicketStatus(g) = "live"
  BY StatusOf DEF StatusesAreRead, Spent, Ticket
<1>7. TicketStatus(g)' = "spent"
  BY <1>3, StatusOfNext DEF StatusesAreRead
<1>8. ASSUME NEW t \in Ticket \ {g}
      PROVE  TicketStatus(t)' = TicketStatus(t)
  <2>1. CASE Spent(t)
    BY <2>1, <1>3, StatusOf, StatusOfNext DEF StatusesAreRead
  <2>2. CASE ~Spent(t) /\ t \in Codes
    BY <2>2, <1>3, <1>5, StatusOf, StatusOfNext DEF StatusesAreRead
  <2>3. CASE ~Spent(t) /\ t \in Tokens
    BY <2>3, <1>3, <1>4, StatusOf, StatusOfNext DEF StatusesAreRead
  <2>4. QED
    BY <2>1, <2>2, <2>3 DEF Ticket
<1>9. \A t : TicketHeir(t)' = TicketHeir(t)
  <2> SUFFICES ASSUME NEW t PROVE TicketHeir(t)' = TicketHeir(t)
    OBVIOUS
  <2>1. CASE t = g
    BY <2>1, <1>2, <1>6, HeirsBeforeAndAfter DEF HeirsAreWinners
  <2>2. CASE t # g /\ ~Spent(t)
    BY <2>2, <1>3, HeirsBeforeAndAfter DEF HeirsAreWinners
  <2>3. ASSUME t # g, NEW x \in Requests, SpentBy(t, x)
        PROVE  TicketHeir(t)' = TicketHeir(t)
    <3>1. x # r
      BY <2>3 DEF SpentBy
    <3>2. QED
      BY <2>3, <3>1, <1>2, HeirsBeforeAndAfter DEF HeirsAreWinners
  <2>4. QED
    BY <2>1, <2>2, <2>3 DEF Spent
<1>10. Abstract!Spend(g)
  BY <1>6, <1>7, <1>8, <1>9 DEF Abstract!Spend, Ticket
<1>11. QED
  BY <1>10 DEF Abstract!Next, Ticket

(* The winner of a credential is handed a token nobody had. *)
LEMMA BearRefines ==
  ASSUME TypeOK, Inv, Inv', NEW r \in Requests, NEW t \in Tokens,
         NEW g, g = req[r].input,
         req[r].won, req[r].heir = None, FreshToken(t),
         req'[r].won, req'[r].heir = t, req'[r].input = g,
         \A x \in Requests \ {r} : req'[x] = req[x],
         codes' = codes, refresh'[t] # None,
         \A u \in Tokens \ {t} : refresh'[u] = refresh[u]
  PROVE  [Abstract!Next]_Abstract!vars
<1>1. g \in Ticket /\ g # None /\ t # None /\ t \notin Codes /\ SpentBy(g, r)
  BY GrantsAssumption, NoneAssumption
     DEF Inv, StagesOK, StageOK, TypeOK, Request, RequestRecord, Ticket, SpentBy
<1>2. ~EverSaved(t)
  BY DEF EverSaved, FreshToken
<1>3. \A u \in Tokens \ {t} : EverSaved(u)' <=> EverSaved(u)
  BY NoneAssumption DEF EverSaved
<1>4. refresh[t] = None /\ ~Spent(t)
  BY <1>2 DEF Inv, RowsComeFromRequests, HeldTokensWereSaved, Spent, SpentBy, EverSaved
<1>5. \A u, x : x \in Requests => (SpentBy(u, x)' <=> SpentBy(u, x))
  BY DEF SpentBy
<1>6. \A u : Spent(u)' <=> Spent(u)
  BY <1>5 DEF Spent
<1>7. \A c \in Codes : FreshCode(c)' <=> FreshCode(c)
  BY DEF FreshCode
<1>8. TicketStatus(t) = "unborn" /\ TicketStatus(t)' = "live"
  BY <1>2, <1>4, <1>6, StatusOf, StatusOfNext DEF StatusesAreRead, Ticket
<1>9. ASSUME NEW u \in Ticket \ {t}
      PROVE  TicketStatus(u)' = TicketStatus(u)
  <2>1. CASE Spent(u)
    BY <2>1, <1>6, StatusOf, StatusOfNext DEF StatusesAreRead
  <2>2. CASE ~Spent(u) /\ u \in Codes
    BY <2>2, <1>6, <1>7, StatusOf, StatusOfNext DEF StatusesAreRead
  <2>3. CASE ~Spent(u) /\ u \in Tokens
    BY <2>3, <1>3, <1>6, StatusOf, StatusOfNext DEF StatusesAreRead
  <2>4. QED
    BY <2>1, <2>2, <2>3 DEF Ticket
<1>10. /\ TicketStatus(g) = "spent"
       /\ TicketHeir(g) = None /\ TicketHeir(g)' = t
  BY <1>1, <1>5, StatusOf, HeirsBeforeAndAfter DEF StatusesAreRead, HeirsAreWinners, Spent
<1>11. ASSUME NEW u, u # g
       PROVE  TicketHeir(u)' = TicketHeir(u)
  <2>1. CASE ~Spent(u)
    BY <2>1, <1>6, HeirsBeforeAndAfter DEF HeirsAreWinners
  <2>2. ASSUME NEW x \in Requests, SpentBy(u, x)
        PROVE  TicketHeir(u)' = TicketHeir(u)
    <3>1. x # r
      BY <1>11, <2>2 DEF SpentBy
    <3>2. QED
      BY <2>2, <3>1, <1>5, HeirsBeforeAndAfter DEF HeirsAreWinners
  <2>3. QED
    BY <2>1, <2>2 DEF Spent
<1>12. Abstract!Bear(g, t)
  BY <1>1, <1>8, <1>9, <1>10, <1>11 DEF Abstract!Bear, Ticket
<1>13. QED
  BY <1>1, <1>12 DEF Abstract!Next, Ticket

(* A step of a request that wins nothing and is handed nothing. *)
LEMMA QuietRefines ==
  ASSUME TypeOK, Inv, Inv', NEW r \in Requests,
         \A x \in Requests \ {r} : req'[x] = req[x],
         req'[r].won = req[r].won, req'[r].heir = req[r].heir,
         \/ req'[r].input = req[r].input
         \/ /\ req[r].pc = "idle"
            /\ req'[r].input \in Codes =>
                 codes[req'[r].input] # None /\ codes'[req'[r].input] = None,
         \A c \in Codes :
           \/ codes'[c] = codes[c]
           \/ c = req'[r].input /\ codes[c] # None /\ codes'[c] = None,
         \A t \in Tokens : refresh[t] = None => refresh'[t] = None
  PROVE  [Abstract!Next]_Abstract!vars
<1>1. req[r].pc = "idle" => req[r].input = None /\ ~req[r].won
  BY DEF Inv, StagesOK, StageOK, Idle
<1>2. WinsStay
  BY <1>1 DEF WinsStay
<1>3. ASSUME NEW c \in Codes
      PROVE  \/ codes'[c] = codes[c] /\ (FreshCode(c)' <=> FreshCode(c))
             \/ codes[c] # None /\ codes'[c] = None /\ ~FreshCode(c)'
  BY <1>1, NoneAssumption DEF FreshCode
<1>4. QED
  BY <1>2, <1>3, VoidRefines

(* A login stores a code. *)
LEMMA IssueRefines ==
  ASSUME TypeOK, TypeOK', Inv, Inv', NEW c \in Codes, SaveCode(c)
  PROVE  [Abstract!Next]_Abstract!vars
<1>1. req' = req /\ refresh' = refresh /\ \A x \in Codes \ {c} : codes'[x] = codes[x]
  BY DEF SaveCode, TypeOK
<1>2. codes'[c] # None
  <2>1. PICK client \in Clients, s \in Subjects, sc \in SUBSET Scopes, b \in Bindings :
          codes'[c] = [client |-> client, subject |-> s, scopes |-> sc,
                       binding |-> b, expiresAt |-> now + CodeTtl]
    BY DEF SaveCode, TypeOK
  <2>2. codes'[c] \in StoredCode
    BY <2>1, GrantsAssumption DEF StoredCode, TypeOK
  <2>3. QED
    BY <2>2, NoneIsNoRow
<1>3. WinsStay
  BY <1>1 DEF WinsStay
<1>4. ~Spent(c) /\ TicketStatus(c) = "unborn" /\ TicketStatus(c)' = "live"
  <2>1. ~Spent(c) /\ ~Spent(c)'
    BY <1>3, WinsStayed DEF SaveCode, FreshCode, Spent, SpentBy
  <2>2. QED
    BY <2>1, <1>2, StatusOf, StatusOfNext DEF StatusesAreRead, Ticket, SaveCode, FreshCode
<1>5. \A x \in Codes \ {c} : FreshCode(x)' <=> FreshCode(x)
  BY <1>1 DEF FreshCode
<1>6. ASSUME NEW u \in Ticket \ {c}
      PROVE  TicketStatus(u)' = TicketStatus(u)
  <2>1. CASE Spent(u)
    BY <2>1, <1>3, WinsStayed, StatusOf, StatusOfNext DEF StatusesAreRead
  <2>2. CASE ~Spent(u) /\ u \in Codes
    BY <2>2, <1>1, <1>3, <1>5, WinsStayed, StatusOf, StatusOfNext DEF StatusesAreRead
  <2>3. CASE ~Spent(u) /\ u \in Tokens
    BY <2>3, <1>1, <1>3, WinsStayed, StatusOf, StatusOfNext DEF StatusesAreRead
  <2>4. QED
    BY <2>1, <2>2, <2>3 DEF Ticket
<1>7. Abstract!Issue(c)
  BY <1>3, <1>4, <1>6, WinsStayed DEF Abstract!Issue, Ticket
<1>8. QED
  BY <1>7 DEF Abstract!Next, Ticket

(* Every step is a step of OneShot or none. *)
LEMMA TicketStep ==
  ASSUME TypeOK, TypeOK', Inv, Inv', [Next]_vars
  PROVE  [Abstract!Next]_Abstract!vars
<1> USE DEF store
<1>a. \A r \in Requests : /\ req[r] \in Request /\ req[r] \in RequestRecord
                          /\ StageOK(req[r])
  BY DEF TypeOK, Request, Inv, StagesOK
<1>b. ASSUME NEW r \in Requests, NEW q, Becomes(r, q)
      PROVE  /\ req'[r] = q
             /\ \A x \in Requests \ {r} : req'[x] = req[x]
  BY <1>b DEF Becomes, TypeOK
<1>c. /\ Idle.input = None /\ Idle.won = FALSE /\ Idle.grant = None
      /\ Idle.heir = None /\ Idle \in RequestRecord
  BY DEF Idle, RequestRecord
<1>d. \A r \in Requests : req[r].pc = "idle" => req[r] = Idle
  BY <1>a DEF StageOK
<1>e. ASSUME NEW r \in Requests, NEW q \in RequestRecord, NEW result,
             Becomes(r, Answered(q, result)),
             req[r].pc = "idle", q.won = FALSE, q.heir = None,
             q.input \in Codes => codes[q.input] # None /\ codes'[q.input] = None,
             \A c \in Codes :
               \/ codes'[c] = codes[c]
               \/ c = q.input /\ codes[c] # None /\ codes'[c] = None,
             refresh' = refresh
      PROVE  [Abstract!Next]_Abstract!vars
  <2> DEFINE a == Answered(q, result)
  <2>1. /\ req'[r] = a
        /\ \A x \in Requests \ {r} : req'[x] = req[x]
    BY <1>b, <1>e
  <2>2. /\ a.won = q.won /\ a.heir = q.heir /\ a.input = q.input
    BY <1>e, AnsweredFields
  <2>3. /\ req[r].won = FALSE /\ req[r].heir = None
    BY <1>c, <1>d, <1>e
  <2> HIDE DEF a
  <2>4. QED
    BY <1>e, <2>1, <2>2, <2>3, QuietRefines
<1>f. ASSUME NEW r \in Requests, NEW result, Answer(r, result), codes' = codes,
             \A t \in Tokens : refresh[t] = None => refresh'[t] = None
      PROVE  [Abstract!Next]_Abstract!vars
  <2> DEFINE q == Answered(req[r], result)
  <2>1. Becomes(r, q)
    BY <1>f DEF Answer
  <2>2. /\ req'[r] = q
        /\ \A x \in Requests \ {r} : req'[x] = req[x]
    BY <1>b, <2>1
  <2>3. /\ q.won = req[r].won /\ q.heir = req[r].heir /\ q.input = req[r].input
    BY <1>a, AnsweredFields
  <2> HIDE DEF q
  <2>4. QED
    BY <1>f, <2>2, <2>3, QuietRefines
<1>1. ASSUME NEW c \in Codes, SaveCode(c) PROVE [Abstract!Next]_Abstract!vars
  BY <1>1, IssueRefines
<1>2. ASSUME NEW r \in Requests, NEW c \in Codes,
             ExchangeUnknown(r, c) \/ ExchangeExpired(r, c)
      PROVE  [Abstract!Next]_Abstract!vars
  <2> DEFINE p == [Idle EXCEPT !.op = "exchange"]
             q == [Idle EXCEPT !.op = "exchange", !.input = c]
  <2>1. /\ p \in RequestRecord /\ p.won = FALSE /\ p.heir = None /\ p.input = None
        /\ q \in RequestRecord /\ q.won = FALSE /\ q.heir = None /\ q.input = c
    BY DEF Idle, RequestRecord
  <2>2. CASE ExchangeUnknown(r, c)
    BY <2>1, <2>2, <1>e, NoneAssumption DEF ExchangeUnknown
  <2>3. CASE ExchangeExpired(r, c)
    <3>1. codes'[c] = None /\ \A x \in Codes \ {c} : codes'[x] = codes[x]
      BY <2>3 DEF ExchangeExpired, TypeOK
    <3>2. QED
      BY <2>1, <2>3, <3>1, <1>e DEF ExchangeExpired
  <2>4. QED
    BY <1>2, <2>2, <2>3
<1>3. ASSUME NEW r \in Requests, NEW c \in Codes, NEW client \in Clients,
             NEW secret \in Secrets, NEW b \in Bindings,
             NEW proof \in Keys \cup {None},
             ExchangeConsume(r, c, client, secret, b, proof)
      PROVE  [Abstract!Next]_Abstract!vars
  <2> DEFINE won == [Idle EXCEPT !.op = "exchange", !.input = c,
                                 !.proof = proof, !.won = TRUE]
             minting(h) == [won EXCEPT
               !.pc = "minting", !.at = now,
               !.grant = [client |-> client, subject |-> codes[c].subject,
                          scopes |-> codes[c].scopes, jkt |-> proof,
                          family |-> h]]
  <2>1. /\ won \in RequestRecord /\ won.won = TRUE /\ won.heir = None /\ won.input = c
        /\ \A h : minting(h).won = TRUE /\ minting(h).heir = None /\ minting(h).input = c
    BY DEF Idle, RequestRecord
  <2>2. /\ req[r] = Idle /\ codes[c] # None /\ refresh' = refresh
        /\ \A x \in Codes \ {c} : codes'[x] = codes[x]
        /\ \/ Becomes(r, Answered(won, "rejected"))
           \/ \E h \in Families : Becomes(r, minting(h))
    BY <1>3, <1>d DEF ExchangeConsume, TypeOK
  <2> HIDE DEF won, minting
  <2>3. /\ req'[r].won = TRUE /\ req'[r].heir = None /\ req'[r].input = c
        /\ \A x \in Requests \ {r} : req'[x] = req[x]
    BY <2>1, <2>2, <1>b, AnsweredFields
  <2>4. \A q \in Requests : ~SpentBy(c, q)
    BY <2>2 DEF Inv, StoredCodesAreUnspent, SpentBy
  <2>5. c \in Ticket /\ c \notin Tokens
    BY GrantsAssumption DEF Ticket
  <2>6. QED
    BY <2>2, <2>3, <2>4, <2>5, <1>c, WinRefines
<1>4. ASSUME NEW r \in Requests, NEW t \in Tokens,
             NEW client \in Clients \cup {None}, NEW secret \in Secrets,
             NEW proof \in Keys \cup {None}, NEW asked \in SUBSET Scopes,
             RefreshPeek(r, t, client, secret, proof, asked)
      PROVE  [Abstract!Next]_Abstract!vars
  <2> DEFINE begun == [Idle EXCEPT !.op = "refresh"]
             peeked == [Idle EXCEPT !.pc = "peeked", !.op = "refresh",
                          !.input = t, !.ask = asked, !.proof = proof]
  <2>1. /\ begun \in RequestRecord /\ begun.won = FALSE
        /\ begun.heir = None /\ begun.input = None
        /\ peeked.won = FALSE /\ peeked.heir = None /\ peeked.input = t
    BY DEF Idle, RequestRecord
  <2>2. /\ req[r].pc = "idle" /\ refresh' = refresh /\ codes' = codes
        /\ \/ Becomes(r, peeked)
           \/ \E result : Becomes(r, Answered(begun, result))
    BY <1>4 DEF RefreshPeek
  <2> HIDE DEF begun, peeked
  <2>3. CASE Becomes(r, peeked)
    BY <2>1, <2>2, <2>3, <1>b, <1>c, <1>d, GrantsAssumption, QuietRefines
  <2>4. CASE \E result : Becomes(r, Answered(begun, result))
    BY <2>1, <2>2, <2>4, <1>e, NoneAssumption
  <2>5. QED
    BY <2>2, <2>3, <2>4
<1>g. ASSUME NEW r \in Requests, NEW g \in Tokens, Claimable(g), Claim(g),
             g = req[r].input, ~req[r].won, codes' = codes,
             req'[r].won, req'[r].heir = None, req'[r].input = g,
             \A x \in Requests \ {r} : req'[x] = req[x]
      PROVE  [Abstract!Next]_Abstract!vars
  <2>1. refresh[g] # None /\ \A q \in Requests : ~SpentBy(g, q)
    BY <1>g DEF Inv, UnconsumedIsUnspent, Claimable
  <2>2. refresh'[g] # None /\ \A u \in Tokens \ {g} : refresh'[u] = refresh[u]
    <3>1. [refresh[g] EXCEPT !.consumedAt = now] \in StoredRefresh
      BY <2>1, RowType DEF StoredRefresh, TypeOK
    <3>2. QED
      BY <1>g, <3>1, NoneIsNoRow DEF Claim, TypeOK
  <2>3. g \in Ticket /\ g \notin Codes
    BY GrantsAssumption DEF Ticket
  <2>4. QED
    BY <1>g, <2>1, <2>2, <2>3, WinRefines
<1>5. ASSUME NEW r \in Requests, RefreshClaim(r) PROVE [Abstract!Next]_Abstract!vars
  <2> DEFINE t == req[r].input
             narrowed == [refresh[t].grant EXCEPT !.scopes = req[r].ask]
             minting == [req[r] EXCEPT !.pc = "minting", !.won = TRUE, !.at = now,
                           !.ask = {}, !.grant = narrowed]
             won == [req[r] EXCEPT !.won = TRUE]
  <2>1. /\ t \in Tokens /\ Claimable(t) /\ Claim(t) /\ codes' = codes
        /\ ~req[r].won /\ req[r].heir = None
        /\ Becomes(r, minting) \/ Becomes(r, Answered(won, "rejected"))
    BY <1>5, <1>a DEF RefreshClaim, Peeked, Request, StageOK
  <2>2. /\ minting.won = TRUE /\ minting.heir = req[r].heir /\ minting.input = t
        /\ won \in RequestRecord /\ won.won = TRUE
        /\ won.heir = req[r].heir /\ won.input = t
    BY <1>a DEF RequestRecord
  <2> HIDE DEF minting, won
  <2>3. /\ req'[r].won = TRUE /\ req'[r].heir = None /\ req'[r].input = t
        /\ \A x \in Requests \ {r} : req'[x] = req[x]
    BY <2>1, <2>2, <1>b, AnsweredFields
  <2>4. QED
    BY <2>1, <2>3, <1>g
<1>6. ASSUME NEW r \in Requests,
             \/ RefreshReuse(r)
             \/ RefreshMiss(r)
             \/ MintFails(r)
             \/ Respond(r)
      PROVE  [Abstract!Next]_Abstract!vars
  BY <1>6, <1>f DEF RefreshReuse, RevokeFamily, RefreshMiss, MintFails, Respond
<1>7. ASSUME NEW r \in Requests, NEW t \in Tokens, SaveRefresh(r, t)
      PROVE  [Abstract!Next]_Abstract!vars
  <2> DEFINE saved == [req[r] EXCEPT !.pc = "saved", !.heir = t, !.at = 0]
  <2>1. req[r].won /\ req[r].heir = None /\ FreshToken(t) /\ codes' = codes
    BY <1>7, <1>a DEF SaveRefresh, StageOK, Request
  <2>2. saved.won = req[r].won /\ saved.heir = t /\ saved.input = req[r].input
    BY <1>a DEF RequestRecord
  <2>3. req'[r] = saved /\ \A x \in Requests \ {r} : req'[x] = req[x]
    BY <1>7, <1>b DEF SaveRefresh
  <2> HIDE DEF saved
  <2>4. refresh'[t] # None /\ \A u \in Tokens \ {t} : refresh'[u] = refresh[u]
    <3>1. PICK issuedAt \in req[r].at .. now :
            refresh' = [refresh EXCEPT ![t] =
                          [grant |-> req[r].grant,
                           expiresAt |-> issuedAt + RefreshTtl,
                           consumedAt |-> None]]
      BY <1>7 DEF SaveRefresh
    <3>2. refresh'[t].consumedAt = None /\ refresh'[t].grant = req[r].grant
      BY <3>1 DEF TypeOK
    <3>3. refresh'[t] = [grant |-> req[r].grant,
                         expiresAt |-> issuedAt + RefreshTtl,
                         consumedAt |-> None]
      BY <3>1 DEF TypeOK
    <3>4. req[r].grant \in Grant /\ issuedAt + RefreshTtl \in Nat
      BY <1>7, <1>a, GrantsAssumption DEF SaveRefresh, Request, RequestRecord, TypeOK
    <3>5. refresh'[t] \in StoredRefresh
      BY <3>3, <3>4 DEF StoredRefresh
    <3>6. QED
      BY <3>1, <3>5, NoneIsNoRow DEF TypeOK
  <2>5. PICK g : g = req[r].input
    OBVIOUS
  <2>6. QED
    BY <2>1, <2>2, <2>3, <2>4, <2>5, BearRefines
<1>8. ASSUME NEW r \in Requests, NEW t \in Tokens,
             NEW client \in Clients \cup {None}, NEW secret \in Secrets,
             RevokePeek(r, t, client, secret)
      PROVE  [Abstract!Next]_Abstract!vars
  <2> DEFINE begun == [Idle EXCEPT !.op = "revoke", !.input = t]
             peeked == [begun EXCEPT !.pc = "peeked"]
  <2>1. /\ begun \in RequestRecord /\ begun.won = FALSE
        /\ begun.heir = None /\ begun.input = t
        /\ peeked.won = FALSE /\ peeked.heir = None /\ peeked.input = t
    BY DEF Idle, RequestRecord
  <2>2. /\ req[r].pc = "idle" /\ refresh' = refresh /\ codes' = codes
        /\ \/ Becomes(r, peeked)
           \/ \E result : Becomes(r, Answered(begun, result))
    BY <1>8 DEF RevokePeek
  <2> HIDE DEF begun, peeked
  <2>3. CASE Becomes(r, peeked)
    BY <2>1, <2>2, <2>3, <1>b, <1>c, <1>d, GrantsAssumption, QuietRefines
  <2>4. CASE \E result : Becomes(r, Answered(begun, result))
    BY <2>1, <2>2, <2>4, <1>e, GrantsAssumption
  <2>5. QED
    BY <2>2, <2>3, <2>4
<1>9. ASSUME NEW r \in Requests, RevokeConsume(r) PROVE [Abstract!Next]_Abstract!vars
  <2> DEFINE t == req[r].input
             won == [req[r] EXCEPT !.won = TRUE]
  <2>1. t \in Tokens /\ ~req[r].won /\ req[r].heir = None /\ codes' = codes
    BY <1>9, <1>a DEF RevokeConsume, Peeked, Request, StageOK
  <2>2. CASE Claimable(t) /\ Claim(t) /\ Becomes(r, Answered(won, "revoked"))
    <3>1. won \in RequestRecord /\ won.won = TRUE /\ won.heir = None /\ won.input = t
      BY <1>a, <2>1 DEF RequestRecord
    <3> HIDE DEF won
    <3>2. /\ req'[r].won = TRUE /\ req'[r].heir = None /\ req'[r].input = t
          /\ \A x \in Requests \ {r} : req'[x] = req[x]
      BY <2>2, <3>1, <1>b, AnsweredFields
    <3>3. QED
      BY <2>1, <2>2, <3>2, <1>g
  <2>3. CASE Answer(r, "noop") /\ (RevokeFamily(refresh[t].grant.family) \/ refresh' = refresh)
    BY <2>1, <2>3, <1>f DEF RevokeFamily
  <2>4. QED
    BY <1>9, <2>2, <2>3 DEF RevokeConsume
<1>h. ASSUME req' = req, codes' = codes, \A t \in Tokens : refresh[t] = None => refresh'[t] = None
      PROVE  [Abstract!Next]_Abstract!vars
  BY <1>h, VoidRefines DEF WinsStay, FreshCode
<1>10. ASSUME NEW s \in Subjects, RevokeSubject(s) PROVE [Abstract!Next]_Abstract!vars
  BY <1>10, <1>h DEF RevokeSubject
<1>11. CASE Tick \/ UNCHANGED vars
  BY <1>11, <1>h DEF Tick, vars
<1>12. QED
  BY <1>1, <1>2, <1>3, <1>4, <1>5, <1>6, <1>7, <1>8, <1>9, <1>10, <1>11
     DEF Next, Exchange, Refresh, Revoke, Continue

(* The token endpoint and the endpoints that revoke implement the one-shot *)
(* credentials of OneShot, whatever they interleave to.                    *)
THEOREM GrantsAreOneShot == Spec => ImplementsOneShot
<1>1. Init => Abstract!Init
  <2> SUFFICES ASSUME Init PROVE Abstract!Init
    OBVIOUS
  <2>1. /\ Idle.input = None /\ Idle.won = FALSE /\ Idle.heir = None
        /\ \A r \in Requests : req[r] = Idle
        /\ \A c \in Codes : codes[c] = None
        /\ \A t \in Tokens : refresh[t] = None
    BY DEF Init, Idle
  <2>2. \A t : ~Spent(t)
    BY <2>1 DEF Spent, SpentBy
  <2>3. \A c \in Codes : FreshCode(c)
    BY <2>1, NoneAssumption DEF FreshCode
  <2>4. \A t \in Tokens : ~EverSaved(t)
    BY <2>1, NoneAssumption DEF EverSaved
  <2>5. \A t \in Ticket : TicketStatus(t) = "unborn" /\ TicketHeir(t) = None
    BY <2>1, <2>2, <2>3, <2>4, StatusOf DEF StatusesAreRead, TicketHeir, Spent, Ticket
  <2>6. QED
    BY <2>5 DEF Abstract!Init, Ticket
<1>2. TypeOK /\ Inv /\ [Next]_vars /\ (TypeOK /\ Inv)' => [Abstract!Next]_Abstract!vars
  BY TicketStep
<1>3. QED
  BY <1>1, <1>2, Invariance, PTL DEF Spec, ImplementsOneShot, Abstract!Spec
=============================================================================

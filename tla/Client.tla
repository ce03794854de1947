------------------------------- MODULE Client -------------------------------
(***************************************************************************)
(* The relying party's client (client.ts) in a server that serves one      *)
(* session: the tokens it stores, the verify and refresh calls its         *)
(* requests make, and the rotation at the issuer they run into.  The       *)
(* session is lost when the refresh token that the issuer would accept is  *)
(* nowhere in the relying party's hands.                                   *)
(*                                                                         *)
(* The relying party is external: it exchanges its code, gives every       *)
(* request the tokens it has stored, and stores what it gets back.  Of the *)
(* issuer there is what a client sees: a refresh token is exchanged once,  *)
(* and presenting it again soon revokes the family.  Key sets are in Keys. *)
(***************************************************************************)
EXTENDS Naturals, FiniteSets

CONSTANTS
  Operations,        \* calls of the client's methods
  MaxPairs,          \* bounds the token pairs the issuer makes
  AccessTtl, ReuseWindow,
  Early,             \* refresh does nothing if the token lives longer
  ClocksAhead,       \* how far the client's clock may be ahead
  MaxClientTime      \* bounds the clock

ClientAssumption == MaxPairs \in Nat

VARIABLES
  setting,       \* [ahead, resource, fits]: the client's clock, whether the
                 \* tokens are for a resource, whether the subject fits
  issuerNow,
  pairs,         \* the issuer: pair -> [at, spent], spent 0 while live
  count,         \* how many pairs there are
  familyLive,
  challenge,     \* the login: "none", "made", "spent"
  session,       \* the pair that is stored, 0 for none
  operations,    \* calls in progress
  excuses        \* history: what went wrong on the way

clientVars == <<setting, issuerNow, pairs, count, familyLive, challenge,
                session, operations, excuses>>

NoOperation == [pc |-> "idle", kind |-> "none", access |-> 0, refresh |-> 0,
                audience |-> "client", depth |-> 0, tokens |-> 0,
                crossed |-> FALSE, result |-> "none"]

Init ==
  /\ setting \in [ahead : ClocksAhead, resource : BOOLEAN, fits : BOOLEAN]
  /\ issuerNow = 1
  /\ pairs = [n \in 1..MaxPairs |-> [at |-> 0, spent |-> 0]]
  /\ count = 0
  /\ familyLive = TRUE
  /\ challenge = "none"
  /\ session = 0
  /\ operations = [o \in Operations |-> NoOperation]
  /\ excuses = {}

ClientNow == issuerNow + setting.ahead
Expires(n) == pairs[n].at + AccessTtl
Audience == IF setting.resource THEN "resource" ELSE "client"

Becomes(o, q) == operations' = [operations EXCEPT ![o] = q]
Ends(o, q, result) == Becomes(o, [q EXCEPT !.pc = "done", !.result = result])
Returns(o, q) == Becomes(o, [q EXCEPT !.pc = "return", !.result = "success"])
Excused(why) == excuses' = excuses \cup {why}

Issuer == <<issuerNow, pairs, count, familyLive>>
RelyingParty == <<setting, challenge, session>>

----------------------------------------------------------------------------
(* The calls. *)

(* An operation begins; any other in progress has crossed it, and it them. *)
Begins(o, q) ==
  LET others == {p \in Operations \ {o} :
                   operations[p].pc \notin {"idle", "done"}}
  IN operations' = [p \in Operations |->
       CASE p = o -> [q EXCEPT !.crossed = others # {}]
         [] p \in others -> [operations[p] EXCEPT !.crossed = TRUE]
         [] OTHER -> operations[p]]

Authorize ==
  /\ challenge = "none"
  /\ challenge' = "made"
  /\ UNCHANGED <<setting, session, operations, excuses, Issuer>>

Exchange(o) ==
  /\ operations[o].pc = "idle" /\ challenge = "made"
  /\ challenge' = "spent"
  /\ Begins(o, [NoOperation EXCEPT !.pc = "asked", !.kind = "exchange"])
  /\ UNCHANGED <<setting, session, excuses, Issuer>>

(* refresh.  Told of the access token, it leaves alone one that is good    *)
(* for a while yet; otherwise the issuer is asked.                         *)
Refresh(o) ==
  LET q == [NoOperation EXCEPT !.kind = "refresh", !.refresh = session]
  IN /\ operations[o].pc = "idle" /\ session # 0
     /\ \E told \in BOOLEAN :
          IF told /\ Expires(session) > ClientNow + Early
          THEN Ends(o, q, "success")
          ELSE Begins(o, [q EXCEPT !.pc = "asked"])
     /\ UNCHANGED <<RelyingParty, excuses, Issuer>>

Verify(o) ==
  /\ operations[o].pc = "idle" /\ session # 0
  /\ \E audience \in {"client", "resource"}, refresh \in {0, session} :
       Begins(o, [NoOperation EXCEPT !.pc = "check", !.kind = "verify",
                    !.access = session, !.refresh = refresh,
                    !.audience = audience])
  /\ UNCHANGED <<RelyingParty, excuses, Issuer>>

(* Variant for mutation: verify keeps the refreshed tokens to itself. *)
KeepTokens(o, q) == Ends(o, q, "success")

(* A token that verifies.  Each level of verify that refreshed puts its    *)
(* own tokens into the result, the outermost last.                         *)
Accept(o, q) ==
  IF q.depth = 0 THEN Ends(o, q, "success") ELSE Returns(o, q)

(* jwtVerify looks at the audience before the expiry; only an expired      *)
(* token with a refresh token at hand is refreshed.                        *)
Check(o) ==
  LET q == operations[o]
  IN /\ q.pc = "check"
     /\ CASE q.audience # Audience -> Ends(o, q, "invalid_access_token")
          [] q.audience = Audience /\ Expires(q.access) <= ClientNow ->
               IF q.refresh = 0 THEN Ends(o, q, "invalid_access_token")
               ELSE Becomes(o, [q EXCEPT !.pc = "asked"])
          [] OTHER ->
               IF setting.fits THEN Accept(o, q) ELSE Ends(o, q, "invalid_subject")
     /\ excuses' = excuses \cup
          IF q.depth = 0 THEN {}
          ELSE IF q.audience # Audience THEN {"audience"}
          ELSE IF Expires(q.access) <= ClientNow THEN {"expired_again"}
          ELSE IF ~setting.fits THEN {"subject"} ELSE {}
     /\ UNCHANGED <<RelyingParty, Issuer>>

(* The answer arrives.  verify goes on with the new tokens, and with the   *)
(* client's own audience, whatever the caller's was.                       *)
Receive(o) ==
  LET q == operations[o]
      again == [q EXCEPT !.pc = "check", !.refresh = q.access,
                  !.audience = "client", !.depth = @ + 1,
                  !.tokens = IF q.depth = 0 THEN q.access ELSE @]
  IN /\ q.pc = "answered"
     /\ CASE q.access = 0 -> Ends(o, q, "refused")
          [] q.access # 0 /\ q.kind = "verify" -> Becomes(o, again)
          [] OTHER -> Returns(o, [q EXCEPT !.tokens = q.access])
     /\ UNCHANGED <<RelyingParty, excuses, Issuer>>

(* fetch throws: the request or the answer was lost. *)
Throws(o) ==
  LET q == operations[o]
  IN /\ q.pc \in {"asked", "answered"}
     /\ Ends(o, q, "thrown")
     /\ excuses' = excuses \cup
          IF q.pc = "answered" /\ q.access # 0 THEN {"lost_answer"} ELSE {}
     /\ UNCHANGED <<RelyingParty, Issuer>>

(* The relying party stores the tokens it is handed. *)
Store(o) ==
  /\ operations[o].pc = "return"
  /\ session' = operations[o].tokens
  /\ Becomes(o, [operations[o] EXCEPT !.pc = "done"])
  /\ UNCHANGED <<setting, challenge, excuses, Issuer>>

----------------------------------------------------------------------------
(* The token endpoint, as far as a client can see.                         *)
Answer(o, n) == Becomes(o, [operations[o] EXCEPT !.pc = "answered", !.access = n])

Presents(o) == operations[o].refresh
IsGood(o) ==
  IF operations[o].kind = "exchange" THEN count = 0
  ELSE familyLive /\ pairs[Presents(o)].spent = 0

(* What was presented is spent; a new pair is made and sent, or the mint   *)
(* fails after that.                                                       *)
Rotate(o) ==
  LET n == count + 1
      spent == IF operations[o].kind = "exchange" THEN pairs
               ELSE [pairs EXCEPT ![Presents(o)].spent = issuerNow]
  IN /\ operations[o].pc = "asked" /\ IsGood(o) /\ count < MaxPairs
     /\ count' = n
     /\ pairs' = [spent EXCEPT ![n].at = issuerNow]
     /\ \/ Answer(o, n) /\ UNCHANGED excuses
        \/ Answer(o, 0) /\ Excused("failed_mint")
     /\ UNCHANGED <<RelyingParty, issuerNow, familyLive>>

Refuse(o) ==
  /\ operations[o].pc = "asked"
  /\ Answer(o, 0)
  /\ IF IsGood(o) THEN UNCHANGED <<familyLive, excuses>>   \* an error before
     ELSE /\ familyLive' = (familyLive /\ issuerNow - pairs[Presents(o)].spent
                                          > ReuseWindow)
          /\ IF operations[o].crossed THEN Excused("crossed") ELSE UNCHANGED excuses
  /\ UNCHANGED <<RelyingParty, issuerNow, pairs, count>>

Tick ==
  /\ issuerNow < MaxClientTime
  /\ issuerNow' = issuerNow + 1
  /\ UNCHANGED <<RelyingParty, pairs, count, familyLive, operations, excuses>>

Next ==
  \/ Authorize
  \/ \E o \in Operations :
       \/ Exchange(o) \/ Refresh(o) \/ Verify(o) \/ Check(o) \/ Receive(o)
       \/ Throws(o) \/ Store(o) \/ Rotate(o) \/ Refuse(o)
  \/ Tick

Spec == Init /\ [][Next]_clientVars

----------------------------------------------------------------------------
(* A session is not lost without a reason: the one refresh token that the  *)
(* issuer would accept is what the relying party has stored, or on its way *)
(* to it in the call that fetched it.  The reasons: an answer was lost; a  *)
(* mint failed after the old token was spent; calls of one session crossed *)
(* and one presented the token the other had spent; or verify, having refreshed,     *)
(* found the new token not for this client (although the caller named its  *)
(* audience), expired already or its subject not to fit, and handed back   *)
(* no tokens or spent ones (verify, refresh).                              *)
OnItsWay(n) ==
  \E o \in Operations :
    \/ operations[o].pc \in {"answered", "check"} /\ operations[o].access = n
    \/ operations[o].pc = "return" /\ operations[o].tokens = n

SessionsAreLostForAReason ==
  count > 0 /\ excuses = {} =>
    /\ familyLive /\ pairs[count].spent = 0
    /\ session = count \/ OnItsWay(count)
=============================================================================

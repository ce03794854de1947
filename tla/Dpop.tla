-------------------------------- MODULE Dpop --------------------------------
(***************************************************************************)
(* DPoP proofs (domain/dpop.ts) at the two endpoints that take them: the   *)
(* token endpoint and /userinfo.  A proof is fresh while its iat is within *)
(* the tolerance of the whole seconds of the clock, which the handler      *)
(* reads first; its jti is remembered, from the moment it is recorded, by  *)
(* the clock of the store in milliseconds (memory/token-store.ts, the only *)
(* adapter that can).  Signatures are verified between the two.            *)
(***************************************************************************)
EXTENDS Integers, FiniteSets

CONSTANTS
  DpopRequests,
  Proofs,            \* proofs, each with a jti of its own
  ProofOf,           \* proof -> [iat, key, at, ath, wellFormed]
  AccessTokens,
  BoundTo,           \* access token -> the key it is bound to, or Unbound
  Unbound,
  PerSecond,         \* clock readings in a second
  Tolerance,         \* seconds
  MaxDpopTime        \* bounds the clock

VARIABLES
  dpopNow,
  dpopJtis,          \* the store: jti -> when its record expires, 0 if none
  dpopRequests,      \* requests in progress
  firstUse,          \* history: proof -> when it was first accepted, -1
  usedAgain          \* history: when it was accepted again, -1

dpopVars == <<dpopNow, dpopJtis, dpopRequests, firstUse, usedAgain>>

DpopAssumption ==
  /\ PerSecond \in Nat \ {0} /\ Tolerance \in Nat
  /\ Unbound \notin Proofs
  /\ \A p \in Proofs : ProofOf[p].iat \in Int

NoProof == [pc |-> "idle", proof |-> Unbound, token |-> Unbound, result |-> "none"]

Init ==
  /\ dpopNow = 0
  /\ dpopJtis = [p \in Proofs |-> 0]
  /\ dpopRequests = [r \in DpopRequests |-> NoProof]
  /\ firstUse = [p \in Proofs |-> -1]
  /\ usedAgain = [p \in Proofs |-> -1]

Seconds(t) == t \div PerSecond

Becomes(r, q) == dpopRequests' = [dpopRequests EXCEPT ![r] = q]
Ends(r, q, result) == Becomes(r, [q EXCEPT !.pc = "done", !.result = result])
NothingRecorded == UNCHANGED <<dpopNow, dpopJtis, firstUse, usedAgain>>

(* Variant for mutation: a jti is remembered for one tolerance. *)
TtlOfOneTolerance == Tolerance * PerSecond

JtiTtl == 2 * Tolerance * PerSecond

(* verifyDpopProof, up to the store: form and signature, method and URI    *)
(* (here the endpoint), age, and the access token it must be made for.     *)
Fresh(p) ==
  LET skew == Seconds(dpopNow) - ProofOf[p].iat
  IN -Tolerance <= skew /\ skew <= Tolerance

VerifyDpopProof(p, endpoint, token) ==
  /\ ProofOf[p].wellFormed
  /\ ProofOf[p].at = endpoint
  /\ Fresh(p)
  /\ token # Unbound => ProofOf[p].ath = token

Token(r) ==
  /\ dpopRequests[r].pc = "idle"
  /\ \E p \in Proofs :
       LET q == [NoProof EXCEPT !.proof = p]
       IN IF VerifyDpopProof(p, "token", Unbound)
          THEN Becomes(r, [q EXCEPT !.pc = "record"])
          ELSE Ends(r, q, "invalid_proof")
  /\ NothingRecorded

(* /userinfo: a token that is bound wants the DPoP scheme and a proof, one *)
(* that is not wants the Bearer scheme.                                    *)
Userinfo(r) ==
  /\ dpopRequests[r].pc = "idle"
  /\ \E t \in AccessTokens, scheme \in {"DPoP", "Bearer"}, p \in Proofs \cup {Unbound} :
       LET q == [NoProof EXCEPT !.token = t, !.proof = p]
       IN IF BoundTo[t] = Unbound
          THEN Ends(r, q, IF scheme = "DPoP" THEN "not_bound" ELSE "claims")
          ELSE IF scheme = "Bearer" \/ p = Unbound THEN Ends(r, q, "invalid_proof")
          ELSE IF VerifyDpopProof(p, "userinfo", t)
          THEN Becomes(r, [q EXCEPT !.pc = "record"])
          ELSE Ends(r, q, "invalid_proof")
  /\ NothingRecorded

(* recordDpopJti sweeps, looks and records in one step; then the key of    *)
(* the proof is compared with the one the token is bound to.               *)
RecordDpopJti(r) ==
  LET q == dpopRequests[r]
      p == q.proof
      swept == [x \in Proofs |-> IF dpopJtis[x] <= dpopNow THEN 0 ELSE dpopJtis[x]]
  IN /\ q.pc = "record"
     /\ IF swept[p] # 0
        THEN /\ Ends(r, q, "replay")
             /\ dpopJtis' = swept /\ UNCHANGED <<firstUse, usedAgain>>
        ELSE /\ dpopJtis' = [swept EXCEPT ![p] = dpopNow + JtiTtl]
             /\ IF firstUse[p] = -1
                THEN firstUse' = [firstUse EXCEPT ![p] = dpopNow] /\ UNCHANGED usedAgain
                ELSE usedAgain' = [usedAgain EXCEPT ![p] = dpopNow] /\ UNCHANGED firstUse
             /\ Ends(r, q, IF q.token # Unbound /\ BoundTo[q.token] # ProofOf[p].key
                           THEN "wrong_key" ELSE "accepted")
     /\ UNCHANGED dpopNow

Tick ==
  /\ dpopNow < MaxDpopTime
  /\ dpopNow' = dpopNow + 1
  /\ UNCHANGED <<dpopJtis, dpopRequests, firstUse, usedAgain>>

Next ==
  \/ \E r \in DpopRequests : Token(r) \/ Userinfo(r) \/ RecordDpopJti(r)
  \/ Tick

Spec == Init /\ [][Next]_dpopVars

----------------------------------------------------------------------------
(* A proof is good for one request, at whichever endpoint and whatever the *)
(* order of requests: its jti is remembered for as long as it is fresh     *)
(* (DEFAULT_DPOP_JTI_TTL_MS, twice the tolerance).  At the two ends of the *)
(* window this is short by up to a second: the proof must have been        *)
(* accepted within the first second in which it is fresh, its iat ahead by *)
(* the whole tolerance, or the second request must have been held up       *)
(* between the check of its age and the store.                             *)
ProofsAreUsedOnce ==
  \A p \in Proofs :
    usedAgain[p] # -1 =>
      \/ Seconds(firstUse[p]) = ProofOf[p].iat - Tolerance
      \/ Seconds(usedAgain[p]) > ProofOf[p].iat + Tolerance
=============================================================================

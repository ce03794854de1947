----------------------------- MODULE TokenStores -----------------------------
(***************************************************************************)
(* The refresh tokens of the database adapters (postgres, d1, dynamo),     *)
(* statement by statement.  The in-memory store of TokenGrants consumes a  *)
(* token in one step; here a call is a sequence of statements, between     *)
(* which the calls of other processes run, each on a clock of its own.     *)
(*                                                                         *)
(* The SQL adapters revoke a family with one DELETE; the DynamoDB adapter  *)
(* asks an index for its rows and deletes them one by one.  A behaviour is *)
(* of one adapter, chosen at the start.                                    *)
(***************************************************************************)
EXTENDS Naturals, FiniteSets

CONSTANTS
  Tokens, Families,
  FamilyOf,     \* RefreshTokenPayload.family
  Calls,        \* calls of the TokenStore, from any process
  RefreshTtl, ReuseWindow,
  MaxSkew,      \* how far the clocks of two processes are apart
  MaxTime,      \* bound on the clock
  None

VARIABLES
  adapter, \* "sql" for postgres and d1, or "dynamo"
  now,    \* the time
  rows,   \* openauth_refresh_tokens
  saved,  \* the tokens saveRefresh was called with
  index,  \* the tokens the family index shows
  call    \* the calls of consumeRefresh and revokeFamily

vars == <<adapter, now, rows, saved, index, call>>

(* What the theorems about the stores need of the constants. *)
StoresAssumption ==
  /\ FamilyOf \in [Tokens -> Families]
  /\ {RefreshTtl, ReuseWindow, MaxSkew, MaxTime} \subseteq Nat
  /\ None \notin Nat

(* A call: its token or family, what its process took for the time, what   *)
(* it could see saved when it began, what it has yet to delete and what it *)
(* failed to delete.                                                       *)
Idle == [pc |-> "idle", op |-> "none", token |-> None, family |-> None,
         now |-> 0, there |-> {}, todo |-> {}, missed |-> {}, out |-> "none"]

Init ==
  /\ adapter \in {"sql", "dynamo"}
  /\ now = 0
  /\ rows = [t \in Tokens |-> None]
  /\ saved = {} /\ index = {}
  /\ call = [c \in Calls |-> Idle]

Becomes(c, q) == call' = [call EXCEPT ![c] = q]
Answer(c, result) ==
  Becomes(c, [call[c] EXCEPT !.pc = "done", !.todo = {}, !.out = result])

----------------------------------------------------------------------------
(* saveRefresh: one INSERT.  The token is known to no one before. *)
Save(t) ==
  /\ t \notin saved
  /\ rows' = [rows EXCEPT ![t] = [consumedAt |-> None,
                                  expiresAt |-> now + RefreshTtl]]
  /\ saved' = saved \cup {t}
  /\ UNCHANGED <<adapter, now, index, call>>

(* A lag of the family index is accepted (ports/CONSISTENCY.md). *)
Visible == IF adapter = "sql" THEN saved ELSE index

BeginConsume(c, t, clock) ==
  /\ call[c].pc = "idle"
  /\ t \in saved
  /\ Becomes(c, [Idle EXCEPT !.pc = "claim", !.op = "consume", !.token = t,
                   !.family = FamilyOf[t], !.now = clock, !.there = Visible])
  /\ UNCHANGED <<adapter, now, rows, saved, index>>

(* Variant for mutation: a consumed row matches. *)
MatchesConsumed(t, clock) == rows[t] # None /\ rows[t].expiresAt > clock

(* WHERE token = t AND consumed_at IS NULL AND expires_at > now. *)
Matches(t, clock) ==
  /\ rows[t] # None /\ rows[t].consumedAt = None
  /\ rows[t].expiresAt > clock

(* UPDATE ... RETURNING, or DynamoDB's conditional UpdateCommand. *)
ClaimWins(c) ==
  LET t == call[c].token
  IN /\ call[c].pc = "claim"
     /\ Matches(t, call[c].now)
     /\ rows' = [rows EXCEPT ![t].consumedAt = call[c].now]
     /\ Answer(c, "won")
     /\ UNCHANGED <<adapter, now, saved, index>>

ClaimMisses(c) ==
  /\ call[c].pc = "claim"
  /\ ~Matches(call[c].token, call[c].now)
  /\ Becomes(c, [call[c] EXCEPT !.pc = "lookup"])
  /\ UNCHANGED <<adapter, now, rows, saved, index>>

(* Variant for mutation: the expiry is not looked at again. *)
LookupForgets(c) ==
  LET row == rows[call[c].token]
  IN /\ call[c].pc = "lookup"
     /\ \/ row = None /\ Answer(c, "unknown")
        \/ row # None /\ Becomes(c, [call[c] EXCEPT !.pc = "revoke"])
     /\ UNCHANGED <<adapter, now, rows, saved, index>>

(* The SELECT that finds out why nothing was claimed. *)
Lookup(c) ==
  LET row == rows[call[c].token]
      clock == call[c].now
  IN /\ call[c].pc = "lookup"
     /\ \/ row = None /\ Answer(c, "unknown")
        \/ /\ row # None /\ row.consumedAt # None
           /\ IF clock <= row.consumedAt + ReuseWindow
              THEN Becomes(c, [call[c] EXCEPT !.pc = "revoke"])
              ELSE Answer(c, "consumed")
        \/ /\ row # None /\ row.consumedAt = None
           /\ Answer(c, IF clock >= row.expiresAt
                        THEN "expired" ELSE "unexplained miss")
     /\ UNCHANGED <<adapter, now, rows, saved, index>>

StatementFails(c) ==
  /\ call[c].pc \in {"claim", "lookup"}
  /\ Answer(c, "error")
  /\ UNCHANGED <<adapter, now, rows, saved, index>>

----------------------------------------------------------------------------
(* revokeFamily, called for itself or by consumeRefresh, which ignores     *)
(* what it returns.                                                        *)
BeginRevoke(c, f) ==
  /\ call[c].pc = "idle"
  /\ Becomes(c, [Idle EXCEPT !.pc = "revoke", !.op = "revoke", !.family = f,
                   !.now = now, !.there = Visible])
  /\ UNCHANGED <<adapter, now, rows, saved, index>>

Revoked(c, result) ==
  Answer(c, IF call[c].op = "consume" THEN "reuse" ELSE result)

(* Variant for mutation: only consumed rows are deleted. *)
RevokeConsumed(c) ==
  /\ adapter = "sql"
  /\ call[c].pc = "revoke"
  /\ rows' = [t \in Tokens |->
       IF FamilyOf[t] = call[c].family /\ rows[t] # None
            /\ rows[t].consumedAt # None THEN None ELSE rows[t]]
  /\ Revoked(c, "ok")
  /\ UNCHANGED <<adapter, now, saved, index>>

(* DELETE ... WHERE family = f. *)
RevokeAtOnce(c) ==
  /\ adapter = "sql"
  /\ call[c].pc = "revoke"
  /\ rows' = [t \in Tokens |->
                IF FamilyOf[t] = call[c].family THEN None ELSE rows[t]]
  /\ Revoked(c, "ok")
  /\ UNCHANGED <<adapter, now, saved, index>>

RevokeFails(c) ==
  /\ call[c].pc = "revoke"
  /\ Revoked(c, "error")
  /\ UNCHANGED <<adapter, now, rows, saved, index>>

(* queryByGsi: what the index shows of the family. *)
RevokeLists(c) ==
  /\ adapter = "dynamo"
  /\ call[c].pc = "revoke"
  /\ Becomes(c, [call[c] EXCEPT !.pc = "deleting",
       !.todo = {t \in index : FamilyOf[t] = call[c].family}])
  /\ UNCHANGED <<adapter, now, rows, saved, index>>

(* One DeleteCommand after another; a failure is passed over. *)
RevokeOne(c, t) ==
  /\ call[c].pc = "deleting"
  /\ t \in call[c].todo
  /\ \/ /\ rows' = [rows EXCEPT ![t] = None]
        /\ Becomes(c, [call[c] EXCEPT !.todo = @ \ {t}])
     \/ /\ Becomes(c, [call[c] EXCEPT !.todo = @ \ {t}, !.missed = @ \cup {t}])
        /\ UNCHANGED rows
  /\ UNCHANGED <<adapter, now, saved, index>>

RevokeEnds(c) ==
  /\ call[c].pc = "deleting"
  /\ call[c].todo = {}
  /\ Revoked(c, "ok")
  /\ UNCHANGED <<adapter, now, rows, saved, index>>

----------------------------------------------------------------------------
(* The index follows the table; DynamoDB evicts rows past their ttl. *)
IndexFollows(t) ==
  /\ adapter = "dynamo"
  /\ index' = IF rows[t] # None THEN index \cup {t} ELSE index \ {t}
  /\ UNCHANGED <<adapter, now, rows, saved, call>>

Evict(t) ==
  /\ adapter = "dynamo"
  /\ rows[t] # None /\ now >= rows[t].expiresAt
  /\ rows' = [rows EXCEPT ![t] = None]
  /\ UNCHANGED <<adapter, now, saved, index, call>>

Tick ==
  /\ now < MaxTime
  /\ now' = now + 1
  /\ UNCHANGED <<adapter, rows, saved, index, call>>

Clocks == {k \in 0 .. now + MaxSkew : k + MaxSkew >= now}

Next ==
  \/ \E t \in Tokens : Save(t) \/ IndexFollows(t) \/ Evict(t)
  \/ \E c \in Calls :
       \/ \E t \in Tokens, k \in Clocks : BeginConsume(c, t, k)
       \/ ClaimWins(c) \/ ClaimMisses(c) \/ Lookup(c) \/ StatementFails(c)
       \/ \E f \in Families : BeginRevoke(c, f)
       \/ RevokeAtOnce(c) \/ RevokeFails(c) \/ RevokeLists(c)
       \/ \E t \in Tokens : RevokeOne(c, t)
       \/ RevokeEnds(c)
  \/ Tick

Spec == Init /\ [][Next]_vars

----------------------------------------------------------------------------
(* "Concurrent presentations of the same token resolve to exactly one      *)
(* winner", whatever the clocks of the processes say.                      *)
OneWinner ==
  \A c, d \in Calls :
    /\ call[c].out = "won" /\ call[d].out = "won"
    /\ call[c].token = call[d].token
    => c = d

(* Reuse is never cried at the first presentation: some other call did     *)
(* consume the token, however long ago that was on either clock.           *)
ReuseHasAWinner ==
  \A c \in Calls :
    \/ call[c].op = "consume" /\ call[c].pc \in {"revoke", "deleting"}
    \/ call[c].out = "reuse"
    => \E d \in Calls \ {c} :
         call[d].out = "won" /\ call[d].token = call[c].token

(* "Revoke all refresh tokens whose family equals family" (the port): a    *)
(* revokeFamily that answers ok leaves no row, consumed or not, of what    *)
(* was visibly saved before it began, but for the rows whose deletion      *)
(* failed, which adapters/dynamo passes over in silence.                   *)
RevocationsReachWhatIsThere ==
  \A c \in Calls :
    call[c].out = "ok" =>
      \A t \in call[c].there \ call[c].missed :
        FamilyOf[t] = call[c].family => rows[t] = None
============================================================================

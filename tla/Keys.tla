-------------------------------- MODULE Keys --------------------------------
(***************************************************************************)
(* The KeyStore adapters and those who use their keys.  Every adapter      *)
(* makes its first key when it is asked for one: it looks for an active    *)
(* row, and when there is none generates a key and inserts it under a kid  *)
(* drawn at random, so that no two inserts ever conflict.  The database is *)
(* shared by the calls of all processes; between two of its statements any *)
(* other call may run.                                                     *)
(*                                                                         *)
(* The signing and the encryption keys are two tables with the same code,  *)
(* of which the module models one.  A kid is named by the call that drew   *)
(* it and a token by the call that fetched its signing key.  No adapter    *)
(* implements rotateSigningKeys: a row stays active for good.              *)
(***************************************************************************)
EXTENDS Naturals, FiniteSets

CONSTANTS
  Calls,     \* calls of the KeyStore, from any process
  Verifies,  \* calls of verify in the one relying party
  Dynamo,    \* TRUE: adapters/dynamo, which ignores a failed insert and
             \* lists the keys with an eventually consistent read
  None

VARIABLES
  rows,    \* the kids of the active keys
  call,    \* the calls of the KeyStore
  jwks,    \* createClient's jwksCache: the key set of the issuer, or None
  verify   \* the calls of verify

vars == <<rows, call, jwks, verify>>

(* A call: the token a check or a lookup is about, and the kids it was    *)
(* answered with.                                                          *)
IdleCall ==
  [pc |-> "idle",   \* or "ensure", "generating", "select", "done"
   op |-> "none",   \* or "current", "list", "check", "lookup"
   about |-> None, keys |-> {},
   out |-> "none"]  \* or "keys", "known", "unknown", "no active key", "failed"
IdleVerify ==
  [pc |-> "idle",   \* or "fetching", "done"
   token |-> None, out |-> "none"]   \* or "accepted", "rejected"

Init ==
  /\ rows = {}
  /\ call = [c \in Calls |-> IdleCall]
  /\ jwks = None
  /\ verify = [v \in Verifies |-> IdleVerify]

(* A token, or an auth code: whoever was given a key made one with it. *)
Signed(t) == call[t].op = "current" /\ call[t].out = "keys"
Kid(t) == CHOOSE k \in call[t].keys : TRUE

Becomes(c, q) == call' = [call EXCEPT ![c] = q]
Answer(c, keys, result) ==
  Becomes(c, [call[c] EXCEPT !.pc = "done", !.keys = keys, !.out = result])

----------------------------------------------------------------------------
(* Variant for mutation: the JWKS are listed without making sure of a key. *)
BeginUnsure(c, op, t) ==
  /\ call[c].pc = "idle"
  /\ op \in {"check", "lookup"} => t # None /\ Signed(t)
  /\ Becomes(c, [IdleCall EXCEPT
       !.pc = IF op \in {"lookup", "list"} THEN "select" ELSE "ensure",
       !.op = op, !.about = t])
  /\ UNCHANGED <<rows, jwks, verify>>

(* currentSigningKey, signingKeys for the JWKS document, signingKeys to    *)
(* verify a token (introspection, userinfo, token exchange, logout), and   *)
(* getEncryptionKey, which takes what it finds.                            *)
Begin(c, op, t) ==
  /\ call[c].pc = "idle"
  /\ op \in {"check", "lookup"} => t # None /\ Signed(t)
  /\ Becomes(c, [IdleCall EXCEPT
       !.pc = IF op = "lookup" THEN "select" ELSE "ensure",
       !.op = op, !.about = t])
  /\ UNCHANGED <<rows, jwks, verify>>

(* #ensureSigningKey, #ensureEncryptionKey. *)
EnsureFinds(c) ==
  /\ call[c].pc = "ensure"
  /\ rows # {}
  /\ Becomes(c, [call[c] EXCEPT !.pc = "select"])
  /\ UNCHANGED <<rows, jwks, verify>>

EnsureMisses(c) ==
  /\ call[c].pc = "ensure"
  /\ rows = {}
  /\ Becomes(c, [call[c] EXCEPT !.pc = "generating"])
  /\ UNCHANGED <<rows, jwks, verify>>

(* Variant for mutation: the key replaces the one before. *)
InsertReplaces(c) ==
  /\ call[c].pc = "generating"
  /\ rows' = {c}
  /\ Becomes(c, [call[c] EXCEPT !.pc = "select"])
  /\ UNCHANGED <<jwks, verify>>

(* The key pair is generated and wrapped, then inserted: ON CONFLICT (kid) *)
(* never applies, as the kid is fresh.                                     *)
Insert(c) ==
  /\ call[c].pc = "generating"
  /\ rows' = rows \cup {c}
  /\ Becomes(c, [call[c] EXCEPT !.pc = "select"])
  /\ UNCHANGED <<jwks, verify>>

InsertFails(c) ==
  /\ call[c].pc = "generating"
  /\ IF Dynamo
     THEN Becomes(c, [call[c] EXCEPT !.pc = "select"])
     ELSE Answer(c, {}, "failed")
  /\ UNCHANGED <<rows, jwks, verify>>

(* The first active row, in no particular order. *)
SelectCurrent(c) ==
  /\ call[c].pc = "select" /\ call[c].op = "current"
  /\ \/ \E k \in rows : Answer(c, {k}, "keys")
     \/ rows = {} /\ Answer(c, {}, "no active key")
  /\ UNCHANGED <<rows, jwks, verify>>

(* What a query for the list may answer. *)
Listings == IF Dynamo THEN SUBSET rows ELSE {rows}

SelectList(c) ==
  /\ call[c].pc = "select" /\ call[c].op = "list"
  /\ \E list \in Listings : Answer(c, list, "keys")
  /\ UNCHANGED <<rows, jwks, verify>>

(* verifyAccessToken and verifyIdToken look the token's kid up in the      *)
(* list; consumeCode asks for the key the code was encrypted under.        *)
SelectKid(c) ==
  /\ call[c].pc = "select" /\ call[c].op \in {"check", "lookup"}
  /\ \E list \in IF call[c].op = "check" THEN Listings ELSE {rows} :
       Answer(c, list,
              IF Kid(call[c].about) \in list THEN "known" ELSE "unknown")
  /\ UNCHANGED <<rows, jwks, verify>>

----------------------------------------------------------------------------
(* client.ts, verify: the key set is fetched once and kept. *)
Decide(v, t, set) ==
  verify' = [verify EXCEPT
    ![v] = [pc |-> "done", token |-> t,
            out |-> IF Kid(t) \in set THEN "accepted" ELSE "rejected"]]

VerifyCached(v, t) ==
  /\ verify[v].pc = "idle"
  /\ Signed(t)
  /\ jwks # None
  /\ Decide(v, t, jwks)
  /\ UNCHANGED <<rows, call, jwks>>

VerifyFetches(v, t) ==
  /\ verify[v].pc = "idle"
  /\ Signed(t)
  /\ jwks = None
  /\ verify' = [verify EXCEPT ![v].pc = "fetching", ![v].token = t]
  /\ UNCHANGED <<rows, call, jwks>>

(* The JWKS document answered by call c arrives. *)
VerifyFetched(v, c) ==
  /\ verify[v].pc = "fetching"
  /\ call[c].op = "list" /\ call[c].out = "keys"
  /\ jwks' = call[c].keys
  /\ Decide(v, verify[v].token, call[c].keys)
  /\ UNCHANGED <<rows, call>>

----------------------------------------------------------------------------
Next ==
  \/ \E c \in Calls :
       \/ Begin(c, "current", None) \/ Begin(c, "list", None)
       \/ \E t \in Calls : Begin(c, "check", t) \/ Begin(c, "lookup", t)
       \/ EnsureFinds(c) \/ EnsureMisses(c) \/ Insert(c) \/ InsertFails(c)
       \/ SelectCurrent(c) \/ SelectList(c) \/ SelectKid(c)
  \/ \E v \in Verifies :
       \/ \E t \in Calls : VerifyCached(v, t) \/ VerifyFetches(v, t)
       \/ \E c \in Calls : VerifyFetched(v, c)

Spec == Init /\ [][Next]_vars

----------------------------------------------------------------------------
(* Tokens stay good at the issuer: whichever key of the race signed a      *)
(* token or encrypted a code, every later check, on any server, knows it,  *)
(* where the list of keys does not lag (every adapter but Dynamo).         *)
IssuerKnowsItsKeys == \A c \in Calls : call[c].out # "unknown"

(* Relying parties never turn down a token of the issuer, save for the     *)
(* race: a client that caches the JWKS for good rejects one only when      *)
(* several first keys were made.                                           *)
RejectionsNeedARace ==
  \A v \in Verifies : verify[v].out = "rejected" => Cardinality(rows) > 1

(* "no active signing key (should be unreachable)" (every adapter). *)
NoActiveKeyIsUnreachable == \A c \in Calls : call[c].out # "no active key"
============================================================================

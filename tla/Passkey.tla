------------------------------- MODULE Passkey -------------------------------
(***************************************************************************)
(* The passkey method (methods/passkey.ts) over its credential stores      *)
(* (adapters/*/passkey-credential-store.ts).  The stored signature counter *)
(* is what tells a cloned authenticator from the original: it is read,     *)
(* compared by the WebAuthn library, and written back in another await.    *)
(*                                                                         *)
(* Authenticators and the library that verifies them are external: a       *)
(* device counts its signatures, or always says 0; two devices may hold    *)
(* one credential.                                                         *)
(***************************************************************************)
EXTENDS Naturals, FiniteSets

CONSTANTS
  Nobody,
  KeyFlows,       \* login flows, each with one method state
  KeyUsers,
  Credentials,    \* credential ids
  Devices,        \* authenticators
  CredentialOf,   \* the credential each device holds
  Counts,         \* does it count its signatures
  KeyPosts,       \* requests to the verify routes
  MaxOptions,     \* bounds the challenges of a flow
  MaxSignatures   \* bounds the signatures of a device

VARIABLES
  credentialStore,  \* which adapter
  creds,            \* credential id -> [user, counter] or Nobody
  methodState,      \* flow -> [phase, challenge, user] or Nobody
  issued,           \* flow -> how many challenges it was given
  signed,           \* device -> its signature counter
  keyPosts,         \* verifications and registrations in progress
  accepted,         \* history: highest counter that logged in, per credential
  disturbed         \* history: credentials with overlapping verifications
                    \* or registered twice

keyVars == <<credentialStore, creds, methodState, issued, signed, keyPosts,
             accepted, disturbed>>

PasskeyAssumption ==
  /\ CredentialOf \in [Devices -> Credentials]
  /\ Nobody \notin [user : KeyUsers \cup {Nobody}, counter : Nat]
  /\ Nobody \notin [phase : {"auth", "register"}, challenge : Nat, user : KeyUsers]

IdlePost == [pc |-> "idle", credential |-> Nobody, count |-> 0, seen |-> 0,
             user |-> Nobody]

Init ==
  /\ credentialStore \in {"memory", "postgres", "dynamo"}
  /\ creds = [c \in Credentials |-> Nobody]
  /\ methodState = [f \in KeyFlows |-> Nobody]
  /\ issued = [f \in KeyFlows |-> 0]
  /\ signed = [d \in Devices |-> 0]
  /\ keyPosts = [p \in KeyPosts |-> IdlePost]
  /\ accepted = [c \in Credentials |-> 0]
  /\ disturbed = {}

----------------------------------------------------------------------------
(* The stores. *)
Known(c) == creds[c] # Nobody
OwnedBy(u) == {c \in Credentials : Known(c) /\ creds[c].user = u}
WithCounter(c, n) == [creds EXCEPT ![c].counter = n]
With(c, u, n) == [creds EXCEPT ![c] = [user |-> u, counter |-> n]]

(* findByUsername: its possible answers.  DynamoDB asks an index that lags *)
(* behind, and takes a failure for an empty answer.                        *)
MemoryFindByUsername(u) == {OwnedBy(u)}
PostgresFindByUsername(u) == {OwnedBy(u)}
DynamoFindByUsername(u) == SUBSET OwnedBy(u)

FindByUsername(u) ==
  CASE credentialStore = "memory" -> MemoryFindByUsername(u)
    [] credentialStore = "postgres" -> PostgresFindByUsername(u)
    [] credentialStore = "dynamo" -> DynamoFindByUsername(u)

MemoryFindById(c) == creds[c]
PostgresFindById(c) == creds[c]
DynamoFindById(c) == creds[c]

FindById(c) ==
  CASE credentialStore = "memory" -> MemoryFindById(c)
    [] credentialStore = "postgres" -> PostgresFindById(c)
    [] credentialStore = "dynamo" -> DynamoFindById(c)

(* updateCounter, whatever the counter is by now.  DynamoDB would make an  *)
(* item that is not there.                                                 *)
MemoryUpdateCounter(c, n) == IF Known(c) THEN WithCounter(c, n) ELSE creds
PostgresUpdateCounter(c, n) == IF Known(c) THEN WithCounter(c, n) ELSE creds
DynamoUpdateCounter(c, n) == IF Known(c) THEN WithCounter(c, n) ELSE With(c, Nobody, n)

UpdateCounter(c, n) ==
  CASE credentialStore = "memory" -> MemoryUpdateCounter(c, n)
    [] credentialStore = "postgres" -> PostgresUpdateCounter(c, n)
    [] credentialStore = "dynamo" -> DynamoUpdateCounter(c, n)

(* create: an upsert everywhere. *)
MemoryCreate(c, u, n) == With(c, u, n)
PostgresCreate(c, u, n) == With(c, u, n)
DynamoCreate(c, u, n) == With(c, u, n)

Create(c, u, n) ==
  CASE credentialStore = "memory" -> MemoryCreate(c, u, n)
    [] credentialStore = "postgres" -> PostgresCreate(c, u, n)
    [] credentialStore = "dynamo" -> DynamoCreate(c, u, n)

----------------------------------------------------------------------------
(* Options: a new challenge, saved in the flow before it is handed out.    *)
Challenge(f, phase, u) ==
  /\ issued[f] < MaxOptions
  /\ issued' = [issued EXCEPT ![f] = @ + 1]
  /\ methodState' = [methodState EXCEPT ![f] =
                       [phase |-> phase, challenge |-> issued'[f], user |-> u]]
  /\ UNCHANGED <<credentialStore, creds, signed, keyPosts, accepted, disturbed>>

AuthOptions(f) ==
  \E u \in KeyUsers : \E found \in FindByUsername(u) :
    found # {} /\ Challenge(f, "auth", u)

RegisterOptions(f) == \E u \in KeyUsers : Challenge(f, "register", u)

(* A device signs the challenge of its page, which may not be the last one *)
(* of the flow any more.                                                   *)
Sign(d) ==
  /\ signed[d] < MaxSignatures
  /\ signed' = [signed EXCEPT ![d] = @ + IF Counts[d] THEN 1 ELSE 0]

Becomes(p, q) == keyPosts' = [keyPosts EXCEPT ![p] = q]
Done(q, pc) == [q EXCEPT !.pc = pc]
Pending(c) == {p \in KeyPosts : keyPosts[p].pc \in {"verify", "create"}
                                /\ keyPosts[p].credential = c}

(* authVerify up to its lookup of the credential.                          *)
AuthVerify(p) ==
  /\ keyPosts[p].pc = "idle"
  /\ \E f \in KeyFlows, d \in Devices :
       LET c == CredentialOf[d]
           q == [IdlePost EXCEPT !.credential = c]
       IN /\ methodState[f] # Nobody
          /\ \E challenge \in 1..issued[f] :
               IF /\ methodState[f].phase = "auth"
                  /\ FindById(c) # Nobody
                  /\ challenge = methodState[f].challenge
               THEN /\ Sign(d)
                    /\ Becomes(p, [q EXCEPT !.pc = "verify", !.count = signed'[d],
                                     !.seen = FindById(c).counter,
                                     !.user = FindById(c).user])
                    /\ disturbed' = IF Pending(c) # {} THEN disturbed \cup {c}
                                    ELSE disturbed
               ELSE Becomes(p, Done(q, "error")) /\ UNCHANGED <<signed, disturbed>>
  /\ UNCHANGED <<credentialStore, creds, methodState, issued, accepted>>

(* The library refuses a counter that does not advance, unless both are 0. *)
CounterAdvances(count, seen) == count > seen \/ (count = 0 /\ seen = 0)

(* Variant for mutation: the counter that was read is written back. *)
KeepCounter(p) ==
  LET q == keyPosts[p]
      c == q.credential
  IN /\ q.pc = "verify" /\ CounterAdvances(q.count, q.seen)
     /\ creds' = UpdateCounter(c, q.seen)
     /\ \/ /\ Becomes(p, Done(q, "success"))
           /\ accepted' = [accepted EXCEPT ![c] = IF q.count > @ THEN q.count ELSE @]
        \/ Becomes(p, Done(q, "error")) /\ UNCHANGED accepted
     /\ UNCHANGED <<credentialStore, methodState, issued, signed, disturbed>>

(* The rest of authVerify: the new counter is stored, then the login       *)
(* succeeds; the call may fail after it took effect.                       *)
FinishAuthVerify(p) ==
  LET q == keyPosts[p]
      c == q.credential
  IN /\ q.pc = "verify" /\ CounterAdvances(q.count, q.seen)
     /\ creds' = UpdateCounter(c, q.count)
     /\ \/ /\ Becomes(p, Done(q, "success"))
           /\ accepted' = [accepted EXCEPT ![c] = IF q.count > @ THEN q.count ELSE @]
        \/ Becomes(p, Done(q, "error")) /\ UNCHANGED accepted
     /\ UNCHANGED <<credentialStore, methodState, issued, signed, disturbed>>

RefuseAuthVerify(p) ==
  /\ keyPosts[p].pc = "verify"
  /\ ~CounterAdvances(keyPosts[p].count, keyPosts[p].seen)
  /\ Becomes(p, Done(keyPosts[p], "error"))
  /\ UNCHANGED <<credentialStore, creds, methodState, issued, signed, accepted,
                 disturbed>>

(* registerVerify, up to the verification and after it.  The user is the   *)
(* one of the options.                                                     *)
RegisterVerify(p) ==
  /\ keyPosts[p].pc = "idle"
  /\ \E f \in KeyFlows, d \in Devices :
       LET q == [IdlePost EXCEPT !.credential = CredentialOf[d]]
       IN /\ methodState[f] # Nobody
          /\ \E challenge \in 1..issued[f] :
               IF methodState[f].phase = "register"
                  /\ challenge = methodState[f].challenge
               THEN /\ Sign(d)
                    /\ Becomes(p, [q EXCEPT !.pc = "create", !.count = signed'[d],
                                     !.user = methodState[f].user])
               ELSE Becomes(p, Done(q, "error")) /\ UNCHANGED signed
  /\ UNCHANGED <<credentialStore, creds, methodState, issued, accepted, disturbed>>

FinishRegisterVerify(p) ==
  LET q == keyPosts[p]
      c == q.credential
  IN /\ q.pc = "create"
     /\ creds' = Create(c, q.user, q.count)
     /\ disturbed' = IF Known(c) THEN disturbed \cup {c} ELSE disturbed
     /\ \E end \in {"success", "error"} : Becomes(p, Done(q, end))
     /\ UNCHANGED <<credentialStore, methodState, issued, signed, accepted>>

(* A store that fails outright ends a request with nothing done.           *)
StoreFails(p) ==
  /\ keyPosts[p].pc \in {"verify", "create"}
  /\ Becomes(p, Done(keyPosts[p], "error"))
  /\ UNCHANGED <<credentialStore, creds, methodState, issued, signed, accepted,
                 disturbed>>

Next ==
  \/ \E f \in KeyFlows : AuthOptions(f) \/ RegisterOptions(f)
  \/ \E p \in KeyPosts :
       \/ AuthVerify(p) \/ FinishAuthVerify(p) \/ RefuseAuthVerify(p)
       \/ RegisterVerify(p) \/ FinishRegisterVerify(p) \/ StoreFails(p)

Spec == Init /\ [][Next]_keyVars

----------------------------------------------------------------------------
(* The counter that is stored is at least the highest one that has logged  *)
(* in, so that a clone which has counted no further than the original is   *)
(* refused, on every store, after failures, and across challenges that     *)
(* replace each other in one flow.  The counter is only forgotten when two *)
(* verifications of one credential overlap (authVerify writes              *)
(* unconditionally) or it is registered again (create is an upsert).       *)
CountersAreKept ==
  \A c \in Credentials :
    Known(c) /\ c \notin disturbed => creds[c].counter >= accepted[c]
=============================================================================

----------------------------- MODULE StoreProofs -----------------------------
(***************************************************************************)
(* Proofs about what is kept and where: the signing keys, the refresh      *)
(* tokens and the sessions of the databases, and the directory that SCIM   *)
(* requests change, for any values of the constants.                       *)
(***************************************************************************)
EXTENDS Components, Integers, Sequences, FiniteSetTheorems, TLAPS

----------------------------------------------------------------------------
(* Signing keys: however many calls race to make the first one.  The       *)
(* adapters are those whose lists hold every active key.                   *)
KeyCallRecord ==
  [pc : {"idle", "ensure", "generating", "select", "done"},
   op : {"none", "current", "list", "check", "lookup"},
   about : Calls \cup {None}, keys : SUBSET Calls,
   out : {"none", "keys", "known", "unknown", "no active key", "failed"}]

VerifyRecord ==
  [pc : {"idle", "fetching", "done"}, token : Calls \cup {None},
   out : {"none", "accepted", "rejected"}]

KeyTypeOK ==
  /\ keyRows \subseteq Calls /\ IsFiniteSet(keyRows)
  /\ keyCalls \in [Calls -> KeyCallRecord]
  /\ jwks \in (SUBSET Calls) \cup {None}
  /\ verify \in [TokenVerifies -> VerifyRecord]

(* Whoever was answered was answered with keys of the table, and the       *)
(* tokens that are asked about have been signed.                           *)
KeyCallOK(q) ==
  /\ q.pc # "done" => q.out = "none"
  /\ q.op \in {"check", "lookup"} => q.about \in Calls
    /\ SigningKeys!Signed(q.about)
  /\ q.op = "current" /\ q.out = "keys" => \E k \in keyRows : q.keys = {k}
  /\ q.out = "keys" => q.keys \subseteq keyRows
  /\ q.op = "lookup" => q.out # "unknown"

(* A call is past #ensureSigningKey; lookups take the table as it is.      *)
Ensured(q) ==
  q.op \in {"current", "list", "check"} /\ q.pc = "select" => keyRows # {}

(* What is true of a list that holds every active key. *)
ListOK(q) ==
  /\ q.op = "list" /\ q.out = "keys" => q.keys # {}
  /\ q.out # "unknown"

(* The key set the relying party keeps, and the tokens it decides on.      *)
KeptSet == jwks # None => jwks # {} /\ jwks \subseteq keyRows

VerifyOK(p) ==
  /\ p.pc = "fetching" => p.token \in Calls /\ SigningKeys!Signed(p.token)
  /\ p.out = "rejected" => \E j, k \in keyRows : j # k

KeyInv == \A c \in Calls : KeyCallOK(keyCalls[c])

FullLists ==
  /\ \A c \in Calls : Ensured(keyCalls[c]) /\ ListOK(keyCalls[c])
  /\ KeptSet
  /\ \A v \in TokenVerifies : VerifyOK(verify[v])
----------------------------------------------------------------------------
LEMMA KeyBecomesType ==
  ASSUME KeyTypeOK, NEW c \in Calls, NEW q \in KeyCallRecord,
         SigningKeys!Becomes(c, q)
  PROVE  /\ keyCalls' \in [Calls -> KeyCallRecord]
         /\ keyCalls'[c] = q
         /\ \A d \in Calls \ {c} : keyCalls'[d] = keyCalls[d]
  BY DEF KeyTypeOK, SigningKeys!Becomes

LEMMA KeyAnswerType ==
  ASSUME KeyTypeOK, NEW c \in Calls, NEW keys \in SUBSET Calls, NEW result,
         result \in {"keys", "known", "unknown", "no active key", "failed"},
         SigningKeys!Answer(c, keys, result)
  PROVE  /\ keyCalls' \in [Calls -> KeyCallRecord]
         /\ keyCalls'[c].pc = "done" /\ keyCalls'[c].out = result
           /\ keyCalls'[c].keys = keys
         /\ keyCalls'[c].op = keyCalls[c].op
           /\ keyCalls'[c].about = keyCalls[c].about
         /\ \A d \in Calls \ {c} : keyCalls'[d] = keyCalls[d]
<1> DEFINE q == [keyCalls[c] EXCEPT !.pc = "done", !.keys = keys,
     !.out = result]
<1>1. keyCalls[c] \in KeyCallRecord
  BY DEF KeyTypeOK
<1>2. /\ q \in KeyCallRecord
      /\ q.pc = "done" /\ q.out = result /\ q.keys = keys
      /\ q.op = keyCalls[c].op /\ q.about = keyCalls[c].about
  BY <1>1 DEF KeyCallRecord
<1>3. SigningKeys!Becomes(c, q)
  BY DEF SigningKeys!Answer
<1> HIDE DEF q
<1>4. QED
  BY <1>2, <1>3, KeyBecomesType

(* A call that goes on to its next statement. *)
LEMMA KeyGoesOn ==
  ASSUME KeyTypeOK, NEW c \in Calls, NEW pc \in {"generating", "select"},
         SigningKeys!Becomes(c, [keyCalls[c] EXCEPT !.pc = pc])
  PROVE  /\ keyCalls' \in [Calls -> KeyCallRecord]
         /\ keyCalls'[c].pc = pc /\ keyCalls'[c].out = keyCalls[c].out
         /\ keyCalls'[c].keys = keyCalls[c].keys
         /\ keyCalls'[c].op = keyCalls[c].op
           /\ keyCalls'[c].about = keyCalls[c].about
         /\ \A d \in Calls \ {c} : keyCalls'[d] = keyCalls[d]
<1> DEFINE q == [keyCalls[c] EXCEPT !.pc = pc]
<1>1. keyCalls[c] \in KeyCallRecord
  BY DEF KeyTypeOK
<1>2. /\ q \in KeyCallRecord
      /\ q.pc = pc /\ q.out = keyCalls[c].out /\ q.keys = keyCalls[c].keys
      /\ q.op = keyCalls[c].op /\ q.about = keyCalls[c].about
  BY <1>1 DEF KeyCallRecord
<1>3. SigningKeys!Becomes(c, q)
  OBVIOUS
<1> HIDE DEF q
<1>4. QED
  BY <1>2, <1>3, KeyBecomesType

LEMMA KeyBeginType ==
  ASSUME KeyTypeOK, NEW c \in Calls, NEW op \in {"current", "list", "check",
         "lookup"},
         NEW t \in Calls \cup {None}, SigningKeys!Begin(c, op, t)
  PROVE  /\ keyCalls' \in [Calls -> KeyCallRecord]
         /\ keyCalls'[c].pc = IF op = "lookup" THEN "select" ELSE "ensure"
         /\ keyCalls'[c].out = "none" /\ keyCalls'[c].keys = {}
         /\ keyCalls'[c].op = op /\ keyCalls'[c].about = t
         /\ \A d \in Calls \ {c} : keyCalls'[d] = keyCalls[d]
<1> DEFINE q == [SigningKeys!IdleCall EXCEPT
                   !.pc = IF op = "lookup" THEN "select" ELSE "ensure",
                   !.op = op, !.about = t]
<1>1. /\ q \in KeyCallRecord
      /\ q.pc = IF op = "lookup" THEN "select" ELSE "ensure"
      /\ q.out = "none" /\ q.keys = {} /\ q.op = op /\ q.about = t
  BY DEF SigningKeys!IdleCall, KeyCallRecord
<1>2. SigningKeys!Becomes(c, q)
  BY DEF SigningKeys!Begin
<1> HIDE DEF q
<1>3. QED
  BY <1>1, <1>2, KeyBecomesType

LEMMA KeyTypeStep ==
  ASSUME KeyTypeOK, [SigningKeys!Next]_(SigningKeys!vars)
  PROVE  KeyTypeOK'
<1>a. ASSUME keyCalls' \in [Calls -> KeyCallRecord], keyRows' = keyRows,
     UNCHANGED <<jwks, verify>>
      PROVE  KeyTypeOK'
  BY <1>a DEF KeyTypeOK
<1>1. ASSUME NEW c \in Calls, NEW op \in {"current", "list", "check", "lookup"},
             NEW t \in Calls \cup {None}, SigningKeys!Begin(c, op, t)
      PROVE  KeyTypeOK'
  BY <1>1, <1>a, KeyBeginType DEF SigningKeys!Begin
<1>2. ASSUME NEW c \in Calls, SigningKeys!EnsureFinds(c)
     \/ SigningKeys!EnsureMisses(c) PROVE KeyTypeOK'
  BY <1>2, <1>a, KeyGoesOn DEF SigningKeys!EnsureFinds, SigningKeys!EnsureMisses
<1>3. ASSUME NEW c \in Calls, SigningKeys!Insert(c) PROVE KeyTypeOK'
  BY <1>3, KeyGoesOn, FS_AddElement DEF SigningKeys!Insert, KeyTypeOK
<1>4. ASSUME NEW c \in Calls, SigningKeys!InsertFails(c) PROVE KeyTypeOK'
  BY <1>4, <1>a, KeyGoesOn, KeyAnswerType DEF SigningKeys!InsertFails
<1>5. ASSUME NEW c \in Calls, SigningKeys!SelectCurrent(c) PROVE KeyTypeOK'
  BY <1>5, <1>a, KeyAnswerType DEF SigningKeys!SelectCurrent, KeyTypeOK
<1>6. ASSUME NEW c \in Calls, SigningKeys!SelectList(c) PROVE KeyTypeOK'
  BY <1>6, <1>a, KeyAnswerType
       DEF SigningKeys!SelectList, SigningKeys!Listings, KeyTypeOK
<1>7. ASSUME NEW c \in Calls, SigningKeys!SelectKid(c) PROVE KeyTypeOK'
  BY <1>7, <1>a, KeyAnswerType
       DEF SigningKeys!SelectKid, SigningKeys!Listings, KeyTypeOK
<1>8. ASSUME NEW v \in TokenVerifies, NEW t \in Calls \cup {None}, NEW set,
     SigningKeys!Decide(v, t, set)
      PROVE  verify' \in [TokenVerifies -> VerifyRecord]
  BY <1>8 DEF SigningKeys!Decide, KeyTypeOK, VerifyRecord
<1>9. ASSUME NEW v \in TokenVerifies, NEW t \in Calls,
     SigningKeys!VerifyCached(v, t) PROVE KeyTypeOK'
  BY <1>9, <1>8 DEF SigningKeys!VerifyCached, KeyTypeOK
<1>10. ASSUME NEW v \in TokenVerifies, NEW t \in Calls,
     SigningKeys!VerifyFetches(v, t) PROVE KeyTypeOK'
  BY <1>10 DEF SigningKeys!VerifyFetches, KeyTypeOK, VerifyRecord
<1>11. ASSUME NEW v \in TokenVerifies, NEW c \in Calls,
     SigningKeys!VerifyFetched(v, c)
       PROVE  KeyTypeOK'
  BY <1>11, <1>8 DEF SigningKeys!VerifyFetched, KeyTypeOK, KeyCallRecord,
       VerifyRecord
<1>12. CASE UNCHANGED SigningKeys!vars
  BY <1>12 DEF SigningKeys!vars, KeyTypeOK
<1>13. QED
  BY <1>1, <1>2, <1>3, <1>4, <1>5, <1>6, <1>7, <1>9, <1>10, <1>11, <1>12
     DEF SigningKeys!Next
----------------------------------------------------------------------------
(* What no step undoes: keys stay active and answers stay given. *)
KeysLast ==
  /\ keyRows \subseteq keyRows'
  /\ \A c \in Calls : keyCalls[c].out # "none" => keyCalls'[c] = keyCalls[c]

LEMMA KeysLastStep ==
  ASSUME KeyTypeOK, KeyInv, [SigningKeys!Next]_(SigningKeys!vars)
  PROVE  KeysLast
<1>a. \A c \in Calls : keyCalls[c].out # "none" => keyCalls[c].pc = "done"
  BY DEF KeyInv, KeyCallOK
<1>b. ASSUME NEW c \in Calls, NEW q, SigningKeys!Becomes(c, q),
     keyCalls[c].pc # "done",
             keyRows \subseteq keyRows'
      PROVE  KeysLast
  BY <1>a, <1>b DEF SigningKeys!Becomes, KeysLast, KeyTypeOK
<1>1. ASSUME NEW c \in Calls, NEW op, NEW t, SigningKeys!Begin(c, op, t)
     PROVE KeysLast
  BY <1>1, <1>b DEF SigningKeys!Begin
<1>2. ASSUME NEW c \in Calls,
             SigningKeys!EnsureFinds(c) \/ SigningKeys!EnsureMisses(c)
               \/ SigningKeys!Insert(c) \/ SigningKeys!InsertFails(c)
      PROVE  KeysLast
  BY <1>2, <1>b DEF SigningKeys!EnsureFinds, SigningKeys!EnsureMisses,
       SigningKeys!Insert, SigningKeys!InsertFails, SigningKeys!Answer
<1>3. ASSUME NEW c \in Calls, SigningKeys!SelectCurrent(c)
     \/ SigningKeys!SelectList(c) \/ SigningKeys!SelectKid(c)
      PROVE  KeysLast
  BY <1>3, <1>b DEF SigningKeys!SelectCurrent, SigningKeys!SelectList,
       SigningKeys!SelectKid, SigningKeys!Answer
<1>4. ASSUME NEW v \in TokenVerifies, NEW t \in Calls,
             SigningKeys!VerifyCached(v, t) \/ SigningKeys!VerifyFetches(v, t)
               \/ SigningKeys!VerifyFetched(v, t)
      PROVE  KeysLast
  BY <1>4 DEF SigningKeys!VerifyCached, SigningKeys!VerifyFetches,
       SigningKeys!VerifyFetched, KeysLast
<1>5. CASE UNCHANGED SigningKeys!vars
  BY <1>5 DEF SigningKeys!vars, KeysLast
<1>6. QED
  BY <1>1, <1>2, <1>3, <1>4, <1>5 DEF SigningKeys!Next

(* A signed token's kid is that of an active key. *)
LEMMA KidIsActive ==
  ASSUME KeyTypeOK, KeyInv, NEW t \in Calls, SigningKeys!Signed(t)
  PROVE  SigningKeys!Kid(t) \in keyRows
<1>1. PICK k \in keyRows : keyCalls[t].keys = {k}
  BY DEF KeyInv, KeyCallOK, SigningKeys!Signed
<1>2. QED
  BY <1>1 DEF SigningKeys!Kid

(* A call that does not move is as good after a step as before it. *)
LEMMA KeyUnmoved ==
  ASSUME KeysLast, KeyTypeOK, KeyInv, NEW c \in Calls,
         keyCalls'[c] = keyCalls[c]
  PROVE  KeyCallOK(keyCalls[c])'
<1>1. keyCalls[c] \in KeyCallRecord /\ KeyCallOK(keyCalls[c])
  BY DEF KeyTypeOK, KeyInv
<1>2. QED
  BY <1>1 DEF KeysLast, KeyCallOK, SigningKeys!Signed

LEMMA KeyCallStep ==
  ASSUME KeysLast, KeyTypeOK, KeyInv, NEW c \in Calls,
         [SigningKeys!Next]_(SigningKeys!vars), keyCalls'[c] # keyCalls[c]
  PROVE  KeyCallOK(keyCalls[c])'
<1>a. keyCalls[c] \in KeyCallRecord /\ KeyCallOK(keyCalls[c])
  BY DEF KeyTypeOK, KeyInv
<1>b. ASSUME NEW d \in Calls, NEW q, SigningKeys!Becomes(d, q) PROVE d = c
  BY <1>b DEF SigningKeys!Becomes, KeyTypeOK
<1>c. ASSUME keyCalls[c].op \in {"check", "lookup"}
      PROVE  /\ keyCalls[c].about \in Calls
             /\ keyCalls'[keyCalls[c].about].op = "current"
             /\ keyCalls'[keyCalls[c].about].out = "keys"
  BY <1>a, <1>c DEF KeyCallOK, SigningKeys!Signed, KeysLast
<1>1. ASSUME NEW op \in {"current", "list", "check", "lookup"},
             NEW t \in Calls \cup {None}, op \in {"check", "lookup"}
               => t \in Calls,
             SigningKeys!Begin(c, op, t)
      PROVE  KeyCallOK(keyCalls[c])'
  <2>1. op \in {"check", "lookup"} => SigningKeys!Signed(t)'
    BY <1>1 DEF SigningKeys!Begin, SigningKeys!Signed, KeysLast
  <2>2. QED
    BY <1>1, <2>1, KeyBeginType DEF KeyCallOK
<1>2. ASSUME NEW pc \in {"generating", "select"}, keyCalls[c].pc # "done",
             SigningKeys!Becomes(c, [keyCalls[c] EXCEPT !.pc = pc])
      PROVE  KeyCallOK(keyCalls[c])'
  <2>1. /\ keyCalls'[c].pc = pc /\ keyCalls'[c].out = "none"
        /\ keyCalls'[c].op = keyCalls[c].op
          /\ keyCalls'[c].about = keyCalls[c].about
    BY <1>a, <1>2, KeyGoesOn DEF KeyCallOK
  <2>2. QED
    BY <2>1, <1>c, <1>2 DEF KeyCallOK, SigningKeys!Signed
<1>3. ASSUME NEW keys \in SUBSET keyRows,
             NEW result \in {"keys", "known", "unknown", "no active key",
               "failed"},
             SigningKeys!Answer(c, keys, result),
             keyCalls[c].op = "current" /\ result = "keys"
               => \E k \in keyRows : keys = {k},
             keyCalls[c].op = "lookup" => result # "unknown"
      PROVE  KeyCallOK(keyCalls[c])'
  <2>1. /\ keyCalls'[c].pc = "done" /\ keyCalls'[c].out = result
       /\ keyCalls'[c].keys = keys
        /\ keyCalls'[c].op = keyCalls[c].op
          /\ keyCalls'[c].about = keyCalls[c].about
    BY <1>3, KeyAnswerType DEF KeyTypeOK
  <2>2. QED
    BY <2>1, <1>c, <1>3 DEF KeyCallOK, KeysLast, SigningKeys!Signed
<1>4. CASE SigningKeys!EnsureFinds(c) \/ SigningKeys!EnsureMisses(c)
     \/ SigningKeys!Insert(c) \/ SigningKeys!InsertFails(c)
  BY <1>4, <1>2, <1>3 DEF SigningKeys!EnsureFinds, SigningKeys!EnsureMisses,
       SigningKeys!Insert, SigningKeys!InsertFails
<1>5. CASE SigningKeys!SelectCurrent(c) \/ SigningKeys!SelectList(c)
  BY <1>5, <1>3 DEF SigningKeys!SelectCurrent, SigningKeys!SelectList,
       SigningKeys!Listings
<1>6. CASE SigningKeys!SelectKid(c)
  <2>1. keyCalls[c].op = "lookup"
       => SigningKeys!Kid(keyCalls[c].about) \in keyRows
    BY <1>a, KidIsActive DEF KeyCallOK
  <2>2. QED
    BY <1>6, <1>3, <2>1 DEF SigningKeys!SelectKid, SigningKeys!Listings
<1>7. CASE UNCHANGED keyCalls
  BY <1>7
<1>8. ASSUME NEW d \in Calls, d # c,
             \/ \E op, t : SigningKeys!Begin(d, op, t)
             \/ SigningKeys!EnsureFinds(d) \/ SigningKeys!EnsureMisses(d)
               \/ SigningKeys!Insert(d) \/ SigningKeys!InsertFails(d)
             \/ SigningKeys!SelectCurrent(d) \/ SigningKeys!SelectList(d)
               \/ SigningKeys!SelectKid(d)
      PROVE  FALSE
  BY <1>b, <1>8 DEF SigningKeys!Begin, SigningKeys!EnsureFinds,
       SigningKeys!EnsureMisses, SigningKeys!Insert, SigningKeys!InsertFails,
       SigningKeys!SelectCurrent, SigningKeys!SelectList,
         SigningKeys!SelectKid, SigningKeys!Answer
<1>9. QED
  BY <1>1, <1>4, <1>5, <1>6, <1>7, <1>8
     DEF SigningKeys!Next, SigningKeys!VerifyCached, SigningKeys!VerifyFetches,
         SigningKeys!VerifyFetched, SigningKeys!vars

(* Whoever was answered was answered with keys of the table. *)
LEMMA KeyInvariance == SigningKeys!Spec => [](KeyTypeOK /\ KeyInv)
<1>1. SigningKeys!Init => KeyTypeOK /\ KeyInv
  <2> SUFFICES ASSUME SigningKeys!Init PROVE KeyTypeOK /\ KeyInv
    OBVIOUS
  <2>1. SigningKeys!IdleCall \in KeyCallRecord
       /\ SigningKeys!IdleVerify \in VerifyRecord
    BY DEF SigningKeys!IdleCall, KeyCallRecord, SigningKeys!IdleVerify,
         VerifyRecord
  <2>2. IsFiniteSet({})
    BY FS_EmptySet
  <2>3. KeyTypeOK
    <3>1. keyCalls \in [Calls -> KeyCallRecord]
         /\ verify \in [TokenVerifies -> VerifyRecord]
      BY <2>1 DEF SigningKeys!Init
    <3>2. keyRows \subseteq Calls /\ IsFiniteSet(keyRows)
      BY <2>2, Zenon DEF SigningKeys!Init
    <3>3. jwks \in (SUBSET Calls) \cup {None}
      BY DEF SigningKeys!Init
    <3>4. QED
      BY <3>1, <3>2, <3>3 DEF KeyTypeOK
  <2>4. KeyInv
    BY DEF SigningKeys!Init, KeyInv, KeyCallOK, SigningKeys!IdleCall
  <2>5. QED
    BY <2>3, <2>4
<1>2. KeyTypeOK /\ KeyInv /\ [SigningKeys!Next]_(SigningKeys!vars)
     => (KeyTypeOK /\ KeyInv)'
  <2> SUFFICES ASSUME KeyTypeOK, KeyInv, [SigningKeys!Next]_(SigningKeys!vars)
       PROVE KeyTypeOK' /\ KeyInv'
    OBVIOUS
  <2>1. KeyTypeOK' /\ KeysLast
    BY KeyTypeStep, KeysLastStep
  <2>2. QED
    BY <2>1, KeyCallStep, KeyUnmoved DEF KeyInv
<1>3. QED
  BY <1>1, <1>2, PTL DEF SigningKeys!Spec
----------------------------------------------------------------------------
(* The adapters whose lists are complete. *)

(* Nobody is past #ensureSigningKey but that there is a key; no list is    *)
(* empty; and whoever asks about a kid finds it.                           *)
LEMMA FullCallStep ==
  ASSUME KeysLast, KeyTypeOK, KeyInv, FullLists,
         [SigningKeys!Next]_(SigningKeys!vars), NEW c \in Calls
  PROVE  Ensured(keyCalls[c])' /\ ListOK(keyCalls[c])'
<1>a. /\ keyCalls[c] \in KeyCallRecord /\ KeyCallOK(keyCalls[c])
      /\ Ensured(keyCalls[c]) /\ ListOK(keyCalls[c])
  BY DEF KeyTypeOK, KeyInv, FullLists
<1>b. ASSUME NEW d \in Calls, NEW q, SigningKeys!Becomes(d, q), d # c
     PROVE keyCalls'[c] = keyCalls[c]
  BY <1>b DEF SigningKeys!Becomes, KeyTypeOK
<1>c. CASE keyCalls'[c] = keyCalls[c]
  BY <1>a, <1>c DEF Ensured, ListOK, KeysLast
<1>1. ASSUME NEW op \in {"current", "list", "check", "lookup"},
             NEW t \in Calls \cup {None}, SigningKeys!Begin(c, op, t)
      PROVE  Ensured(keyCalls[c])' /\ ListOK(keyCalls[c])'
  BY <1>1, KeyBeginType DEF Ensured, ListOK
<1>2. ASSUME NEW pc \in {"generating", "select"}, keyCalls[c].pc # "done",
             SigningKeys!Becomes(c, [keyCalls[c] EXCEPT !.pc = pc]),
               pc = "select" => keyRows' # {}
      PROVE  Ensured(keyCalls[c])' /\ ListOK(keyCalls[c])'
  <2>1. keyCalls'[c].pc = pc /\ keyCalls'[c].out = "none"
    BY <1>a, <1>2, KeyGoesOn DEF KeyCallOK
  <2>2. QED
    BY <2>1, <1>2 DEF Ensured, ListOK
<1>3. ASSUME NEW keys \in SUBSET keyRows,
             NEW result \in {"keys", "known", "no active key", "failed"},
             SigningKeys!Answer(c, keys, result),
             keyCalls[c].op = "list" /\ result = "keys" => keys # {}
      PROVE  Ensured(keyCalls[c])' /\ ListOK(keyCalls[c])'
  <2>1. /\ keyCalls'[c].pc = "done" /\ keyCalls'[c].out = result
       /\ keyCalls'[c].keys = keys
        /\ keyCalls'[c].op = keyCalls[c].op
    BY <1>3, KeyAnswerType DEF KeyTypeOK
  <2>2. QED
    BY <2>1, <1>3 DEF Ensured, ListOK
<1>4. CASE SigningKeys!EnsureFinds(c) \/ SigningKeys!EnsureMisses(c)
  BY <1>4, <1>2 DEF SigningKeys!EnsureFinds, SigningKeys!EnsureMisses
<1>5. CASE SigningKeys!Insert(c) \/ SigningKeys!InsertFails(c)
  <2>1. CASE SigningKeys!InsertFails(c)
    <3>1. SigningKeys!Answer(c, {}, "failed") /\ keyCalls[c].out = "none"
      BY <2>1, <1>a DEF SigningKeys!InsertFails, KeyCallOK
    <3>2. QED
      BY <3>1, <1>3
  <2>2. CASE SigningKeys!Insert(c)
    BY <2>2, <1>2 DEF SigningKeys!Insert
  <2>3. QED
    BY <1>5, <2>1, <2>2
<1>6. CASE SigningKeys!SelectCurrent(c)
  BY <1>6, <1>3 DEF SigningKeys!SelectCurrent
<1>7. CASE SigningKeys!SelectList(c)
  BY <1>7, <1>a, <1>3 DEF SigningKeys!SelectList, SigningKeys!Listings, Ensured
<1>8. CASE SigningKeys!SelectKid(c)
  <2>1. SigningKeys!Kid(keyCalls[c].about) \in keyRows
    BY <1>8, <1>a, KidIsActive DEF KeyCallOK, SigningKeys!SelectKid
  <2>2. QED
    BY <1>8, <2>1, <1>3 DEF SigningKeys!SelectKid, SigningKeys!Listings
<1>9. ASSUME NEW d \in Calls, d # c,
             \/ \E op, t : SigningKeys!Begin(d, op, t)
             \/ SigningKeys!EnsureFinds(d) \/ SigningKeys!EnsureMisses(d)
               \/ SigningKeys!Insert(d) \/ SigningKeys!InsertFails(d)
             \/ SigningKeys!SelectCurrent(d) \/ SigningKeys!SelectList(d)
               \/ SigningKeys!SelectKid(d)
      PROVE  keyCalls'[c] = keyCalls[c]
  BY <1>b, <1>9 DEF SigningKeys!Begin, SigningKeys!EnsureFinds,
       SigningKeys!EnsureMisses, SigningKeys!Insert, SigningKeys!InsertFails,
       SigningKeys!SelectCurrent, SigningKeys!SelectList,
         SigningKeys!SelectKid, SigningKeys!Answer
<1>10. QED
  BY <1>c, <1>1, <1>4, <1>5, <1>6, <1>7, <1>8, <1>9
     DEF SigningKeys!Next, SigningKeys!VerifyCached, SigningKeys!VerifyFetches,
         SigningKeys!VerifyFetched, SigningKeys!vars

(* A kid that a set of active keys lacks is of another key than those.     *)
LEMMA FullVerifyStep ==
  ASSUME KeysLast, KeyTypeOK, KeyInv, FullLists,
         [SigningKeys!Next]_(SigningKeys!vars)
  PROVE  KeptSet' /\ \A v \in TokenVerifies : VerifyOK(verify[v])'
<1>a. \A c \in Calls : SigningKeys!Signed(c) => keyCalls'[c] = keyCalls[c]
  BY DEF KeysLast, SigningKeys!Signed
<1>b. ASSUME NEW v \in TokenVerifies, verify'[v] = verify[v]
     PROVE VerifyOK(verify[v])'
  <2>1. VerifyOK(verify[v])
    BY DEF FullLists
  <2>2. QED
    BY <1>a, <1>b, <2>1 DEF VerifyOK, KeysLast, SigningKeys!Signed
<1>c. ASSUME NEW v \in TokenVerifies, NEW t \in Calls,
     NEW set \in SUBSET keyRows,
             set # {}, SigningKeys!Signed(t), SigningKeys!Decide(v, t, set)
      PROVE  \A w \in TokenVerifies : VerifyOK(verify[w])'
  <2>1. verify'[v].pc = "done" /\ (verify'[v].out = "rejected"
       => SigningKeys!Kid(t) \notin set)
    BY <1>c DEF SigningKeys!Decide, KeyTypeOK
  <2>2. VerifyOK(verify[v])'
    BY <1>c, <2>1, KidIsActive DEF VerifyOK, KeysLast
  <2>3. \A w \in TokenVerifies \ {v} : verify'[w] = verify[w]
    BY <1>c DEF SigningKeys!Decide, KeyTypeOK
  <2>4. QED
    BY <2>2, <2>3, <1>b
<1>1. ASSUME NEW v \in TokenVerifies, NEW t \in Calls,
     SigningKeys!VerifyCached(v, t)
      PROVE  KeptSet' /\ \A w \in TokenVerifies : VerifyOK(verify[w])'
  BY <1>1, <1>c DEF SigningKeys!VerifyCached, FullLists, KeptSet
<1>2. ASSUME NEW v \in TokenVerifies, NEW t \in Calls,
     SigningKeys!VerifyFetches(v, t)
      PROVE  KeptSet' /\ \A w \in TokenVerifies : VerifyOK(verify[w])'
  <2>1. KeptSet'
    BY <1>2 DEF SigningKeys!VerifyFetches, KeptSet
  <2>2. /\ verify'[v].pc = "fetching" /\ verify'[v].token = t
        /\ verify'[v].out = verify[v].out
        /\ \A w \in TokenVerifies \ {v} : verify'[w] = verify[w]
    BY <1>2 DEF SigningKeys!VerifyFetches, KeyTypeOK, VerifyRecord
  <2>3. VerifyOK(verify[v])'
    BY <1>2, <1>a, <2>2 DEF SigningKeys!VerifyFetches, VerifyOK, FullLists,
         KeysLast, SigningKeys!Signed
  <2>4. QED
    BY <1>b, <2>1, <2>2, <2>3
<1>3. ASSUME NEW v \in TokenVerifies, NEW c \in Calls,
     SigningKeys!VerifyFetched(v, c)
      PROVE  KeptSet' /\ \A w \in TokenVerifies : VerifyOK(verify[w])'
  <2>1. keyCalls[c].keys # {} /\ keyCalls[c].keys \subseteq keyRows
    BY <1>3 DEF SigningKeys!VerifyFetched, FullLists, ListOK, KeyInv, KeyCallOK
  <2>2. KeptSet'
    BY <1>3, <2>1 DEF SigningKeys!VerifyFetched, KeptSet
  <2>3. verify[v].token \in Calls /\ SigningKeys!Signed(verify[v].token)
    BY <1>3 DEF SigningKeys!VerifyFetched, FullLists, VerifyOK
  <2>4. QED
    BY <1>3, <2>1, <2>2, <2>3, <1>c DEF SigningKeys!VerifyFetched
<1>4. ASSUME verify' = verify, jwks' = jwks
      PROVE  KeptSet' /\ \A w \in TokenVerifies : VerifyOK(verify[w])'
  BY <1>4, <1>b DEF FullLists, KeptSet, KeysLast
<1>5. QED
  BY <1>1, <1>2, <1>3, <1>4
     DEF SigningKeys!Next, SigningKeys!Begin, SigningKeys!EnsureFinds,
         SigningKeys!EnsureMisses, SigningKeys!Insert, SigningKeys!InsertFails,
         SigningKeys!SelectCurrent, SigningKeys!SelectList,
           SigningKeys!SelectKid, SigningKeys!vars

(* Where lists are complete, every call past ensureSigningKey finds the    *)
(* rows of the key it works with, and a list it read holds all of them.    *)
LEMMA ListsAreFull == SigningKeys!Spec => []FullLists
<1>1. SigningKeys!Init => FullLists
  BY DEF SigningKeys!Init, FullLists, Ensured, ListOK, KeptSet, VerifyOK,
       SigningKeys!IdleCall, SigningKeys!IdleVerify
<1>2. KeyTypeOK /\ KeyInv /\ FullLists /\ [SigningKeys!Next]_(SigningKeys!vars)
     => FullLists'
  BY KeysLastStep, FullCallStep, FullVerifyStep DEF FullLists
<1>3. QED
  BY <1>1, <1>2, KeyInvariance, PTL DEF SigningKeys!Spec

(* However many calls race to make the first keys, the issuer never fails  *)
(* to find the key it made a token or an auth code with (signingKeys,      *)
(* getEncryptionKey; every adapter whose lists are complete).              *)
LEMMA KeysKnown == SigningKeys!Spec => []SigningKeys!IssuerKnowsItsKeys
<1>1. FullLists => SigningKeys!IssuerKnowsItsKeys
  BY DEF FullLists, ListOK, SigningKeys!IssuerKnowsItsKeys
<1>2. QED
  BY <1>1, ListsAreFull, PTL

(* A relying party that keeps the first key set it fetched turns a good    *)
(* token down only if several first keys were made (createClient, verify). *)
LEMMA RejectionsRaced == SigningKeys!Spec => []SigningKeys!RejectionsNeedARace
<1>1. KeyTypeOK /\ FullLists => SigningKeys!RejectionsNeedARace
  <2> SUFFICES ASSUME KeyTypeOK, FullLists, NEW v \in TokenVerifies,
                      verify[v].out = "rejected"
               PROVE  Cardinality(keyRows) > 1
    BY DEF SigningKeys!RejectionsNeedARace, SigningKeys!Cardinality, Cardinality
  <2>1. PICK j \in keyRows, k \in keyRows : j # k
    BY DEF FullLists, VerifyOK
  <2>2. IsFiniteSet(keyRows) /\ Cardinality(keyRows) \in Nat
    BY FS_CardinalityType DEF KeyTypeOK
  <2>3. Cardinality(keyRows) # 0
    BY <2>1, <2>2, FS_EmptySet
  <2>4. Cardinality(keyRows) # 1
    BY <2>1, <2>2, FS_Singleton
  <2>5. QED
    BY <2>2, <2>3, <2>4
<1>2. QED
  BY <1>1, KeyInvariance, ListsAreFull, PTL

----------------------------------------------------------------------------
(* The token stores of the databases: for any number of calls, tokens and  *)
(* families, and however far apart the clocks of the processes are.        *)
TokenRow == [consumedAt : Nat \cup {None}, expiresAt : Nat]

TokenCallRecord ==
  [pc : {"idle", "claim", "lookup", "revoke", "deleting", "done"},
   op : {"none", "consume", "revoke"},
   token : Tokens \cup {None}, family : Families \cup {None}, now : Nat,
   there : SUBSET Tokens, todo : SUBSET Tokens, missed : SUBSET Tokens,
   out : {"none", "won", "unknown", "consumed", "expired",
          "unexplained miss", "error", "reuse", "ok"}]

TokenTypeOK ==
  /\ adapter \in {"sql", "dynamo"}
  /\ tokenNow \in Nat
  /\ tokenRows \in [Tokens -> TokenRow \cup {None}]
  /\ saved \subseteq Tokens
  /\ index \subseteq saved
  /\ tokenCalls \in [Calls -> TokenCallRecord]

(* The row of t is gone for good: saveRefresh never writes it again. *)
GoneForGood(t) == t \in saved /\ tokenRows[t] = None

(* The row of t has been claimed; there is none left to claim. *)
Consumed(t) == tokenRows[t] # None /\ tokenRows[t].consumedAt # None
Taken(t) == tokenRows[t] = None \/ tokenRows[t].consumedAt # None

WonBy(d, t) == tokenCalls[d].op = "consume" /\ tokenCalls[d].out = "won"
  /\ tokenCalls[d].token = t

(* Only what was saved has a row. *)
RowsWereSaved == \A t \in Tokens : t \notin saved => tokenRows[t] = None

(* A claim is of a saved token, and of no one else's call. *)
TokenCallOK(q) ==
  /\ q.pc # "done" => q.out = "none"
  /\ q.there \subseteq saved
  /\ q.op = "consume" => q.token \in saved
  /\ q.pc \in {"claim", "lookup"} => q.op = "consume"
  /\ q.pc \in {"revoke", "deleting"} => q.op # "none"
  /\ q.out = "won" => q.op = "consume" /\ Taken(q.token)
  /\ q.out = "reuse" => q.op = "consume"
  /\ q.out = "ok" => q.op = "revoke"

TokenCallsOK == \A c \in Calls : TokenCallOK(tokenCalls[c])

(* Whoever is sent to revoke a family for reuse, or was, and every         *)
(* consumed row, has a winner to thank for it.                             *)
ConsumedHaveWinners ==
  \A t \in Tokens : Consumed(t) => \E d \in Calls : WonBy(d, t)

(* A revocation has yet to delete, or to list, what of its family was      *)
(* there when it began and neither is gone nor was missed.                 *)
Outstanding(q, t) ==
  \/ GoneForGood(t) \/ t \in q.missed
  \/ q.pc = "deleting" /\ t \in q.todo
  \/ q.pc = "revoke" /\ (adapter = "dynamo" => t \in index)

RevocationOK(q) ==
  q.op = "revoke" /\ (q.pc \in {"revoke", "deleting"} \/ q.out = "ok") =>
    \A t \in q.there : FamilyOf[t] = q.family => Outstanding(q, t)

RevocationsOK == \A c \in Calls : RevocationOK(tokenCalls[c])

TokenInv ==
  /\ RowsWereSaved /\ TokenCallsOK /\ ConsumedHaveWinners /\ RevocationsOK
  /\ Refreshes!OneWinner /\ Refreshes!ReuseHasAWinner
----------------------------------------------------------------------------
(* What an action does to the call that takes it and to the others. *)
LEMMA TokenBecomesType ==
  ASSUME TokenTypeOK, NEW c \in Calls, NEW q \in TokenCallRecord, Refreshes!Becomes(c,
         q)
  PROVE  /\ tokenCalls' \in [Calls -> TokenCallRecord]
         /\ tokenCalls'[c] = q
         /\ \A d \in Calls \ {c} : tokenCalls'[d] = tokenCalls[d]
  BY DEF TokenTypeOK, Refreshes!Becomes

LEMMA TokenAnswerType ==
  ASSUME TokenTypeOK, NEW c \in Calls, NEW result, Refreshes!Answer(c, result),
         result \in {"won", "unknown", "consumed", "expired",
                     "unexplained miss", "error", "reuse", "ok"}
  PROVE  /\ tokenCalls' \in [Calls -> TokenCallRecord]
         /\ tokenCalls'[c] = [tokenCalls[c] EXCEPT !.pc = "done", !.todo = {},
           !.out = result]
         /\ \A d \in Calls \ {c} : tokenCalls'[d] = tokenCalls[d]
<1> DEFINE q == [tokenCalls[c] EXCEPT !.pc = "done", !.todo = {}, !.out = result]
<1>1. q \in TokenCallRecord
  BY DEF TokenTypeOK, TokenCallRecord
<1>2. QED
  BY <1>1, TokenBecomesType DEF Refreshes!Answer

(* Revoking, for itself or for a consumeRefresh, ends in an answer. *)
LEMMA RevokedAnswers ==
  ASSUME NEW c, NEW result, Refreshes!Revoked(c, result)
  PROVE  \/ tokenCalls[c].op = "consume" /\ Refreshes!Answer(c, "reuse")
         \/ tokenCalls[c].op # "consume" /\ Refreshes!Answer(c, result)
  BY DEF Refreshes!Revoked

LEMMA TokenTypeStep ==
  ASSUME Refreshes!StoresAssumption, TokenTypeOK, RowsWereSaved,
         [Refreshes!Next]_(Refreshes!vars)
  PROVE  TokenTypeOK'
<1> USE DEF Refreshes!StoresAssumption
<1>1. ASSUME NEW t \in Tokens, Refreshes!Save(t) PROVE TokenTypeOK'
  BY <1>1 DEF TokenTypeOK, Refreshes!Save, TokenRow
<1>2. ASSUME NEW t \in Tokens, Refreshes!IndexFollows(t) PROVE TokenTypeOK'
  BY <1>2 DEF TokenTypeOK, Refreshes!IndexFollows, RowsWereSaved
<1>3. ASSUME NEW t \in Tokens, Refreshes!Evict(t) PROVE TokenTypeOK'
  BY <1>3 DEF TokenTypeOK, Refreshes!Evict
<1>4. ASSUME NEW c \in Calls, NEW t \in Tokens, NEW k \in Refreshes!Clocks,
     Refreshes!BeginConsume(c, t, k)
      PROVE  TokenTypeOK'
  <2> DEFINE q == [Refreshes!Idle EXCEPT !.pc = "claim", !.op = "consume", !.token = t,
                     !.family = FamilyOf[t], !.now = k, !.there = Refreshes!Visible]
  <2>1. k \in Nat
    BY DEF Refreshes!Clocks, TokenTypeOK
  <2>2. q \in TokenCallRecord
    BY <2>1 DEF Refreshes!Idle, TokenCallRecord, Refreshes!Visible, TokenTypeOK
  <2>3. QED
    BY <1>4, <2>2, TokenBecomesType DEF Refreshes!BeginConsume, TokenTypeOK
<1>5. ASSUME NEW c \in Calls, Refreshes!ClaimWins(c) PROVE TokenTypeOK'
  <2>1. tokenCalls[c] \in TokenCallRecord
    BY DEF TokenTypeOK
  <2>2. tokenCalls' \in [Calls -> TokenCallRecord]
    BY <1>5, TokenAnswerType DEF Refreshes!ClaimWins
  <2>3. tokenRows' \in [Tokens -> TokenRow \cup {None}]
    <3>1. tokenCalls[c].now \in Nat /\ tokenRows[tokenCalls[c].token] # None
      BY <1>5, <2>1 DEF Refreshes!ClaimWins, Refreshes!Matches, TokenCallRecord
    <3>2. ASSUME NEW t \in Tokens
          PROVE  tokenRows'[t] \in TokenRow \cup {None}
      BY <1>5, <3>1, <3>2 DEF Refreshes!ClaimWins, TokenTypeOK, TokenRow
    <3>3. QED
      BY <1>5, <3>2 DEF Refreshes!ClaimWins, TokenTypeOK
  <2>4. QED
    BY <1>5, <2>2, <2>3 DEF Refreshes!ClaimWins, TokenTypeOK
<1>6. ASSUME NEW c \in Calls, Refreshes!ClaimMisses(c) PROVE TokenTypeOK'
  <2>1. [tokenCalls[c] EXCEPT !.pc = "lookup"] \in TokenCallRecord
    BY DEF TokenTypeOK, TokenCallRecord
  <2>2. QED
    BY <1>6, <2>1, TokenBecomesType DEF Refreshes!ClaimMisses, TokenTypeOK
<1>7. ASSUME NEW c \in Calls, Refreshes!Lookup(c) PROVE TokenTypeOK'
  <2>1. [tokenCalls[c] EXCEPT !.pc = "revoke"] \in TokenCallRecord
    BY DEF TokenTypeOK, TokenCallRecord
  <2>2. tokenCalls' \in [Calls -> TokenCallRecord]
    BY <1>7, <2>1, TokenBecomesType, TokenAnswerType DEF Refreshes!Lookup
  <2>3. QED
    BY <1>7, <2>2 DEF Refreshes!Lookup, TokenTypeOK
<1>8. ASSUME NEW c \in Calls, Refreshes!StatementFails(c) PROVE TokenTypeOK'
  BY <1>8, TokenAnswerType DEF Refreshes!StatementFails, TokenTypeOK
<1>9. ASSUME NEW c \in Calls, NEW f \in Families, Refreshes!BeginRevoke(c, f)
     PROVE TokenTypeOK'
  <2> DEFINE q == [Refreshes!Idle EXCEPT !.pc = "revoke", !.op = "revoke", !.family = f,
                     !.now = tokenNow, !.there = Refreshes!Visible]
  <2>1. q \in TokenCallRecord
    BY DEF Refreshes!Idle, TokenCallRecord, Refreshes!Visible, TokenTypeOK
  <2>2. QED
    BY <1>9, <2>1, TokenBecomesType DEF Refreshes!BeginRevoke, TokenTypeOK
<1>10. ASSUME NEW c \in Calls, Refreshes!RevokeAtOnce(c) PROVE TokenTypeOK'
  BY <1>10, RevokedAnswers, TokenAnswerType DEF Refreshes!RevokeAtOnce, TokenTypeOK
<1>11. ASSUME NEW c \in Calls, Refreshes!RevokeFails(c) PROVE TokenTypeOK'
  BY <1>11, RevokedAnswers, TokenAnswerType DEF Refreshes!RevokeFails, TokenTypeOK
<1>12. ASSUME NEW c \in Calls, Refreshes!RevokeLists(c) PROVE TokenTypeOK'
  <2>1. [tokenCalls[c] EXCEPT !.pc = "deleting",
           !.todo = {t \in index : FamilyOf[t] = tokenCalls[c].family}] \in TokenCallRecord
    BY DEF TokenTypeOK, TokenCallRecord
  <2>2. QED
    BY <1>12, <2>1, TokenBecomesType DEF Refreshes!RevokeLists, TokenTypeOK
<1>13. ASSUME NEW c \in Calls, NEW t \in Tokens, Refreshes!RevokeOne(c, t)
     PROVE TokenTypeOK'
  <2>1. /\ [tokenCalls[c] EXCEPT !.todo = @ \ {t}] \in TokenCallRecord
        /\ [tokenCalls[c] EXCEPT !.todo = @ \ {t},
          !.missed = @ \cup {t}] \in TokenCallRecord
    BY DEF TokenTypeOK, TokenCallRecord
  <2>2. tokenCalls' \in [Calls -> TokenCallRecord]
    BY <1>13, <2>1, TokenBecomesType DEF Refreshes!RevokeOne
  <2>3. QED
    BY <1>13, <2>2 DEF Refreshes!RevokeOne, TokenTypeOK
<1>14. ASSUME NEW c \in Calls, Refreshes!RevokeEnds(c) PROVE TokenTypeOK'
  BY <1>14, RevokedAnswers, TokenAnswerType DEF Refreshes!RevokeEnds, TokenTypeOK
<1>15. CASE Refreshes!Tick \/ UNCHANGED Refreshes!vars
  BY <1>15 DEF TokenTypeOK, Refreshes!Tick, Refreshes!vars
<1>16. QED
  BY <1>1, <1>2, <1>3, <1>4, <1>5, <1>6, <1>7, <1>8, <1>9, <1>10, <1>11,
     <1>12, <1>13, <1>14, <1>15 DEF Refreshes!Next
----------------------------------------------------------------------------
(* What no step undoes: rows gone stay gone, claims stay claimed until the *)
(* row goes, and the index loses what is gone only.                        *)
TokensLast ==
  /\ adapter' = adapter
  /\ saved \subseteq saved'
  /\ \A t \in index : t \in index' \/ GoneForGood(t)'
  /\ \A t \in Tokens : /\ GoneForGood(t) => GoneForGood(t)'
                       /\ t \in saved /\ Taken(t) => Taken(t)'

LEMMA TokensLastStep ==
  ASSUME Refreshes!StoresAssumption, TokenTypeOK, RowsWereSaved,
         [Refreshes!Next]_(Refreshes!vars)
  PROVE  TokensLast
<1> USE DEF GoneForGood, Taken, TokensLast
<1>1. ASSUME tokenRows' = tokenRows, saved' = saved, index' = index, adapter' = adapter
      PROVE  TokensLast
  BY <1>1
<1>2. ASSUME saved' = saved, index' = index, adapter' = adapter,
             \A t \in Tokens : tokenRows'[t] \in {None, tokenRows[t]}
      PROVE  TokensLast
  BY <1>2 DEF RowsWereSaved, TokenTypeOK
<1>3. ASSUME NEW t \in Tokens, Refreshes!Save(t) PROVE TokensLast
  BY <1>3 DEF Refreshes!Save, RowsWereSaved, TokenTypeOK
<1>4. ASSUME NEW t \in Tokens, Refreshes!IndexFollows(t) PROVE TokensLast
  BY <1>4 DEF Refreshes!IndexFollows, TokenTypeOK
<1>5. ASSUME NEW t \in Tokens, Refreshes!Evict(t) PROVE TokensLast
  BY <1>5, <1>2 DEF Refreshes!Evict, TokenTypeOK
<1>6. ASSUME NEW c \in Calls, Refreshes!ClaimWins(c) PROVE TokensLast
  <2>1. tokenCalls[c].now \in Nat /\ Refreshes!Matches(tokenCalls[c].token,
       tokenCalls[c].now)
    BY <1>6 DEF Refreshes!ClaimWins, TokenTypeOK, TokenCallRecord
  <2>2. \A t \in Tokens : Taken(t) => tokenRows'[t] = tokenRows[t]
    BY <1>6, <2>1 DEF Refreshes!ClaimWins, TokenTypeOK, Refreshes!Matches
  <2>3. QED
    BY <1>6, <2>2 DEF Refreshes!ClaimWins
<1>7. ASSUME NEW c \in Calls, Refreshes!RevokeAtOnce(c) PROVE TokensLast
  BY <1>7, <1>2 DEF Refreshes!RevokeAtOnce, TokenTypeOK
<1>8. ASSUME NEW c \in Calls, NEW t \in Tokens, Refreshes!RevokeOne(c, t)
     PROVE TokensLast
  BY <1>8, <1>2 DEF Refreshes!RevokeOne, TokenTypeOK
<1>9. QED
  BY <1>1, <1>3, <1>4, <1>5, <1>6, <1>7, <1>8
     DEF Refreshes!Next, Refreshes!BeginConsume, Refreshes!ClaimMisses,
         Refreshes!Lookup, Refreshes!StatementFails, Refreshes!BeginRevoke,
         Refreshes!RevokeFails, Refreshes!RevokeLists, Refreshes!RevokeEnds,
           Refreshes!Tick, Refreshes!vars

(* A call that does not move is as good after a step as before it. *)
LEMMA TokenUnmoved ==
  ASSUME TokensLast, TokenTypeOK, TokenInv, NEW c \in Calls,
         tokenCalls'[c] = tokenCalls[c]
  PROVE  TokenCallOK(tokenCalls[c])' /\ RevocationOK(tokenCalls[c])'
<1>1. tokenCalls[c] \in TokenCallRecord /\ TokenCallOK(tokenCalls[c])
     /\ RevocationOK(tokenCalls[c])
  BY DEF TokenTypeOK, TokenInv, TokenCallsOK, RevocationsOK
<1>2. TokenCallOK(tokenCalls[c])'
  BY <1>1 DEF TokensLast, TokenCallOK, TokenCallRecord, TokenTypeOK
<1>3. RevocationOK(tokenCalls[c])'
  BY <1>1 DEF TokensLast, RevocationOK, Outstanding, TokenCallRecord
<1>4. QED
  BY <1>2, <1>3
(* A call that is told of reuse, or is revoking because of it. *)
Accused(q) ==
  \/ q.op = "consume" /\ q.pc \in {"revoke", "deleting"}
  \/ q.out = "reuse"

(* What there is to show of the call that a step moves. *)
TokenMoves(c) ==
  /\ tokenCalls[c].pc # "done"
  /\ TokenCallOK(tokenCalls[c])' /\ RevocationOK(tokenCalls[c])'
  /\ tokenCalls'[c].out = "won" => Refreshes!ClaimWins(c)
  /\ Accused(tokenCalls'[c]) =>
       /\ tokenCalls'[c].token = tokenCalls[c].token
       /\ \/ Accused(tokenCalls[c])
          \/ tokenCalls[c].token \in saved /\ Consumed(tokenCalls[c].token)

(* An answer other than won, ok or reuse says nothing that could be false. *)
LEMMA PlainAnswer ==
  ASSUME TokensLast, TokenTypeOK, TokenInv, NEW c \in Calls, tokenCalls[c].pc # "done",
         NEW result \in {"unknown", "consumed", "expired", "unexplained miss", "error"},
         Refreshes!Answer(c, result)
  PROVE  TokenMoves(c)
<1>1. tokenCalls[c] \in TokenCallRecord /\ TokenCallOK(tokenCalls[c])
  BY DEF TokenTypeOK, TokenInv, TokenCallsOK
<1>2. tokenCalls'[c] = [tokenCalls[c] EXCEPT !.pc = "done", !.todo = {}, !.out = result]
  BY TokenAnswerType
<1>3. /\ tokenCalls'[c].pc = "done" /\ tokenCalls'[c].out = result
      /\ tokenCalls'[c].op = tokenCalls[c].op
        /\ tokenCalls'[c].token = tokenCalls[c].token
      /\ tokenCalls'[c].there = tokenCalls[c].there
  BY <1>1, <1>2 DEF TokenCallRecord
<1>4. TokenCallOK(tokenCalls[c])'
  BY <1>1, <1>3 DEF TokenCallOK, TokensLast
<1>5. RevocationOK(tokenCalls[c])'
  BY <1>3 DEF RevocationOK
<1>6. QED
  BY <1>3, <1>4, <1>5 DEF TokenMoves, Accused

(* The end of a revocation that consumeRefresh called for. *)
LEMMA ReuseAnswer ==
  ASSUME TokensLast, TokenTypeOK, TokenInv, NEW c \in Calls,
         tokenCalls[c].pc \in {"revoke", "deleting"}, tokenCalls[c].op = "consume",
         Refreshes!Answer(c, "reuse")
  PROVE  TokenMoves(c)
<1>1. tokenCalls[c] \in TokenCallRecord /\ TokenCallOK(tokenCalls[c])
  BY DEF TokenTypeOK, TokenInv, TokenCallsOK
<1>2. tokenCalls'[c] = [tokenCalls[c] EXCEPT !.pc = "done", !.todo = {},
     !.out = "reuse"]
  BY TokenAnswerType
<1>3. /\ tokenCalls'[c].pc = "done" /\ tokenCalls'[c].out = "reuse"
      /\ tokenCalls'[c].op = "consume" /\ tokenCalls'[c].token = tokenCalls[c].token
      /\ tokenCalls'[c].there = tokenCalls[c].there
  BY <1>1, <1>2 DEF TokenCallRecord
<1>4. TokenCallOK(tokenCalls[c])'
  BY <1>1, <1>3 DEF TokenCallOK, TokensLast
<1>5. QED
  BY <1>3, <1>4 DEF TokenMoves, Accused, RevocationOK

(* The end of a revokeFamily that answers ok. *)
LEMMA OkAnswer ==
  ASSUME TokensLast, TokenTypeOK, TokenInv, NEW c \in Calls,
         tokenCalls[c].pc \in {"revoke", "deleting"}, tokenCalls[c].op # "consume",
         Refreshes!Answer(c, "ok"),
         \A t \in tokenCalls[c].there \ tokenCalls[c].missed :
           FamilyOf[t] = tokenCalls[c].family => GoneForGood(t)'
  PROVE  TokenMoves(c)
<1>1. tokenCalls[c] \in TokenCallRecord /\ TokenCallOK(tokenCalls[c])
  BY DEF TokenTypeOK, TokenInv, TokenCallsOK
<1>2. tokenCalls'[c] = [tokenCalls[c] EXCEPT !.pc = "done", !.todo = {}, !.out = "ok"]
  BY TokenAnswerType
<1>3. /\ tokenCalls'[c].pc = "done" /\ tokenCalls'[c].out = "ok"
     /\ tokenCalls'[c].op = tokenCalls[c].op
      /\ tokenCalls'[c].there = tokenCalls[c].there
        /\ tokenCalls'[c].missed = tokenCalls[c].missed
      /\ tokenCalls'[c].family = tokenCalls[c].family
  BY <1>1, <1>2 DEF TokenCallRecord
<1>4. TokenCallOK(tokenCalls[c])'
  BY <1>1, <1>3 DEF TokenCallOK, TokensLast, TokenCallRecord
<1>5. RevocationOK(tokenCalls[c])'
  BY <1>3 DEF RevocationOK, Outstanding
<1>6. QED
  BY <1>3, <1>4, <1>5 DEF TokenMoves, Accused

LEMMA TokenMovesStep ==
  ASSUME Refreshes!StoresAssumption, TokensLast, TokenTypeOK, TokenInv, NEW c \in Calls,
         [Refreshes!Next]_(Refreshes!vars), tokenCalls'[c] # tokenCalls[c]
  PROVE  TokenMoves(c)
<1> USE DEF Refreshes!StoresAssumption
<1>a. /\ tokenCalls[c] \in TokenCallRecord /\ TokenCallOK(tokenCalls[c])
     /\ RevocationOK(tokenCalls[c])
      /\ \A t \in Tokens : t \notin saved => tokenRows[t] = None
  BY DEF TokenTypeOK, TokenInv, TokenCallsOK, RevocationsOK, RowsWereSaved
<1>b. ASSUME NEW d \in Calls, NEW q, Refreshes!Becomes(d, q)
     PROVE d = c /\ tokenCalls'[c] = q
  BY <1>b DEF Refreshes!Becomes, TokenTypeOK
<1>1. ASSUME NEW t \in Tokens, NEW k \in Refreshes!Clocks, Refreshes!BeginConsume(c, t,
     k) PROVE TokenMoves(c)
  <2> DEFINE q == [Refreshes!Idle EXCEPT !.pc = "claim", !.op = "consume", !.token = t,
                     !.family = FamilyOf[t], !.now = k, !.there = Refreshes!Visible]
  <2>1. tokenCalls'[c] = q /\ t \in saved /\ tokenCalls[c].pc = "idle"
    BY <1>1, <1>b DEF Refreshes!BeginConsume
  <2>2. /\ q.pc = "claim" /\ q.op = "consume" /\ q.token = t /\ q.out = "none"
        /\ q.there \subseteq saved
    BY DEF Refreshes!Idle, Refreshes!Visible, TokenTypeOK
  <2>3. TokenCallOK(tokenCalls[c])'
    BY <2>1, <2>2 DEF TokenCallOK, TokensLast
  <2>4. QED
    BY <2>1, <2>2, <2>3 DEF TokenMoves, Accused, RevocationOK
<1>2. CASE Refreshes!ClaimWins(c)
  <2>1. /\ tokenCalls'[c] = [tokenCalls[c] EXCEPT !.pc = "done", !.todo = {},
               !.out = "won"]
        /\ tokenCalls[c].pc = "claim"
    BY <1>2, TokenAnswerType DEF Refreshes!ClaimWins
  <2>2. /\ tokenCalls'[c].pc = "done" /\ tokenCalls'[c].op = tokenCalls[c].op
       /\ tokenCalls'[c].out = "won"
        /\ tokenCalls'[c].token = tokenCalls[c].token
          /\ tokenCalls'[c].there = tokenCalls[c].there
    BY <1>a, <2>1 DEF TokenCallRecord
  <2>3. tokenCalls[c].op = "consume" /\ tokenCalls[c].token \in saved
    BY <1>a, <2>1 DEF TokenCallOK
  <2>4. \A t \in Tokens : t = tokenCalls[c].token => Taken(t)'
    <3>1. SUFFICES ASSUME NEW t \in Tokens, t = tokenCalls[c].token
                   PROVE  Taken(t)'
      OBVIOUS
    <3>2. /\ tokenRows[t] \in TokenRow
          /\ tokenRows' = [tokenRows EXCEPT ![t].consumedAt = tokenCalls[c].now]
      BY <1>2, <3>1 DEF Refreshes!ClaimWins, Refreshes!Matches, TokenTypeOK
    <3>3. tokenRows'[t] \in TokenRow /\ tokenRows'[t].consumedAt = tokenCalls[c].now
      BY <1>a, <3>2 DEF TokenTypeOK, TokenRow, TokenCallRecord
    <3>4. tokenCalls[c].now \in Nat
      BY <1>a DEF TokenCallRecord
    <3>5. QED
      BY <3>3, <3>4 DEF Taken
  <2>5. TokenCallOK(tokenCalls[c])'
    BY <1>a, <2>2, <2>3, <2>4 DEF TokenCallOK, TokensLast, TokenTypeOK
  <2>6. QED
    BY <1>2, <2>1, <2>2, <2>3, <2>5 DEF TokenMoves, Accused, RevocationOK
<1>3. CASE Refreshes!ClaimMisses(c)
  <2>1. tokenCalls'[c] = [tokenCalls[c] EXCEPT !.pc = "lookup"]
       /\ tokenCalls[c].pc = "claim"
    BY <1>3, <1>b DEF Refreshes!ClaimMisses
  <2>2. /\ tokenCalls'[c].pc = "lookup" /\ tokenCalls'[c].op = tokenCalls[c].op
        /\ tokenCalls'[c].token = tokenCalls[c].token
          /\ tokenCalls'[c].there = tokenCalls[c].there
        /\ tokenCalls'[c].out = tokenCalls[c].out
    BY <1>a, <2>1 DEF TokenCallRecord
  <2>3. TokenCallOK(tokenCalls[c])'
    BY <1>a, <2>1, <2>2 DEF TokenCallOK, TokensLast
  <2>4. QED
    BY <1>a, <2>1, <2>2, <2>3 DEF TokenMoves, Accused, RevocationOK, TokenCallOK
<1>4. CASE Refreshes!Lookup(c)
  <2>1. ASSUME NEW result \in {"unknown", "consumed", "expired", "unexplained miss",
       "error"},
               Refreshes!Answer(c, result)
        PROVE  TokenMoves(c)
    BY <1>4, <2>1, PlainAnswer DEF Refreshes!Lookup
  <2>2. CASE /\ Refreshes!Becomes(c, [tokenCalls[c] EXCEPT !.pc = "revoke"])
             /\ Consumed(tokenCalls[c].token)
    <3>1. tokenCalls'[c] = [tokenCalls[c] EXCEPT !.pc = "revoke"]
         /\ tokenCalls[c].pc = "lookup"
      BY <1>4, <2>2, <1>b DEF Refreshes!Lookup
    <3>2. /\ tokenCalls'[c].pc = "revoke" /\ tokenCalls'[c].op = tokenCalls[c].op
          /\ tokenCalls'[c].token = tokenCalls[c].token
            /\ tokenCalls'[c].there = tokenCalls[c].there
          /\ tokenCalls'[c].out = tokenCalls[c].out
      BY <1>a, <3>1 DEF TokenCallRecord
    <3>3. tokenCalls[c].op = "consume" /\ tokenCalls[c].token \in saved
         /\ tokenCalls[c].out = "none"
      BY <1>a, <3>1 DEF TokenCallOK
    <3>4. TokenCallOK(tokenCalls[c])'
      BY <1>a, <3>2, <3>3 DEF TokenCallOK, TokensLast
    <3>5. QED
      BY <2>2, <3>1, <3>2, <3>3, <3>4 DEF TokenMoves, RevocationOK
  <2>3. QED
    BY <1>4, <2>1, <2>2 DEF Refreshes!Lookup, Consumed
<1>5. CASE Refreshes!StatementFails(c)
  BY <1>5, PlainAnswer DEF Refreshes!StatementFails
<1>6. ASSUME NEW f \in Families, Refreshes!BeginRevoke(c, f) PROVE TokenMoves(c)
  <2> DEFINE q == [Refreshes!Idle EXCEPT !.pc = "revoke", !.op = "revoke", !.family = f,
                     !.now = tokenNow, !.there = Refreshes!Visible]
  <2>1. tokenCalls'[c] = q /\ tokenCalls[c].pc = "idle" /\ index' = index
    BY <1>6, <1>b DEF Refreshes!BeginRevoke
  <2>2. /\ q.pc = "revoke" /\ q.op = "revoke" /\ q.out = "none"
        /\ q.there = Refreshes!Visible
    BY DEF Refreshes!Idle
  <2>3. TokenCallOK(tokenCalls[c])'
    BY <2>1, <2>2 DEF TokenCallOK, TokensLast, Refreshes!Visible, TokenTypeOK
  <2>4. RevocationOK(tokenCalls[c])'
    BY <2>1, <2>2 DEF RevocationOK, Outstanding, TokensLast, Refreshes!Visible,
         TokenTypeOK
  <2>5. QED
    BY <2>1, <2>2, <2>3, <2>4 DEF TokenMoves, Accused
<1>7. CASE Refreshes!RevokeAtOnce(c)
  <2>1. \A t \in tokenCalls[c].there : FamilyOf[t] = tokenCalls[c].family
       => GoneForGood(t)'
    BY <1>7, <1>a DEF Refreshes!RevokeAtOnce, GoneForGood, TokenCallOK, TokenTypeOK
  <2>2. QED
    BY <1>7, <2>1, RevokedAnswers, ReuseAnswer, OkAnswer DEF Refreshes!RevokeAtOnce
<1>8. CASE Refreshes!RevokeFails(c)
  BY <1>8, RevokedAnswers, ReuseAnswer, PlainAnswer DEF Refreshes!RevokeFails
<1>9. CASE Refreshes!RevokeLists(c)
  <2> DEFINE T == {t \in index : FamilyOf[t] = tokenCalls[c].family}
  <2>1. /\ tokenCalls'[c] = [tokenCalls[c] EXCEPT !.pc = "deleting", !.todo = T]
        /\ tokenCalls[c].pc = "revoke" /\ adapter = "dynamo"
    BY <1>9, <1>b DEF Refreshes!RevokeLists
  <2>2. /\ tokenCalls'[c].pc = "deleting" /\ tokenCalls'[c].op = tokenCalls[c].op
        /\ tokenCalls'[c].token = tokenCalls[c].token
          /\ tokenCalls'[c].there = tokenCalls[c].there
        /\ tokenCalls'[c].out = tokenCalls[c].out
          /\ tokenCalls'[c].family = tokenCalls[c].family
        /\ tokenCalls'[c].todo = T /\ tokenCalls'[c].missed = tokenCalls[c].missed
    BY <1>a, <2>1 DEF TokenCallRecord
  <2>3. tokenCalls[c].op # "none" /\ tokenCalls[c].out = "none"
    BY <1>a, <2>1 DEF TokenCallOK
  <2>4. TokenCallOK(tokenCalls[c])'
    BY <1>a, <2>2, <2>3 DEF TokenCallOK, TokensLast
  <2>5. RevocationOK(tokenCalls[c])'
    BY <1>a, <2>1, <2>2, <2>3 DEF RevocationOK, Outstanding, TokensLast, TokenCallRecord
  <2>6. QED
    BY <2>1, <2>2, <2>3, <2>4, <2>5 DEF TokenMoves, Accused
<1>10. ASSUME NEW t \in Tokens, Refreshes!RevokeOne(c, t) PROVE TokenMoves(c)
  <2>1. /\ tokenCalls[c].pc = "deleting" /\ t \in tokenCalls[c].todo
        /\ \/ /\ tokenRows'[t] = None
              /\ tokenCalls'[c] = [tokenCalls[c] EXCEPT !.todo = @ \ {t}]
           \/ tokenCalls'[c] = [tokenCalls[c] EXCEPT !.todo = @ \ {t},
             !.missed = @ \cup {t}]
    BY <1>10, <1>b DEF Refreshes!RevokeOne, TokenTypeOK
  <2>2. /\ tokenCalls'[c].pc = "deleting" /\ tokenCalls'[c].op = tokenCalls[c].op
        /\ tokenCalls'[c].token = tokenCalls[c].token
          /\ tokenCalls'[c].there = tokenCalls[c].there
        /\ tokenCalls'[c].out = tokenCalls[c].out
          /\ tokenCalls'[c].family = tokenCalls[c].family
        /\ tokenCalls'[c].todo = tokenCalls[c].todo \ {t}
        /\ \/ tokenRows'[t] = None /\ tokenCalls'[c].missed = tokenCalls[c].missed
           \/ tokenCalls'[c].missed = tokenCalls[c].missed \cup {t}
    BY <1>a, <2>1 DEF TokenCallRecord
  <2>3. tokenCalls[c].op # "none" /\ tokenCalls[c].out = "none"
    BY <1>a, <2>1 DEF TokenCallOK
  <2>4. TokenCallOK(tokenCalls[c])'
    BY <1>a, <2>2, <2>3 DEF TokenCallOK, TokensLast
  <2>5. tokenCalls[c].there \subseteq saved'
    BY <1>a DEF TokenCallOK, TokensLast
  <2>6. ASSUME tokenCalls[c].op = "revoke", NEW u \in tokenCalls[c].there,
               FamilyOf[u] = tokenCalls[c].family
        PROVE  Outstanding(tokenCalls[c], u)'
    BY <1>a, <2>1, <2>2, <2>3, <2>5, <2>6
       DEF RevocationOK, Outstanding, TokensLast, TokenCallRecord, GoneForGood
  <2>7. RevocationOK(tokenCalls[c])'
    BY <2>2, <2>6 DEF RevocationOK
  <2>8. QED
    BY <2>1, <2>2, <2>3, <2>4, <2>7 DEF TokenMoves, Accused
<1>11. CASE Refreshes!RevokeEnds(c)
  <2>1. tokenCalls[c].op = "revoke" =>
          \A t \in tokenCalls[c].there \ tokenCalls[c].missed :
            FamilyOf[t] = tokenCalls[c].family => GoneForGood(t)'
    BY <1>11, <1>a DEF Refreshes!RevokeEnds, RevocationOK, Outstanding, TokensLast,
         TokenCallRecord
  <2>2. tokenCalls[c].op \in {"revoke", "consume"}
    BY <1>11, <1>a DEF Refreshes!RevokeEnds, TokenCallOK, TokenCallRecord
  <2>3. QED
    BY <1>11, <2>1, <2>2, RevokedAnswers, ReuseAnswer, OkAnswer DEF Refreshes!RevokeEnds
<1>12. ASSUME UNCHANGED tokenCalls PROVE TokenMoves(c)
  BY <1>12
<1>13. ASSUME NEW d \in Calls, NEW q, Refreshes!Becomes(d, q) PROVE d = c
  BY <1>13, <1>b
<1>14. ASSUME NEW d \in Calls, d # c,
              \/ \E t \in Tokens, k \in Refreshes!Clocks : Refreshes!BeginConsume(d, t,
                k)
              \/ Refreshes!ClaimWins(d) \/ Refreshes!ClaimMisses(d)
                \/ Refreshes!Lookup(d) \/ Refreshes!StatementFails(d)
              \/ \E f \in Families : Refreshes!BeginRevoke(d, f)
              \/ Refreshes!RevokeAtOnce(d) \/ Refreshes!RevokeFails(d)
                \/ Refreshes!RevokeLists(d)
              \/ \E t \in Tokens : Refreshes!RevokeOne(d, t)
              \/ Refreshes!RevokeEnds(d)
       PROVE  FALSE
  BY <1>13, <1>14 DEF Refreshes!BeginConsume, Refreshes!ClaimWins,
       Refreshes!ClaimMisses, Refreshes!Lookup, Refreshes!StatementFails,
       Refreshes!BeginRevoke, Refreshes!RevokeAtOnce, Refreshes!RevokeFails,
         Refreshes!RevokeLists, Refreshes!RevokeOne,
       Refreshes!RevokeEnds, Refreshes!Revoked, Refreshes!Answer
<1>15. QED
  BY <1>1, <1>2, <1>3, <1>4, <1>5, <1>6, <1>7, <1>8, <1>9, <1>10, <1>11,
     <1>12, <1>14 DEF Refreshes!Next, Refreshes!Save, Refreshes!IndexFollows,
          Refreshes!Evict, Refreshes!Tick, Refreshes!vars

(* A row is newly consumed by a winner only. *)
LEMMA ConsumedByWinner ==
  ASSUME TokenTypeOK, RowsWereSaved, [Refreshes!Next]_(Refreshes!vars),
         NEW t \in Tokens, Consumed(t)'
  PROVE  Consumed(t) \/ \E c \in Calls : Refreshes!ClaimWins(c)
    /\ tokenCalls[c].token = t
<1> USE DEF Consumed, TokenTypeOK, TokenRow
<1>1. CASE tokenRows'[t] \in {None, tokenRows[t]}
  BY <1>1
<1>2. CASE \E u \in Tokens : Refreshes!Save(u)
  BY <1>2 DEF Refreshes!Save
<1>3. ASSUME NEW c \in Calls, Refreshes!ClaimWins(c), tokenCalls[c].token # t
      PROVE  tokenRows'[t] = tokenRows[t]
  BY <1>3 DEF Refreshes!ClaimWins
<1>4. ASSUME NEW u \in Tokens, Refreshes!Evict(u)
     \/ \E c \in Calls : Refreshes!RevokeOne(c, u)
      PROVE  tokenRows'[t] \in {None, tokenRows[t]}
  BY <1>4 DEF Refreshes!Evict, Refreshes!RevokeOne
<1>5. QED
  BY <1>1, <1>2, <1>3, <1>4
     DEF Refreshes!Next, Refreshes!IndexFollows, Refreshes!BeginConsume,
         Refreshes!ClaimMisses, Refreshes!Lookup, Refreshes!StatementFails,
         Refreshes!BeginRevoke, Refreshes!RevokeAtOnce, Refreshes!RevokeFails,
           Refreshes!RevokeLists, Refreshes!RevokeEnds, Refreshes!Tick, Refreshes!vars
LEMMA TokenInvStep ==
  ASSUME Refreshes!StoresAssumption, TokenTypeOK, TokenInv,
         [Refreshes!Next]_(Refreshes!vars)
  PROVE  TokenInv'
<1>1. TokensLast
  BY TokensLastStep DEF TokenInv
<1>2. \A c \in Calls : tokenCalls'[c] = tokenCalls[c] \/ TokenMoves(c)
  BY <1>1, TokenMovesStep
<1>3. RowsWereSaved'
  BY DEF TokenInv, RowsWereSaved, TokenTypeOK, Refreshes!Next, Refreshes!Save,
       Refreshes!IndexFollows, Refreshes!Evict,
         Refreshes!BeginConsume, Refreshes!ClaimWins, Refreshes!ClaimMisses,
           Refreshes!Lookup, Refreshes!StatementFails, Refreshes!Matches,
         Refreshes!BeginRevoke, Refreshes!RevokeAtOnce, Refreshes!RevokeFails,
           Refreshes!RevokeLists, Refreshes!RevokeOne,
         Refreshes!RevokeEnds, Refreshes!Tick, Refreshes!vars
<1>4. TokenCallsOK' /\ RevocationsOK'
  <2>1. ASSUME NEW c \in Calls
       PROVE TokenCallOK(tokenCalls[c])' /\ RevocationOK(tokenCalls[c])'
    BY <1>1, <1>2, TokenUnmoved DEF TokenMoves
  <2>2. QED
    BY <2>1 DEF TokenCallsOK, RevocationsOK
<1>5. \A d \in Calls : tokenCalls[d].pc = "done" => tokenCalls'[d] = tokenCalls[d]
  BY <1>2 DEF TokenMoves
<1>6. \A d \in Calls : tokenCalls[d].out = "won" => tokenCalls'[d] = tokenCalls[d]
  BY <1>5 DEF TokenInv, TokenCallsOK, TokenCallOK
<1>7. ConsumedHaveWinners'
  <2> SUFFICES ASSUME NEW t \in Tokens, Consumed(t)'
               PROVE  \E d \in Calls : WonBy(d, t)'
    BY DEF ConsumedHaveWinners
  <2>1. CASE Consumed(t)
    BY <2>1, <1>6 DEF TokenInv, ConsumedHaveWinners, WonBy
  <2>2. ASSUME NEW c \in Calls, Refreshes!ClaimWins(c), tokenCalls[c].token = t
        PROVE  WonBy(c, t)'
    <3>1. tokenCalls[c] \in TokenCallRecord /\ tokenCalls[c].op = "consume"
      BY <2>2 DEF TokenTypeOK, TokenInv, TokenCallsOK, TokenCallOK, Refreshes!ClaimWins
    <3>2. tokenCalls'[c] = [tokenCalls[c] EXCEPT !.pc = "done", !.todo = {},
         !.out = "won"]
      BY <2>2, TokenAnswerType DEF Refreshes!ClaimWins
    <3>3. QED
      BY <2>2, <3>1, <3>2 DEF WonBy, TokenCallRecord
  <2>3. QED
    BY <2>1, <2>2, ConsumedByWinner DEF TokenInv
<1>8. Refreshes!OneWinner'
  <2>1. ASSUME NEW c \in Calls, NEW d \in Calls, c # d,
               tokenCalls'[c].out = "won", tokenCalls'[d].out = "won",
               tokenCalls'[c].token = tokenCalls'[d].token, Refreshes!ClaimWins(c)
        PROVE  FALSE
    <3>1. /\ tokenCalls[c] \in TokenCallRecord
          /\ tokenCalls[c].pc = "claim" /\ ~Taken(tokenCalls[c].token)
      BY <2>1 DEF TokenTypeOK, Refreshes!ClaimWins, Refreshes!Matches, Taken
    <3>2. /\ tokenCalls'[c] = [tokenCalls[c] EXCEPT !.pc = "done", !.todo = {},
                 !.out = "won"]
          /\ tokenCalls'[d] = tokenCalls[d]
      BY <2>1, TokenAnswerType DEF Refreshes!ClaimWins
    <3>3. tokenCalls[d].out = "won" /\ tokenCalls[d].token = tokenCalls[c].token
      BY <2>1, <3>1, <3>2 DEF TokenCallRecord
    <3>4. QED
      BY <3>1, <3>3 DEF TokenInv, TokenCallsOK, TokenCallOK
  <2>2. QED
    BY <2>1, <1>2 DEF TokenInv, Refreshes!OneWinner, TokenMoves
<1>9. Refreshes!ReuseHasAWinner'
  <2> SUFFICES ASSUME NEW c \in Calls, Accused(tokenCalls'[c])
               PROVE  \E d \in Calls \ {c} :
                        tokenCalls'[d].out = "won"
                          /\ tokenCalls'[d].token = tokenCalls'[c].token
    BY DEF Refreshes!ReuseHasAWinner, Accused
  <2>1. /\ tokenCalls'[c].token = tokenCalls[c].token
        /\ \/ Accused(tokenCalls[c])
           \/ /\ tokenCalls[c].token \in saved /\ Consumed(tokenCalls[c].token)
              /\ tokenCalls[c].pc # "done"
    BY <1>2 DEF TokenMoves
  <2>2. CASE Accused(tokenCalls[c])
    BY <2>1, <2>2, <1>6 DEF TokenInv, Refreshes!ReuseHasAWinner, Accused
  <2>3. CASE /\ tokenCalls[c].token \in saved /\ Consumed(tokenCalls[c].token)
             /\ tokenCalls[c].pc # "done"
    <3>1. PICK d \in Calls : WonBy(d, tokenCalls[c].token)
      BY <2>3 DEF TokenInv, ConsumedHaveWinners, TokenTypeOK
    <3>2. d # c
      BY <2>3, <3>1 DEF TokenInv, TokenCallsOK, TokenCallOK, WonBy
    <3>3. QED
      BY <2>1, <3>1, <3>2, <1>6 DEF WonBy
  <2>4. QED
    BY <2>1, <2>2, <2>3
<1>10. QED
  BY <1>3, <1>4, <1>7, <1>8, <1>9 DEF TokenInv

(* The invariant holds of the stores whatever the constants. *)
LEMMA TokenInvariance == ASSUME Refreshes!StoresAssumption
  PROVE Refreshes!Spec => [](TokenTypeOK /\ TokenInv)
<1>1. Refreshes!Init => TokenTypeOK /\ TokenInv
  <2> SUFFICES ASSUME Refreshes!Init PROVE TokenTypeOK /\ TokenInv
    OBVIOUS
  <2>1. Refreshes!Idle \in TokenCallRecord
    BY Refreshes!StoresAssumption DEF Refreshes!Idle, TokenCallRecord
  <2>2. TokenTypeOK
    BY <2>1 DEF Refreshes!Init, TokenTypeOK
  <2>3. \A c \in Calls : tokenCalls[c] = Refreshes!Idle
    BY DEF Refreshes!Init
  <2>4. TokenCallsOK /\ RevocationsOK
    BY <2>3 DEF TokenCallsOK, TokenCallOK, RevocationsOK, RevocationOK, Refreshes!Idle
  <2>5. RowsWereSaved /\ ConsumedHaveWinners
    BY DEF Refreshes!Init, RowsWereSaved, ConsumedHaveWinners, Consumed
  <2>6. Refreshes!OneWinner /\ Refreshes!ReuseHasAWinner
    BY <2>3 DEF Refreshes!OneWinner, Refreshes!ReuseHasAWinner, Refreshes!Idle
  <2>7. QED
    BY <2>2, <2>4, <2>5, <2>6 DEF TokenInv
<1>2. TokenTypeOK /\ TokenInv /\ [Refreshes!Next]_(Refreshes!vars) => (TokenTypeOK
     /\ TokenInv)'
  BY Refreshes!StoresAssumption, TokenTypeStep, TokenInvStep DEF TokenInv
<1>3. QED
  BY <1>1, <1>2, PTL DEF Refreshes!Spec

(* However many calls present a token, from processes whose clocks say     *)
(* whatever they say, at most one consumes it (consumeRefresh).            *)
LEMMA SingleWinners == ASSUME Refreshes!StoresAssumption
  PROVE Refreshes!Spec => []Refreshes!OneWinner
<1>1. TokenInv => Refreshes!OneWinner
  BY DEF TokenInv
<1>2. QED
  BY <1>1, TokenInvariance, PTL

(* Nobody is accused of reuse, and no family revoked for it, but that      *)
(* another call did consume the token (consumeRefresh).                    *)
LEMMA ReuseIsReal == ASSUME Refreshes!StoresAssumption
  PROVE Refreshes!Spec => []Refreshes!ReuseHasAWinner
<1>1. TokenInv => Refreshes!ReuseHasAWinner
  BY DEF TokenInv
<1>2. QED
  BY <1>1, TokenInvariance, PTL

(* A revocation that answers ok has deleted all it could see, and what it  *)
(* deleted never comes back (revokeFamily).                                *)
LEMMA RevocationsReach ==
  ASSUME Refreshes!StoresAssumption
         PROVE Refreshes!Spec => []Refreshes!RevocationsReachWhatIsThere
<1>1. TokenInv => Refreshes!RevocationsReachWhatIsThere
  <2> SUFFICES ASSUME TokenInv, NEW c \in Calls, tokenCalls[c].out = "ok",
                      NEW t \in tokenCalls[c].there \ tokenCalls[c].missed,
                      FamilyOf[t] = tokenCalls[c].family
               PROVE  tokenRows[t] = None
    BY DEF Refreshes!RevocationsReachWhatIsThere
  <2>1. tokenCalls[c].op = "revoke" /\ tokenCalls[c].pc = "done"
    BY DEF TokenInv, TokenCallsOK, TokenCallOK
  <2>2. QED
    BY <2>1 DEF TokenInv, RevocationsOK, RevocationOK, Outstanding, GoneForGood
<1>2. QED
  BY <1>1, TokenInvariance, PTL

----------------------------------------------------------------------------
(* The five session stores. *)

Row == [value : Saved \cup Values, expires : Nat]
CallRecord ==
  [pc : {"idle", "sweep", "update"}, key : Stores!Keys \cup {None},
   value : Row \cup {None}, at : Nat]

StoreTypeOK ==
  /\ backend \in Stores!Backends /\ now \in Nat
  /\ rows \in [Stores!Keys -> Row \cup {None}]
  /\ promised \in [Stores!Keys -> Row \cup {None}]
  /\ calls \in [Callers -> CallRecord]
  /\ saves \in [Stores!Keys -> Nat]
  /\ late \subseteq Stores!Keys

(* A call between two statements: a sweep is not of the memory store, and  *)
(* finds a flow as dead as its first statement did; an update writes back  *)
(* the flow it read, whose expiry no update ever changes.                  *)
SweepTells(c) ==
  LET k == calls[c].key
  IN /\ backend # "memory" /\ k \in Stores!Keys
     /\ k \in Flows => saves[k] # 0 /\ ~Stores!Live(rows[k], now)
UpdateTells(c) ==
  LET k == calls[c].key
      row == calls[c].value
  IN /\ k \in Flows /\ row \in Row
     /\ saves[k] # 0 /\ calls[c].at <= now /\ calls[c].at < row.expires
     /\ rows[k] # None => rows[k].expires = row.expires
CallsTell ==
  \A c \in Callers :
    /\ calls[c].pc = "sweep" => SweepTells(c)
    /\ calls[c].pc = "update" => UpdateTells(c)

FlowsAreSaved == \A k \in Flows : rows[k] # None => saves[k] # 0

(* What is stored is what a map would hold, or it is gone: because it      *)
(* expired, or under a late sweep.                                         *)
SameOrGone(k) ==
  \/ rows[k] = promised[k]
  \/ /\ rows[k] = None
     /\ \/ ~Stores!Live(promised[k], now)
        \/ k \in late /\ k \notin Flows /\ backend # "memory"
AllSameOrGone == \A k \in Stores!Keys : SameOrGone(k)

StoreInv == CallsTell /\ FlowsAreSaved /\ AllSameOrGone

(* The statements behind the operations of the five adapters.              *)
FirstStatement(c) ==
  \E k \in Stores!Keys :
    \/ \E v \in Saved, ttl \in Ttls : Stores!Save(c, k, v, ttl)
    \/ Stores!Delete(c, k) \/ Stores!Take(c, k) \/ Stores!SweepAtOnce(c, k)
    \/ backend # "memory" /\ Stores!FindExpired(c, k)
    \/ /\ k \in Flows
       /\ \E v \in Values : Stores!Update(c, k, v) \/ Stores!ReadForUpdate(c, k, v)
WritesBack(c) ==
  /\ calls[c].pc = "update"
  /\ LET k == calls[c].key
         row == calls[c].value
     IN \/ Stores!WriteBack(c, row, Stores!Live(rows[k], calls[c].at))
        \/ Stores!WriteBack(c, row, rows[k] # None)

LEMMA AdaptersAreStatements ==
  ASSUME NEW c \in Callers,
         \/ Stores!Saving(c) \/ Stores!Updating(c) \/ Stores!Reading(c) \/ Stores!Ending(c)
         \/ Stores!CallFails(c)
  PROVE  FirstStatement(c) \/ WritesBack(c) \/ Stores!Sweep(c) \/ Stores!CallFails(c)
<1>1. CASE Stores!Saving(c)
  BY <1>1
  DEF Stores!Saving, FirstStatement,
      Stores!MemorySaveFlow, Stores!MemoryCreateSession, Stores!MemorySaveScratch,
      Stores!PostgresSaveFlow, Stores!PostgresCreateSession, Stores!PostgresSaveScratch,
      Stores!D1SaveFlow, Stores!D1CreateSession, Stores!D1SaveScratch,
      Stores!DynamoSaveFlow, Stores!DynamoCreateSession, Stores!DynamoSaveScratch,
      Stores!DurableSaveFlow, Stores!DurableCreateSession, Stores!DurableSaveScratch
<1>2. CASE Stores!Updating(c)
  BY <1>2
  DEF Stores!Updating, FirstStatement, WritesBack,
      Stores!MemoryUpdateFlowMethodState, Stores!PostgresUpdateFlowMethodState,
      Stores!D1UpdateFlowMethodState, Stores!DynamoUpdateFlowMethodState,
      Stores!DurableUpdateFlowMethodState, Stores!D1WriteBack, Stores!DynamoWriteBack
<1>3. CASE Stores!Reading(c)
  BY <1>3
  DEF Stores!Reading, FirstStatement, Stores!On,
      Stores!MemoryReadFlow, Stores!MemoryReadSession, Stores!MemoryReadScratch,
      Stores!PostgresReadFlow, Stores!PostgresReadSession, Stores!PostgresReadScratch,
      Stores!D1ReadFlow, Stores!D1ReadSession, Stores!D1ReadScratch,
      Stores!DynamoReadFlow, Stores!DynamoReadSession, Stores!DynamoReadScratch,
      Stores!DurableReadFlow, Stores!DurableReadSession, Stores!DurableReadScratch
<1>4. CASE Stores!Ending(c)
  BY <1>4
  DEF Stores!Ending, FirstStatement,
      Stores!MemoryConsumeFlow, Stores!MemoryRevokeSession, Stores!MemoryDeleteScratch,
      Stores!PostgresConsumeFlow, Stores!PostgresRevokeSession, Stores!PostgresDeleteScratch,
      Stores!D1ConsumeFlow, Stores!D1RevokeSession, Stores!D1DeleteScratch,
      Stores!DynamoConsumeFlow, Stores!DynamoRevokeSession, Stores!DynamoDeleteScratch,
      Stores!DurableConsumeFlow, Stores!DurableRevokeSession, Stores!DurableDeleteScratch
<1>5. QED
  BY <1>1, <1>2, <1>3, <1>4

(* One statement that puts the same under a key in the store and in the    *)
(* map.                                                                    *)
LEMMA PuttingKeeps ==
  ASSUME StoreTypeOK, StoreInv, NEW k \in Stores!Keys, NEW row \in Row \cup {None},
         Stores!Puts(k, row), UNCHANGED <<backend, now, calls>>,
         saves' \in [Stores!Keys -> Nat], late' \subseteq Stores!Keys,
         \A x \in Stores!Keys \ {k} : (x \in late => x \in late') /\ saves'[x] = saves[x],
         k \in Flows => saves'[k] = saves[k] \/ saves[k] = 0,
         row # None => saves'[k] # 0 /\ (k \in Flows => saves[k] = 0)
  PROVE  StoreTypeOK' /\ StoreInv'
<1>1. /\ rows' \in [Stores!Keys -> Row \cup {None}] /\ rows'[k] = row
      /\ promised' \in [Stores!Keys -> Row \cup {None}] /\ promised'[k] = row
      /\ \A x \in Stores!Keys \ {k} : rows'[x] = rows[x] /\ promised'[x] = promised[x]
  BY DEF Stores!Puts, StoreTypeOK
<1>2. StoreTypeOK'
  BY <1>1 DEF StoreTypeOK
<1>3. Flows \subseteq Stores!Keys
  BY DEF Stores!Keys
<1>4. ASSUME NEW c \in Callers, calls[c].pc = "sweep" PROVE SweepTells(c)'
  <2>1. SweepTells(c)
    BY <1>4 DEF StoreInv, CallsTell
  <2>2. QED
    BY <1>1, <1>4, <2>1 DEF SweepTells, Stores!Live
<1>5. ASSUME NEW c \in Callers, calls[c].pc = "update" PROVE UpdateTells(c)'
  <2>1. UpdateTells(c)
    BY <1>5 DEF StoreInv, CallsTell
  <2>2. QED
    BY <1>1, <1>3, <1>5, <2>1 DEF UpdateTells
<1>6. CallsTell'
  BY <1>4, <1>5 DEF CallsTell
<1>7. FlowsAreSaved'
  BY <1>1, <1>3 DEF StoreInv, FlowsAreSaved
<1>8. AllSameOrGone'
  BY <1>1 DEF StoreInv, AllSameOrGone, SameOrGone, Stores!Live
<1>9. QED
  BY <1>2, <1>6, <1>7, <1>8 DEF StoreInv

(* A call that stops between its statements, or starts something to be     *)
(* finished.                                                               *)
LEMMA CallingKeeps ==
  ASSUME StoreTypeOK, StoreInv, NEW c \in Callers, NEW q \in CallRecord,
         calls' = [calls EXCEPT ![c] = q],
         UNCHANGED <<backend, rows, now, saves, promised, late>>,
         q.pc = "sweep" =>
           /\ backend # "memory" /\ q.key \in Stores!Keys
           /\ q.key \in Flows => saves[q.key] # 0 /\ ~Stores!Live(rows[q.key], now),
         q.pc = "update" =>
           /\ q.key \in Flows /\ q.value \in Row
           /\ saves[q.key] # 0 /\ q.at <= now /\ q.at < q.value.expires
           /\ rows[q.key] # None => rows[q.key].expires = q.value.expires
  PROVE  StoreTypeOK' /\ StoreInv'
<1>1. /\ calls' \in [Callers -> CallRecord] /\ calls'[c] = q
      /\ \A d \in Callers \ {c} : calls'[d] = calls[d]
  BY DEF StoreTypeOK
<1>2. StoreTypeOK'
  BY <1>1 DEF StoreTypeOK
<1>3. ASSUME NEW d \in Callers \ {c}
      PROVE  /\ calls'[d].pc = "sweep" => SweepTells(d)'
             /\ calls'[d].pc = "update" => UpdateTells(d)'
  BY <1>1 DEF StoreInv, CallsTell, SweepTells, UpdateTells, Stores!Live
<1>4. /\ calls'[c].pc = "sweep" => SweepTells(c)'
      /\ calls'[c].pc = "update" => UpdateTells(c)'
  BY <1>1 DEF SweepTells, UpdateTells, Stores!Live
<1>5. CallsTell'
  BY <1>3, <1>4 DEF CallsTell
<1>6. FlowsAreSaved' /\ AllSameOrGone'
  BY DEF StoreInv, FlowsAreSaved, AllSameOrGone, SameOrGone, Stores!Live
<1>7. QED
  BY <1>2, <1>5, <1>6 DEF StoreInv

(* A sweep, at once or late: the row goes, the map keeps what it holds.    *)
LEMMA SweepingKeeps ==
  ASSUME StoreTypeOK, StoreInv, NEW k \in Stores!Keys,
         rows' = [rows EXCEPT ![k] = None],
         UNCHANGED <<backend, now, saves, promised>>,
         calls' = calls \/ \E c \in Callers : calls' = [calls EXCEPT ![c] = Stores!NoCall],
         late' = IF Stores!Live(rows[k], now) THEN late \cup {k} ELSE late,
         Stores!Live(rows[k], now) => k \notin Flows /\ backend # "memory"
  PROVE  StoreTypeOK' /\ StoreInv'
<1>1. /\ rows' \in [Stores!Keys -> Row \cup {None}] /\ rows'[k] = None
      /\ \A x \in Stores!Keys \ {k} : rows'[x] = rows[x]
  BY DEF StoreTypeOK
<1>2. /\ Stores!NoCall \in CallRecord /\ Stores!NoCall.pc = "idle"
      /\ Flows \subseteq Stores!Keys
  BY DEF Stores!NoCall, CallRecord, Stores!Keys
<1>3. /\ calls' \in [Callers -> CallRecord]
      /\ \A d \in Callers : calls'[d] = calls[d] \/ calls'[d].pc = "idle"
  BY <1>2 DEF StoreTypeOK
<1>4. late \subseteq late' /\ late' \subseteq Stores!Keys
  BY DEF StoreTypeOK
<1>5. StoreTypeOK'
  BY <1>1, <1>3, <1>4 DEF StoreTypeOK
<1>6. ASSUME NEW d \in Callers, calls'[d].pc = "sweep" PROVE SweepTells(d)'
  <2>1. SweepTells(d) /\ calls'[d] = calls[d]
    BY <1>3, <1>6 DEF StoreInv, CallsTell
  <2>2. QED
    BY <1>1, <2>1 DEF SweepTells, Stores!Live
<1>7. ASSUME NEW d \in Callers, calls'[d].pc = "update" PROVE UpdateTells(d)'
  <2>1. UpdateTells(d) /\ calls'[d] = calls[d]
    BY <1>3, <1>7 DEF StoreInv, CallsTell
  <2>2. QED
    BY <1>1, <1>2, <2>1 DEF UpdateTells
<1>8. CallsTell'
  BY <1>6, <1>7 DEF CallsTell
<1>9. FlowsAreSaved'
  BY <1>1, <1>2 DEF StoreInv, FlowsAreSaved
<1>10. AllSameOrGone'
  <2>1. SameOrGone(k)
    BY DEF StoreInv, AllSameOrGone
  <2>2. /\ rows'[k] = None
        /\ \/ ~Stores!Live(promised[k], now)
           \/ k \in late' /\ k \notin Flows /\ backend # "memory"
    BY <1>1, <1>4, <2>1 DEF SameOrGone
  <2>3. ASSUME NEW x \in Stores!Keys \ {k}
        PROVE  \/ rows'[x] = promised[x]
               \/ /\ rows'[x] = None
                  /\ \/ ~Stores!Live(promised[x], now)
                     \/ x \in late' /\ x \notin Flows /\ backend # "memory"
    BY <1>1, <1>4 DEF StoreInv, AllSameOrGone, SameOrGone
  <2>4. QED
    BY <2>2, <2>3 DEF AllSameOrGone, SameOrGone, Stores!Live
<1>11. QED
  BY <1>5, <1>8, <1>9, <1>10 DEF StoreInv

(* The method state of a flow that is stored changes in store and map, its *)
(* expiry in neither.                                                      *)
LEMMA RewritingKeeps ==
  ASSUME Stores!SessionStoresAssumption, StoreTypeOK, StoreInv, NEW k \in Flows,
         NEW row \in Row, rows[k] # None, rows[k].expires = row.expires,
         rows' = [rows EXCEPT ![k] = row],
         promised' = [promised EXCEPT ![k].value = row.value],
         UNCHANGED <<backend, now, saves, late>>,
         calls' = calls \/ \E c \in Callers : calls' = [calls EXCEPT ![c] = Stores!NoCall]
  PROVE  StoreTypeOK' /\ StoreInv'
<1>1. k \in Stores!Keys /\ Flows \subseteq Stores!Keys
  BY DEF Stores!Keys
<1>2. promised[k] = rows[k] /\ rows[k] \in Row
  BY <1>1 DEF StoreInv, AllSameOrGone, SameOrGone, StoreTypeOK
<1>3. promised' = [promised EXCEPT ![k] = row]
  <2>1. PICK old \in Row : old = promised[k] /\ old.expires = row.expires
    BY <1>2
  <2>2. [old EXCEPT !.value = row.value] = row
    BY <2>1 DEF Row
  <2>3. promised' = [promised EXCEPT ![k] = [old EXCEPT !.value = row.value]]
    BY <2>1
  <2>4. QED
    BY <2>2, <2>3
<1>4. /\ rows' \in [Stores!Keys -> Row \cup {None}] /\ rows'[k] = row
      /\ promised' \in [Stores!Keys -> Row \cup {None}] /\ promised'[k] = row
      /\ \A x \in Stores!Keys \ {k} : rows'[x] = rows[x] /\ promised'[x] = promised[x]
  BY <1>1, <1>3 DEF StoreTypeOK
<1>5. Stores!NoCall \in CallRecord /\ Stores!NoCall.pc = "idle"
  BY DEF Stores!NoCall, CallRecord
<1>6. /\ calls' \in [Callers -> CallRecord]
      /\ \A d \in Callers : calls'[d] = calls[d] \/ calls'[d].pc = "idle"
  BY <1>5 DEF StoreTypeOK
<1>7. StoreTypeOK'
  BY <1>4, <1>6 DEF StoreTypeOK
<1>8. ASSUME NEW t \in Nat, Stores!Live(row, t) PROVE Stores!Live(rows[k], t)
  BY <1>8 DEF Stores!Live
<1>9. ASSUME NEW d \in Callers, calls'[d].pc = "sweep" PROVE SweepTells(d)'
  <2>1. SweepTells(d) /\ calls'[d] = calls[d] /\ now \in Nat
    BY <1>6, <1>9 DEF StoreInv, CallsTell, StoreTypeOK
  <2>2. QED
    BY <1>4, <1>8, <2>1 DEF SweepTells, Stores!Live
<1>10. ASSUME NEW d \in Callers, calls'[d].pc = "update" PROVE UpdateTells(d)'
  <2>1. UpdateTells(d) /\ calls'[d] = calls[d]
    BY <1>6, <1>10 DEF StoreInv, CallsTell
  <2>2. QED
    BY <1>1, <1>4, <2>1 DEF UpdateTells
<1>11. CallsTell'
  BY <1>9, <1>10 DEF CallsTell
<1>12. FlowsAreSaved'
  BY <1>1, <1>4 DEF StoreInv, FlowsAreSaved
<1>13. AllSameOrGone'
  BY <1>4 DEF StoreInv, AllSameOrGone, SameOrGone, Stores!Live
<1>14. QED
  BY <1>7, <1>11, <1>12, <1>13 DEF StoreInv

(* The second statement of an update, on D1 and DynamoDB alike: the row is *)
(* written while it is there, for it is the row the first statement read.  *)
LEMMA WritingBackKeeps ==
  ASSUME Stores!SessionStoresAssumption, StoreTypeOK, StoreInv, NEW c \in Callers,
         WritesBack(c)
  PROVE  StoreTypeOK' /\ StoreInv'
<1> DEFINE k == calls[c].key
           row == calls[c].value
           at == calls[c].at
<1>1. /\ calls[c] \in CallRecord /\ k \in Flows /\ row \in Row
      /\ saves[k] # 0 /\ at <= now /\ at < row.expires
      /\ rows[k] # None => rows[k].expires = row.expires
      /\ k \in Stores!Keys
  BY DEF WritesBack, StoreTypeOK, StoreInv, CallsTell, UpdateTells, Stores!Keys
<1>2. Stores!Live(rows[k], at) <=> rows[k] # None
  BY <1>1 DEF Stores!Live
<1>3. /\ rows' = IF rows[k] # None THEN [rows EXCEPT ![k] = row] ELSE rows
      /\ Stores!Promise(k, row.value, at)
      /\ calls' = [calls EXCEPT ![c] = Stores!NoCall]
      /\ UNCHANGED <<backend, now, saves, late>>
  BY <1>2 DEF WritesBack, Stores!WriteBack
<1>4. SameOrGone(k)
  BY <1>1 DEF StoreInv, AllSameOrGone
<1> HIDE DEF k, row, at
<1>5. CASE rows[k] # None
  <2>1. promised' = [promised EXCEPT ![k].value = row.value]
    BY <1>2, <1>3, <1>4, <1>5 DEF SameOrGone, Stores!Promise
  <2>2. QED
    BY <1>1, <1>3, <1>5, <2>1, RewritingKeeps
<1>6. CASE rows[k] = None
  <2>1. /\ Stores!NoCall \in CallRecord /\ Stores!NoCall.pc = "idle"
        /\ Flows \subseteq Stores!Keys
    BY DEF Stores!NoCall, CallRecord, Stores!Keys
  <2>2. CASE promised' = promised
    BY <1>3, <1>6, <2>1, <2>2, CallingKeeps
  <2>3. ASSUME Stores!Live(promised[k], at), promised' = [promised EXCEPT ![k].value = row.value]
        PROVE  StoreTypeOK' /\ StoreInv'
    <3>1. promised[k] \in Row /\ ~Stores!Live(promised[k], now)
      BY <1>1, <1>4, <1>6, <2>3 DEF SameOrGone, StoreTypeOK, Stores!Live
    <3>2. PICK new \in Row : /\ promised' = [promised EXCEPT ![k] = new]
                             /\ new.expires = promised[k].expires
      <4>1. PICK old \in Row : old = promised[k]
        BY <3>1
      <4> DEFINE z == [old EXCEPT !.value = row.value]
      <4>2. z \in Row /\ z.expires = old.expires
        BY <1>1 DEF Row
      <4>3. promised' = [promised EXCEPT ![k] = z]
        BY <2>3, <4>1
      <4> HIDE DEF z
      <4>4. QED
        BY <4>1, <4>2, <4>3
    <3>3. /\ promised' \in [Stores!Keys -> Row \cup {None}] /\ promised'[k] = new
          /\ \A x \in Stores!Keys \ {k} : promised'[x] = promised[x]
      BY <1>1, <3>2 DEF StoreTypeOK
    <3>4. rows' = rows /\ UNCHANGED <<backend, now, saves, late>>
      BY <1>3, <1>6
    <3>5. /\ calls' \in [Callers -> CallRecord]
          /\ \A d \in Callers : calls'[d] = calls[d] \/ calls'[d].pc = "idle"
      BY <1>3, <2>1 DEF StoreTypeOK
    <3>6. StoreTypeOK'
      BY <3>3, <3>4, <3>5 DEF StoreTypeOK
    <3>7. CallsTell'
      BY <3>4, <3>5 DEF StoreInv, CallsTell, SweepTells, UpdateTells, Stores!Live
    <3>8. FlowsAreSaved'
      BY <3>4 DEF StoreInv, FlowsAreSaved
    <3>9. ~Stores!Live(new, now)
      BY <3>1, <3>2 DEF Stores!Live, SameOrGone, Stores!SessionStoresAssumption, Row
    <3>10. AllSameOrGone'
      BY <1>6, <3>3, <3>4, <3>9 DEF StoreInv, AllSameOrGone, SameOrGone, Stores!Live
    <3>11. QED
      BY <3>6, <3>7, <3>8, <3>10 DEF StoreInv
  <2>4. QED
    BY <1>3, <2>2, <2>3 DEF Stores!Promise
<1>7. QED
  BY <1>5, <1>6

LEMMA FirstStatementsKeep ==
  ASSUME Stores!SessionStoresAssumption, StoreTypeOK, StoreInv, NEW c \in Callers,
         FirstStatement(c)
  PROVE  StoreTypeOK' /\ StoreInv'
<1>1. PICK k \in Stores!Keys :
        \/ \E v \in Saved, ttl \in Ttls : Stores!Save(c, k, v, ttl)
        \/ Stores!Delete(c, k) \/ Stores!Take(c, k) \/ Stores!SweepAtOnce(c, k)
        \/ backend # "memory" /\ Stores!FindExpired(c, k)
        \/ /\ k \in Flows
           /\ \E v \in Values : Stores!Update(c, k, v) \/ Stores!ReadForUpdate(c, k, v)
  BY DEF FirstStatement
<1>2. /\ now \in Nat /\ saves \in [Stores!Keys -> Nat] /\ late \subseteq Stores!Keys
      /\ rows[k] \in Row \cup {None}
  BY DEF StoreTypeOK
<1>3. CASE \E v \in Saved, ttl \in Ttls : Stores!Save(c, k, v, ttl)
  <2>1. PICK v \in Saved, ttl \in Ttls : Stores!Save(c, k, v, ttl)
    BY <1>3
  <2>2. now + ttl \in Nat
    BY <1>2 DEF Stores!SessionStoresAssumption
  <2>3. [value |-> v, expires |-> now + ttl] \in Row
    BY <2>2 DEF Row
  <2>4. /\ saves' \in [Stores!Keys -> Nat] /\ saves'[k] # 0
        /\ \A x \in Stores!Keys \ {k} : saves'[x] = saves[x]
    BY <1>2, <2>1 DEF Stores!Save
  <2>5. [value |-> v, expires |-> now + ttl] # None
    BY <2>3 DEF Row, Stores!SessionStoresAssumption
  <2> DEFINE row == [value |-> v, expires |-> now + ttl]
  <2>6. /\ Stores!Puts(k, row) /\ late' = late \ {k}
        /\ UNCHANGED <<backend, now, calls>> /\ k \in Flows => saves[k] = 0
    BY <2>1 DEF Stores!Save
  <2> HIDE DEF row
  <2>7. row \in Row
    BY <2>3 DEF row
  <2>8. QED
    BY <1>2, <2>1, <2>4, <2>6, <2>7, PuttingKeeps DEF Stores!Save
<1>4. CASE Stores!Delete(c, k) \/ Stores!Take(c, k)
  BY <1>2, <1>4, PuttingKeeps DEF Stores!Delete, Stores!Take
<1>5. CASE Stores!SweepAtOnce(c, k)
  BY <1>2, <1>5, SweepingKeeps DEF Stores!SweepAtOnce
<1>6. CASE backend # "memory" /\ Stores!FindExpired(c, k)
  <2> DEFINE q == [Stores!NoCall EXCEPT !.pc = "sweep", !.key = k]
  <2>1. q \in CallRecord /\ q.pc = "sweep" /\ q.key = k
    BY DEF Stores!NoCall, CallRecord
  <2>2. /\ calls' = [calls EXCEPT ![c] = q] /\ rows[k] # None
        /\ ~Stores!Live(rows[k], now)
        /\ UNCHANGED <<backend, rows, now, saves, promised, late>>
    BY <1>6 DEF Stores!FindExpired
  <2>3. k \in Flows => saves[k] # 0
    BY <2>2 DEF StoreInv, FlowsAreSaved
  <2> HIDE DEF q
  <2>4. QED
    BY <1>6, <2>1, <2>2, <2>3, CallingKeeps
<1>7. ASSUME k \in Flows, NEW v \in Values, Stores!Update(c, k, v)
      PROVE  StoreTypeOK' /\ StoreInv'
  <2>1. /\ rows[k] # None /\ Stores!Live(rows[k], now)
        /\ rows' = [rows EXCEPT ![k].value = v]
        /\ Stores!Promise(k, v, now)
        /\ UNCHANGED <<backend, now, calls, saves, late>>
    BY <1>7 DEF Stores!Update, Stores!Live
  <2>2. rows[k] = promised[k]
    BY <2>1 DEF StoreInv, AllSameOrGone, SameOrGone
  <2>3. PICK row \in Row : /\ row.value = v /\ row.expires = rows[k].expires
                           /\ rows' = [rows EXCEPT ![k] = row]
    <3>1. PICK old \in Row : old = rows[k]
      BY <1>2, <2>1
    <3> DEFINE z == [old EXCEPT !.value = v]
    <3>2. z \in Row /\ z.value = v /\ z.expires = old.expires
      BY DEF Row
    <3>3. rows' = [rows EXCEPT ![k] = z]
      BY <2>1, <3>1
    <3> HIDE DEF z
    <3>4. QED
      BY <3>1, <3>2, <3>3
  <2>4. promised' = [promised EXCEPT ![k].value = v]
    BY <2>1, <2>2 DEF Stores!Promise
  <2>5. promised' = [promised EXCEPT ![k].value = row.value]
    BY <2>3, <2>4
  <2>6. QED
    BY <1>7, <2>1, <2>3, <2>5, RewritingKeeps
<1>8. ASSUME k \in Flows, NEW v \in Values, Stores!ReadForUpdate(c, k, v)
      PROVE  StoreTypeOK' /\ StoreInv'
  <2>1. /\ rows[k] # None /\ now < rows[k].expires
        /\ calls' = [calls EXCEPT ![c] = [pc |-> "update", key |-> k, at |-> now,
                                          value |-> [rows[k] EXCEPT !.value = v]]]
        /\ UNCHANGED <<backend, rows, now, saves, promised, late>>
    BY <1>8 DEF Stores!ReadForUpdate, Stores!Live
  <2>2. PICK row \in Row : row = [rows[k] EXCEPT !.value = v] /\ row.expires = rows[k].expires
    <3>1. PICK old \in Row : old = rows[k]
      BY <1>2, <2>1
    <3> DEFINE z == [old EXCEPT !.value = v]
    <3>2. z \in Row /\ z.expires = old.expires
      BY DEF Row
    <3>3. z = [rows[k] EXCEPT !.value = v]
      BY <3>1
    <3> HIDE DEF z
    <3>4. QED
      BY <3>1, <3>2, <3>3
  <2> DEFINE q == [pc |-> "update", key |-> k, at |-> now, value |-> row]
  <2>3. /\ q \in CallRecord /\ q.pc = "update" /\ q.key = k /\ q.at = now
        /\ q.value = row
    BY <1>2 DEF CallRecord
  <2>4. calls' = [calls EXCEPT ![c] = q]
    BY <2>1, <2>2
  <2>5. saves[k] # 0
    BY <1>8, <2>1 DEF StoreInv, FlowsAreSaved
  <2> HIDE DEF q
  <2>6. q.at <= now
    BY <1>2, <2>3
  <2>7. /\ q.key \in Flows /\ q.value \in Row /\ saves[q.key] # 0
        /\ q.at < q.value.expires /\ rows[q.key].expires = q.value.expires
    BY <1>8, <2>1, <2>2, <2>3, <2>5
  <2>8. q.pc # "sweep"
    BY <2>3
  <2>9. QED
    BY <2>1, <2>3, <2>4, <2>6, <2>7, <2>8, CallingKeeps
<1>9. CASE /\ k \in Flows
           /\ \E v \in Values : Stores!Update(c, k, v) \/ Stores!ReadForUpdate(c, k, v)
  BY <1>7, <1>8, <1>9
<1>10. QED
  BY <1>1, <1>3, <1>4, <1>5, <1>6, <1>9

LEMMA StoreInvariance ==
  ASSUME Stores!SessionStoresAssumption
  PROVE  Stores!Spec => [](StoreTypeOK /\ StoreInv)
<1>1. Stores!Init => StoreTypeOK /\ StoreInv
  <2> SUFFICES ASSUME Stores!Init PROVE StoreTypeOK /\ StoreInv
    OBVIOUS
  <2>1. Stores!NoCall \in CallRecord /\ Stores!NoCall.pc = "idle"
    BY DEF Stores!NoCall, CallRecord
  <2>2. StoreTypeOK
    BY <2>1 DEF Stores!Init, StoreTypeOK
  <2>3. CallsTell
    BY <2>1 DEF Stores!Init, CallsTell
  <2>4. FlowsAreSaved /\ AllSameOrGone
    BY DEF Stores!Init, FlowsAreSaved, AllSameOrGone, SameOrGone, Stores!Keys
  <2>5. QED
    BY <2>2, <2>3, <2>4 DEF StoreInv
<1>2. StoreTypeOK /\ StoreInv /\ [Stores!Next]_(Stores!storeVars)
        => StoreTypeOK' /\ StoreInv'
  <2> SUFFICES ASSUME StoreTypeOK, StoreInv, [Stores!Next]_(Stores!storeVars)
               PROVE  StoreTypeOK' /\ StoreInv'
    OBVIOUS
  <2>1. CASE UNCHANGED Stores!storeVars
    BY <2>1 DEF Stores!storeVars, StoreTypeOK, StoreInv, CallsTell, SweepTells, UpdateTells,
                FlowsAreSaved, AllSameOrGone, SameOrGone, Stores!Live
  <2>2. CASE Stores!Tick
    <3>1. /\ now \in Nat /\ now' = now + 1
          /\ UNCHANGED <<backend, rows, calls, saves, promised, late>>
      BY <2>2 DEF Stores!Tick, StoreTypeOK
    <3>2. StoreTypeOK'
      BY <3>1 DEF StoreTypeOK
    <3>3. ASSUME NEW row \in Row \cup {None}, Stores!Live(row, now + 1)
          PROVE  Stores!Live(row, now)
      BY <3>1, <3>3 DEF Stores!Live, Row
    <3>4. ASSUME NEW d \in Callers, calls[d].pc = "sweep" PROVE SweepTells(d)'
      <4>1. SweepTells(d) /\ rows[calls[d].key] \in Row \cup {None}
        BY <3>4 DEF StoreInv, CallsTell, SweepTells, StoreTypeOK
      <4>2. QED
        BY <3>1, <3>3, <4>1 DEF SweepTells, Stores!Live
    <3>5. ASSUME NEW d \in Callers, calls[d].pc = "update" PROVE UpdateTells(d)'
      <4>1. UpdateTells(d) /\ calls[d].at \in Nat
        BY <3>5 DEF StoreInv, CallsTell, StoreTypeOK, CallRecord
      <4>2. QED
        BY <3>1, <4>1 DEF UpdateTells
    <3>6. CallsTell'
      BY <3>1, <3>4, <3>5 DEF CallsTell
    <3>7. ASSUME NEW k \in Stores!Keys PROVE SameOrGone(k)'
      <4>1. SameOrGone(k) /\ promised[k] \in Row \cup {None}
        BY DEF StoreInv, AllSameOrGone, StoreTypeOK
      <4>2. QED
        BY <3>1, <3>3, <4>1 DEF SameOrGone, Stores!Live
    <3>8. FlowsAreSaved' /\ AllSameOrGone'
      BY <3>1, <3>7 DEF StoreInv, FlowsAreSaved, AllSameOrGone, Stores!Keys
    <3>9. QED
      BY <3>2, <3>6, <3>8 DEF StoreInv
  <2>3. ASSUME NEW c \in Callers, Stores!Sweep(c) PROVE StoreTypeOK' /\ StoreInv'
    <3> DEFINE k == calls[c].key
    <3>1. k \in Stores!Keys /\ (Stores!Live(rows[k], now) => k \notin Flows /\ backend # "memory")
      BY <2>3 DEF Stores!Sweep, StoreInv, CallsTell, SweepTells
    <3>2. /\ rows' = [rows EXCEPT ![k] = None]
          /\ late' = IF Stores!Live(rows[k], now) THEN late \cup {k} ELSE late
          /\ calls' = [calls EXCEPT ![c] = Stores!NoCall]
          /\ UNCHANGED <<backend, now, saves, promised>>
      BY <2>3 DEF Stores!Sweep
    <3> HIDE DEF k
    <3>3. QED
      BY <3>1, <3>2, SweepingKeeps
  <2>4. ASSUME NEW c \in Callers, Stores!CallFails(c) PROVE StoreTypeOK' /\ StoreInv'
    <3>1. Stores!NoCall \in CallRecord /\ Stores!NoCall.pc = "idle"
      BY DEF Stores!NoCall, CallRecord
    <3>2. QED
      BY <2>4, <3>1, CallingKeeps DEF Stores!CallFails
  <2>5. QED
    BY <2>1, <2>2, <2>3, <2>4, AdaptersAreStatements, FirstStatementsKeep, WritingBackKeeps
    DEF Stores!Next
<1>3. QED
  BY <1>1, <1>2, PTL DEF Stores!Spec

(* Each of the five adapters is a map with expiry, for any number of keys, *)
(* callers and values; flows and the memory store without exception, the   *)
(* others but for a row that another caller's sweep of its expired         *)
(* predecessor deleted (adapters/*/session-store.ts).                      *)
THEOREM SessionStoresAreMaps ==
  ASSUME Stores!SessionStoresAssumption
  PROVE  Stores!Spec => []Stores!StoresAreMaps
<1>1. StoreTypeOK /\ StoreInv => Stores!StoresAreMaps
  BY DEF StoreInv, AllSameOrGone, SameOrGone, Stores!StoresAreMaps, Stores!Live
<1>2. QED
  BY <1>1, StoreInvariance, PTL

----------------------------------------------------------------------------
(* The SCIM service provider.                                              *)

(* A membership that was patched is patched.                               *)
LEMMA PatchingTwice ==
  ASSUME NEW members, NEW p
  PROVE  Directory!PatchedMembers(Directory!PatchedMembers(members, p), p)
           = Directory!PatchedMembers(members, p)
BY DEF Directory!PatchedMembers

(* Requests that mean the same whatever record they are resolved against.  *)
Direct(ask) == ~(ask.on = "user" /\ ask.method = "PATCH")
Meant(ask) == Directory!Resolve(ask, None).patch

IsRequest(q) ==
  q \in [pc : {q.pc}, ask : {q.ask}, seen : {q.seen}, write : {q.write},
         status : {q.status}, tries : {q.tries}, took : {q.took}]

Took(q) ==
  q.took # None /\ Direct(q.ask) =>
    \E at : q.took = Directory!Written(q.ask, Meant(q.ask), at)

RequestFits(r) ==
  LET q == req[r]
  IN /\ IsRequest(q) /\ q.tries \in Nat
     /\ q.tries = 0 => q.took = None /\ q.pc = "idle"
     /\ q.tries # 0 => q.ask \in Script[r]
     /\ q.pc = "load" => q.ask.on \in {"user", "group"}
     /\ q.pc = "write" /\ Direct(q.ask) => q.write = Meant(q.ask)
     /\ Took(q)

ScimInv ==
  /\ req = [r \in Requests |-> req[r]]
  /\ users = [u \in UserIds |-> users[u]]
  /\ groups = [g \in GroupIds |-> groups[g]]
  /\ \A r \in Requests : RequestFits(r)

LEMMA WritingTwice ==
  ASSUME NEW ask, NEW write, NEW at, Direct(ask)
  PROVE  Directory!Written(ask, write, Directory!Written(ask, write, at))
           = Directory!Written(ask, write, at)
<1>1. CASE ask.method = "PATCH" /\ ask.on = "group"
  <2> DEFINE F == write.fields
             M == Directory!PatchedMembers(at.members, write)
             rec == [Directory!Over(F, at) EXCEPT !.members = M]
             N == Directory!PatchedMembers(rec.members, write)
  <2>1. /\ Directory!Written(ask, write, at) = rec
        /\ Directory!Written(ask, write, rec) = [Directory!Over(F, rec) EXCEPT !.members = N]
    BY <1>1 DEF Directory!Written
  <2>2. Directory!PatchedMembers(M, write) = M
    BY PatchingTwice
  <2>3. rec = [x \in DOMAIN F \cup DOMAIN at |->
                 IF x = "members" THEN M ELSE IF x \in DOMAIN F THEN F[x] ELSE at[x]]
    <3> HIDE DEF F, M
    <3>1. QED
      BY DEF Directory!Over
  <2>4. [Directory!Over(F, rec) EXCEPT !.members = N] = rec
    <3>1. "members" \in DOMAIN F \cup DOMAIN at => N = M
      BY <2>2, <2>3
    <3> HIDE DEF F, M, N, rec
    <3>2. DOMAIN rec = DOMAIN F \cup DOMAIN at
      BY <2>3
    <3>3. \A x \in DOMAIN rec : x \in DOMAIN F /\ x # "members" => rec[x] = F[x]
      BY <2>3
    <3>4. "members" \in DOMAIN rec => rec["members"] = M
      BY <2>3
    <3>5. [Directory!Over(F, rec) EXCEPT !.members = N]
            = [x \in DOMAIN rec |-> IF x = "members" THEN N ELSE rec[x]]
      BY <3>2, <3>3 DEF Directory!Over
    <3>6. rec = [x \in DOMAIN rec |-> rec[x]]
      BY <2>3
    <3>7. QED
      BY <3>1, <3>2, <3>4, <3>5, <3>6
  <2>5. QED
    BY <2>1, <2>4
<1>2. CASE ~(ask.method = "PATCH" /\ ask.on = "group")
  BY <1>2 DEF Directory!Written, Direct
<1>3. QED
  BY <1>1, <1>2

(* A request that takes a step and leaves the directory as it is.          *)
LEMMA RequestsGoOn ==
  ASSUME ScimInv, NEW r \in Requests, NEW q, Directory!Becomes(r, q), IsRequest(q),
         q.tries \in Nat \ {0}, q.ask \in Script[r],
         q.pc = "load" => q.ask.on \in {"user", "group"},
         q.pc = "write" /\ Direct(q.ask) => q.write = Meant(q.ask),
         Took(q),
         UNCHANGED addsFirst,
         users' = [u \in UserIds |-> users'[u]], groups' = [g \in GroupIds |-> groups'[g]]
  PROVE  ScimInv'
<1>1. /\ req' = [p \in Requests |-> req'[p]]
      /\ req'[r] = q
      /\ \A p \in Requests \ {r} : req'[p] = req[p]
  BY DEF Directory!Becomes, ScimInv
<1>2. \A ask, write, at :
        Directory!Written(ask, write, at)' = Directory!Written(ask, write, at)
  BY DEF Directory!Written, Directory!PatchedMembers
<1>3. \A z : Took(z) => Took(z)'
  BY <1>2 DEF Took
<1>4. ASSUME NEW p \in Requests \ {r} PROVE RequestFits(p)'
  BY <1>1, <1>3, <1>4 DEF ScimInv, RequestFits
<1>5. RequestFits(r)'
  BY <1>1, <1>3 DEF RequestFits
<1>6. QED
  BY <1>1, <1>4, <1>5 DEF ScimInv

(* What is routed on is about a user or a group. *)
LEMMA RoutedRequests ==
  ASSUME NEW ask, Directory!Refusal(ask) = 0,
         ask.on \in {"user", "group", "discovery", "elsewhere"}
  PROVE  ask.on \in {"user", "group"}
<1>1. Directory!Route(ask) = 0
  BY DEF Directory!Refusal
<1>2. CASE ask.on = "elsewhere"
  BY <1>1, <1>2 DEF Directory!Route
<1>3. CASE ask.on = "discovery"
  BY <1>1, <1>3 DEF Directory!Route, Directory!Allowed
<1>4. QED
  BY <1>2, <1>3

(* A request that ends leaves nothing to be told of it but what it took.   *)
LEMMA RequestsEnd ==
  ASSUME ScimInv, NEW r \in Requests, NEW q, NEW code, Directory!Finish(r, q, code),
         IsRequest(q), q.tries \in Nat \ {0}, q.ask \in Script[r], Took(q),
         UNCHANGED addsFirst,
         users' = [u \in UserIds |-> users'[u]], groups' = [g \in GroupIds |-> groups'[g]]
  PROVE  ScimInv'
<1> DEFINE z == [q EXCEPT !.pc = "done", !.status = code]
<1>1. /\ IsRequest(z) /\ z.pc = "done" /\ z.tries = q.tries /\ z.ask = q.ask
      /\ z.took = q.took
  BY DEF IsRequest
<1>2. Directory!Becomes(r, z)
  BY DEF Directory!Finish
<1> HIDE DEF z
<1>3. Took(z)
  BY <1>1 DEF Took
<1>4. QED
  BY <1>1, <1>2, <1>3, RequestsGoOn

LEMMA ScimInvariance ==
  ASSUME Directory!ScimAssumption, ScimInv, [Directory!Next]_(Directory!scimVars)
  PROVE  ScimInv'
<1>1. ASSUME NEW r \in Requests, Directory!HandleScimRequest(r) PROVE ScimInv'
  <2> DEFINE q == req[r]
  <2>1. RequestFits(r) /\ q.pc = "idle"
        /\ UNCHANGED <<users, groups, addsFirst>>
    BY <1>1 DEF ScimInv, Directory!HandleScimRequest, Directory!DirectoryIsUnchanged
  <2>2. PICK ask \in (IF q.tries = 0 THEN Script[r] ELSE {q.ask}) :
          LET z == [q EXCEPT !.ask = ask, !.tries = @ + 1]
              made == Directory!Resolve(ask, None)
          IN IF Directory!Refusal(ask) # 0
             THEN Directory!Finish(r, z, Directory!Refusal(ask))
             ELSE IF ask.id # None THEN Directory!Becomes(r, [z EXCEPT !.pc = "load"])
             ELSE IF ask.method = "GET"
                  THEN IF Directory!ParseScimFilter(ask.filter, ask.on)
                       THEN Directory!Becomes(r, [z EXCEPT !.pc = "find"])
                       ELSE Directory!Finish(r, z, 400)
             ELSE IF made.error # "none" THEN Directory!Finish(r, z, 400)
             ELSE Directory!Becomes(r, [z EXCEPT !.pc = "write", !.write = made.patch])
    BY <1>1 DEF Directory!HandleScimRequest
  <2>3. ask \in Script[r] /\ (q.tries = 0 => q.took = None) /\ (q.tries # 0 => q.ask = ask)
    BY <2>1, <2>2 DEF RequestFits
  <2> DEFINE tried == q.tries + 1
             z == [q EXCEPT !.ask = ask, !.tries = tried]
  <2>4. tried \in Nat \ {0} /\ IsRequest(q)
    BY <2>1 DEF RequestFits
  <2>5. /\ \/ \E code : Directory!Finish(r, z, code)
           \/ Directory!Becomes(r, [z EXCEPT !.pc = "load"])
           \/ Directory!Becomes(r, [z EXCEPT !.pc = "find"])
           \/ Directory!Becomes(r, [z EXCEPT !.pc = "write", !.write = Meant(ask)])
        /\ Directory!Refusal(ask) = 0 \/ \E code : Directory!Finish(r, z, code)
    BY <2>2 DEF Meant
  <2> HIDE DEF tried
  <2>6. IsRequest(z) /\ z.ask = ask /\ z.tries = tried /\ z.took = q.took
    BY <2>4 DEF IsRequest
  <2> HIDE DEF z
  <2>7. Took(z)
    BY <2>1, <2>3, <2>6 DEF RequestFits, Took
  <2>8. /\ users' = [u \in UserIds |-> users'[u]]
        /\ groups' = [g \in GroupIds |-> groups'[g]]
    BY <2>1 DEF ScimInv
  <2>9. ASSUME NEW w, IsRequest(w), w.ask = ask, w.tries = tried, w.took = q.took
        PROVE  Took(w)
    BY <2>6, <2>7, <2>9 DEF Took
  <2>10. CASE \E code : Directory!Finish(r, z, code)
    BY <2>1, <2>3, <2>4, <2>6, <2>7, <2>8, <2>10, RequestsEnd
  <2>11. CASE Directory!Refusal(ask) = 0 /\ Directory!Becomes(r, [z EXCEPT !.pc = "load"])
    <3> DEFINE w == [z EXCEPT !.pc = "load"]
    <3>1. IsRequest(w) /\ w.pc = "load" /\ w.ask = ask /\ w.tries = tried /\ w.took = q.took
      BY <2>6 DEF IsRequest
    <3>2. ask.on \in {"user", "group"}
      BY <2>3, <2>11, RoutedRequests DEF Directory!ScimAssumption, Directory!Asks
    <3>3. Directory!Becomes(r, w)
      BY <2>11
    <3> HIDE DEF w
    <3>4. QED
      BY <2>1, <2>3, <2>4, <2>8, <2>9, <3>1, <3>2, <3>3, RequestsGoOn
  <2>12. CASE Directory!Becomes(r, [z EXCEPT !.pc = "find"])
    <3> DEFINE w == [z EXCEPT !.pc = "find"]
    <3>1. IsRequest(w) /\ w.pc = "find" /\ w.ask = ask /\ w.tries = tried /\ w.took = q.took
      BY <2>6 DEF IsRequest
    <3>2. Directory!Becomes(r, w)
      BY <2>12
    <3> HIDE DEF w
    <3>3. QED
      BY <2>1, <2>3, <2>4, <2>8, <2>9, <3>1, <3>2, RequestsGoOn
  <2>13. CASE Directory!Becomes(r, [z EXCEPT !.pc = "write", !.write = Meant(ask)])
    <3> DEFINE w == [z EXCEPT !.pc = "write", !.write = Meant(ask)]
    <3>1. /\ IsRequest(w) /\ w.pc = "write" /\ w.ask = ask /\ w.tries = tried
          /\ w.took = q.took /\ w.write = Meant(ask)
      BY <2>6 DEF IsRequest
    <3>2. Directory!Becomes(r, w)
      BY <2>13
    <3> HIDE DEF w
    <3>3. QED
      BY <2>1, <2>3, <2>4, <2>8, <2>9, <3>1, <3>2, RequestsGoOn
  <2>14. QED
    BY <2>5, <2>10, <2>11, <2>12, <2>13
<1>2. ASSUME NEW r \in Requests,
             Directory!Find(r) \/ Directory!HostFails(r)
      PROVE  ScimInv'
  <2>1. /\ UNCHANGED <<users, groups, addsFirst>>
        /\ req[r].pc \in {"find", "load", "write"}
        /\ \E s, code : Directory!Finish(r, [req[r] EXCEPT !.seen = s], code)
    <3>1. CASE Directory!Find(r)
      BY <3>1 DEF Directory!Find, Directory!DirectoryIsUnchanged
    <3>2. CASE Directory!HostFails(r)
      <4>1. [req[r] EXCEPT !.seen = req[r].seen] = req[r]
        BY DEF ScimInv, RequestFits, IsRequest
      <4>2. /\ UNCHANGED <<users, groups, addsFirst>>
            /\ req[r].pc \in {"find", "load", "write"}
            /\ Directory!Finish(r, req[r], 500)
        BY <3>2 DEF Directory!HostFails, Directory!DirectoryIsUnchanged
      <4>3. Directory!Finish(r, [req[r] EXCEPT !.seen = req[r].seen], 500)
        BY <4>1, <4>2
      <4>4. QED
        BY <4>2, <4>3
    <3>3. QED
      BY <1>2, <3>1, <3>2
  <2>2. PICK s, code : Directory!Finish(r, [req[r] EXCEPT !.seen = s], code)
    BY <2>1
  <2> DEFINE z == [req[r] EXCEPT !.seen = s]
  <2>3. RequestFits(r) /\ IsRequest(req[r])
    BY DEF ScimInv, RequestFits
  <2>4. IsRequest(z) /\ z.ask = req[r].ask /\ z.tries = req[r].tries /\ z.took = req[r].took
    BY <2>3 DEF IsRequest
  <2>5. Directory!Finish(r, z, code)
    BY <2>2
  <2> HIDE DEF z
  <2>6. Took(z) /\ z.ask \in Script[r] /\ z.tries \in Nat \ {0}
    BY <2>1, <2>3, <2>4 DEF RequestFits, Took
  <2>7. QED
    BY <2>1, <2>4, <2>5, <2>6, RequestsEnd DEF ScimInv
<1>3. ASSUME NEW r \in Requests, Directory!Load(r) PROVE ScimInv'
  <2> DEFINE ask == req[r].ask
             found == Directory!Target(ask)
             made == Directory!Resolve(ask, found)
             z == [req[r] EXCEPT !.seen = found]
  <2>1. RequestFits(r) /\ IsRequest(req[r]) /\ req[r].pc = "load"
        /\ UNCHANGED <<users, groups, addsFirst>>
    BY <1>3 DEF ScimInv, RequestFits, Directory!Load, Directory!DirectoryIsUnchanged
  <2>2. \/ \E code : Directory!Finish(r, z, code)
        \/ Directory!Becomes(r, [z EXCEPT !.pc = "write", !.write = made.patch])
    BY <1>3 DEF Directory!Load
  <2>3. Direct(ask) => made.patch = Meant(ask)
    <3>1. ask.on \in {"user", "group"}
      BY <2>1 DEF RequestFits
    <3>2. Direct(ask) => made = Directory!Resolve(ask, None)
      BY <3>1 DEF Directory!Resolve, Direct
    <3>3. QED
      BY <3>2 DEF Meant
  <2> HIDE DEF found, made
  <2>4. IsRequest(z) /\ z.ask = ask /\ z.tries = req[r].tries /\ z.took = req[r].took
    BY <2>1 DEF IsRequest
  <2> HIDE DEF z
  <2>5. Took(z) /\ ask \in Script[r] /\ z.tries \in Nat \ {0}
    BY <2>1, <2>4 DEF RequestFits, Took
  <2>6. CASE \E code : Directory!Finish(r, z, code)
    BY <2>1, <2>4, <2>5, <2>6, RequestsEnd DEF ScimInv
  <2>7. CASE Directory!Becomes(r, [z EXCEPT !.pc = "write", !.write = made.patch])
    <3> DEFINE patch == made.patch
               w == [z EXCEPT !.pc = "write", !.write = patch]
    <3>1. Directory!Becomes(r, w)
      BY <2>7
    <3>2. Direct(ask) => patch = Meant(ask)
      BY <2>3
    <3> HIDE DEF patch
    <3>3. /\ IsRequest(w) /\ w.pc = "write" /\ w.ask = ask /\ w.tries = z.tries
          /\ w.took = z.took /\ w.write = patch
      BY <2>4 DEF IsRequest
    <3> HIDE DEF w
    <3>4. Took(w)
      BY <2>4, <2>5, <3>3 DEF Took
    <3>5. QED
      BY <2>1, <2>4, <2>5, <3>1, <3>2, <3>3, <3>4, RequestsGoOn DEF ScimInv
  <2>8. QED
    BY <2>2, <2>6, <2>7
<1>4. ASSUME NEW r \in Requests, Directory!Write(r) PROVE ScimInv'
  <2> DEFINE q == req[r]
             ask == q.ask
             At(id) == IF ask.on = "user" THEN users[id] ELSE groups[id]
             record(id) == Directory!Written(ask, q.write, At(id))
  <2>1. RequestFits(r) /\ IsRequest(q) /\ q.pc = "write" /\ UNCHANGED addsFirst
    BY <1>4 DEF ScimInv, RequestFits, Directory!Write
  <2>2. Took(q) /\ ask \in Script[r] /\ q.tries \in Nat \ {0}
        /\ (Direct(ask) => q.write = Meant(ask))
    BY <2>1 DEF RequestFits
  <2>3. PICK id \in Directory!Places(ask), lost \in BOOLEAN :
          IF Directory!Conflicts(ask, id, record(id))
          THEN ~lost /\ Directory!Finish(r, q, 409) /\ Directory!DirectoryIsUnchanged
          ELSE IF Directory!HostRefuses(ask, record(id))
          THEN ~lost /\ Directory!Finish(r, q, 400) /\ Directory!DirectoryIsUnchanged
          ELSE /\ Directory!Put(ask, id, record(id))
               /\ Directory!Finish(r, [q EXCEPT !.took = IF lost THEN record(id) ELSE @],
                                   IF lost THEN 500 ELSE Directory!Success(ask))
    BY <1>4 DEF Directory!Write
  <2> HIDE DEF record
  <2>4. \/ UNCHANGED <<users, groups>> /\ \E code : Directory!Finish(r, q, code)
        \/ /\ Directory!Put(ask, id, record(id))
           /\ \E code : Directory!Finish(r, [q EXCEPT !.took = IF lost THEN record(id) ELSE @],
                                           code)
    BY <2>3 DEF Directory!DirectoryIsUnchanged
  <2>5. CASE UNCHANGED <<users, groups>> /\ \E code : Directory!Finish(r, q, code)
    BY <2>1, <2>2, <2>5, RequestsEnd DEF ScimInv
  <2>6. CASE /\ Directory!Put(ask, id, record(id))
             /\ \E code : Directory!Finish(r, [q EXCEPT !.took = IF lost THEN record(id) ELSE @],
                                             code)
    <3> DEFINE left == IF lost THEN record(id) ELSE q.took
               z == [q EXCEPT !.took = left]
    <3>1. PICK code : Directory!Finish(r, z, code)
      BY <2>6
    <3>2. /\ users' = [u \in UserIds |-> users'[u]]
          /\ groups' = [g \in GroupIds |-> groups'[g]]
      <4> HIDE DEF record
      <4>1. QED
        BY <2>6 DEF Directory!Put, ScimInv
    <3>3. left = q.took \/ (Direct(ask) => left = Directory!Written(ask, Meant(ask), At(id)))
      BY <2>2 DEF record
    <3> HIDE DEF left
    <3>4. IsRequest(z) /\ z.ask = ask /\ z.tries = q.tries /\ z.took = left
      BY <2>1 DEF IsRequest
    <3> HIDE DEF z
    <3>5. Took(z)
      BY <2>2, <3>3, <3>4 DEF Took
    <3>6. QED
      BY <2>1, <2>2, <3>1, <3>2, <3>4, <3>5, RequestsEnd
  <2>7. QED
    BY <2>4, <2>5, <2>6
<1>5. ASSUME NEW r \in Requests, Directory!Repeat(r) PROVE ScimInv'
  <2> DEFINE q == req[r]
             z == [q EXCEPT !.pc = "idle", !.status = 0, !.seen = None, !.write = None]
  <2>1. RequestFits(r) /\ IsRequest(q) /\ q.pc = "done" /\ Directory!Becomes(r, z)
        /\ UNCHANGED <<users, groups, addsFirst>>
    BY <1>5 DEF ScimInv, RequestFits, Directory!Repeat, Directory!DirectoryIsUnchanged
  <2>2. IsRequest(z) /\ z.pc = "idle" /\ z.ask = q.ask /\ z.tries = q.tries /\ z.took = q.took
    BY <2>1 DEF IsRequest
  <2> HIDE DEF z
  <2>3. Took(z) /\ z.ask \in Script[r] /\ z.tries \in Nat \ {0}
    BY <2>1, <2>2 DEF RequestFits, Took
  <2>4. QED
    BY <2>1, <2>2, <2>3, RequestsGoOn DEF ScimInv
<1>6. CASE UNCHANGED Directory!scimVars
  <2>1. \A ask, write, at :
          Directory!Written(ask, write, at)' = Directory!Written(ask, write, at)
    BY <1>6 DEF Directory!Written, Directory!PatchedMembers, Directory!scimVars
  <2>2. QED
    BY <1>6, <2>1 DEF Directory!scimVars, ScimInv, RequestFits, Took
<1>7. QED
  BY <1>1, <1>2, <1>3, <1>4, <1>5, <1>6 DEF Directory!Next

(* Repeating a request whose write took effect though its answer was lost  *)
(* changes nothing if nobody wrote in between, for all that do not patch a *)
(* user (replaceUser, patchGroup, replaceGroup).                           *)
DirectRetriesRepeatNothing ==
  \A r \in Requests :
    Directory!Writes(r) /\ req[r].took # None /\ req[r].ask.id # None
      /\ Directory!Target(req[r].ask) = req[r].took /\ Direct(req[r].ask)
    => UNCHANGED <<users, groups>>

LEMMA RepeatingKeeps ==
  ASSUME ScimInv, NEW r \in Requests, Directory!Write(r),
         req[r].took # None, req[r].ask.id # None,
         Directory!Target(req[r].ask) = req[r].took, Direct(req[r].ask)
  PROVE  UNCHANGED <<users, groups>>
<1> DEFINE q == req[r]
           ask == q.ask
<1>1. q.write = Meant(ask) /\ Took(q)
  BY DEF ScimInv, RequestFits, Directory!Write
<1>2. PICK at : q.took = Directory!Written(ask, Meant(ask), at)
  BY <1>1 DEF Took
<1>3. Directory!Written(ask, q.write, q.took) = q.took
  BY <1>1, <1>2, WritingTwice
<1>4. \/ UNCHANGED <<users, groups>>
      \/ Directory!Put(ask, ask.id, q.took)
  BY <1>3 DEF Directory!Write, Directory!DirectoryIsUnchanged, Directory!Places, Directory!Target
<1>5. CASE Directory!Put(ask, ask.id, q.took)
  BY <1>5 DEF Directory!Put, Directory!Target, ScimInv
<1>6. QED
  BY <1>4, <1>5

THEOREM DirectRetries ==
  ASSUME Directory!ScimAssumption
  PROVE  Directory!Spec => [][DirectRetriesRepeatNothing]_(Directory!scimVars)
<1>1. Directory!Init => ScimInv
  <2> SUFFICES ASSUME Directory!Init PROVE ScimInv
    OBVIOUS
  <2>1. req = [r \in Requests |-> Directory!Idle]
    BY DEF Directory!Init
  <2>2. IsRequest(Directory!Idle)
    BY DEF IsRequest, Directory!Idle
  <2>3. Directory!Idle.took = None /\ Directory!Idle.tries = 0 /\ Directory!Idle.pc = "idle"
    BY DEF Directory!Idle
  <2>4. \A r \in Requests : RequestFits(r)
    BY <2>1, <2>2, <2>3 DEF RequestFits, Took
  <2>5. QED
    BY <2>1, <2>4 DEF ScimInv, Directory!Init, Directory!ScimAssumption, Directory!InitialDirectory
<1>2. ScimInv /\ [Directory!Next]_(Directory!scimVars) => ScimInv'
  BY ScimInvariance
<1>3. ScimInv /\ [Directory!Next]_(Directory!scimVars)
      => [DirectRetriesRepeatNothing]_(Directory!scimVars)
  <2> SUFFICES ASSUME ScimInv, Directory!Next, NEW r \in Requests, Directory!Writes(r),
                      req[r].took # None, req[r].ask.id # None,
                      Directory!Target(req[r].ask) = req[r].took, Direct(req[r].ask)
               PROVE  UNCHANGED <<users, groups>>
    BY DEF DirectRetriesRepeatNothing
  <2>1. PICK p \in Requests :
          \/ Directory!HandleScimRequest(p) \/ Directory!Find(p) \/ Directory!Load(p)
          \/ Directory!Write(p) \/ Directory!HostFails(p) \/ Directory!Repeat(p)
    BY DEF Directory!Next
  <2>2. CASE Directory!Write(p)
    <3>1. CASE p = r
      BY <2>2, <3>1, RepeatingKeeps
    <3>2. CASE p # r
      <4>1. req'[r] = req[r]
        BY <2>2, <3>2 DEF Directory!Write, Directory!Finish, Directory!Becomes, ScimInv
      <4>2. QED
        BY <4>1 DEF Directory!Writes
    <3>3. QED
      BY <3>1, <3>2
  <2>3. CASE \/ Directory!HandleScimRequest(p) \/ Directory!Find(p) \/ Directory!Load(p)
             \/ Directory!HostFails(p) \/ Directory!Repeat(p)
    BY <2>3 DEF Directory!HandleScimRequest, Directory!Find, Directory!Load,
         Directory!HostFails, Directory!Repeat, Directory!DirectoryIsUnchanged
  <2>4. QED
    BY <2>1, <2>2, <2>3
<1>4. QED
  BY <1>1, <1>2, <1>3, PTL DEF Directory!Spec

(* The folds over the operations of a patch, and over what one operation   *)
(* without a path spreads into.                                            *)
GroupFold == INSTANCE Folding WITH Op <- Directory!HandleGroup
EntryFold == INSTANCE Folding WITH Op <- Directory!HandleEntry
MembersFold == INSTANCE Folding WITH Op <- Directory!MembersAfter

LEMMA ListsRun ==
  ASSUME NEW x, Directory!IsList(x)
  PROVE  Len(x) \in Nat /\ DOMAIN x = 1 .. Len(x)
BY DEF Directory!IsList

LEMMA SingleLists ==
  ASSUME NEW o
  PROVE  Directory!IsList(<<o>>) /\ Len(<<o>>) = 1 /\ <<o>>[1] = o /\ <<o>> # <<>>
BY DEF Directory!IsList, Directory!Range

LEMMA SpreadLists ==
  ASSUME NEW o, Directory!IsList(o.value[2])
  PROVE  LET s == Directory!Spread(o)
             entries == o.value[2]
         IN /\ Directory!IsList(s) /\ Len(s) = Len(entries)
            /\ \A i \in 1 .. Len(s) :
                 s[i] = [op |-> o.op, path |-> entries[i][1], value |-> entries[i][2]]
            /\ \A i \in 1 .. Len(s) : entries[i] \in Directory!Range(entries)
<1> DEFINE entries == o.value[2]
           s == [i \in DOMAIN entries |->
                  [op |-> o.op, path |-> entries[i][1], value |-> entries[i][2]]]
<1>1. Len(entries) \in Nat /\ DOMAIN entries = 1 .. Len(entries)
  BY ListsRun
<1> HIDE DEF entries
<1>2. s \in [1 .. Len(entries) -> Directory!Range(s)]
  BY <1>1 DEF Directory!Range
<1>3. s \in Seq(Directory!Range(s)) /\ Len(s) = Len(entries)
  <2> HIDE DEF s
  <2>1. QED
    BY <1>1, <1>2
<1>4. \A i \in 1 .. Len(entries) : entries[i] \in Directory!Range(entries)
  BY <1>1 DEF Directory!Range
<1>5. QED
  BY <1>1, <1>3, <1>4 DEF Directory!Spread, Directory!IsList, entries

LEMMA GroupRuns ==
  ASSUME NEW ops, Directory!IsList(ops)
  PROVE  \E f : /\ GroupFold!Runs(f, Directory!GroupBegun, ops)
                /\ Directory!GroupDrafted(ops) = f[Len(ops)]
<1>1. PICK f : /\ GroupFold!Runs(f, Directory!GroupBegun, ops)
               /\ GroupFold!FoldLeft(Directory!HandleGroup, Directory!GroupBegun, ops)
                    = f[Len(ops)]
  BY ListsRun, GroupFold!FoldsRun
<1>2. QED
  BY <1>1 DEF Directory!GroupDrafted, Directory!FoldLeft, GroupFold!FoldLeft,
    Directory!MapThenFoldSet, GroupFold!MapThenFoldSet, Directory!Max, GroupFold!Max

LEMMA MembersRun ==
  ASSUME NEW group, NEW ops, Directory!IsList(ops)
  PROVE  \E f : /\ MembersFold!Runs(f, group.members, ops)
                /\ Directory!Members(ops, group) = f[Len(ops)]
<1>1. PICK f : /\ MembersFold!Runs(f, group.members, ops)
               /\ MembersFold!FoldLeft(Directory!MembersAfter, group.members, ops)
                    = f[Len(ops)]
  BY ListsRun, MembersFold!FoldsRun
<1>2. QED
  BY <1>1 DEF Directory!Members, Directory!FoldLeft, MembersFold!FoldLeft,
    Directory!MapThenFoldSet, MembersFold!MapThenFoldSet, Directory!Max, MembersFold!Max

LEMMA EntriesRun ==
  ASSUME NEW draft, NEW o, Directory!IsList(Directory!Spread(o)),
         draft.error = "none", o.op \in {"add", "replace", "remove"},
         o.path = Directory!NoPath, Directory!IsObject(o.value)
  PROVE  \E f : /\ EntryFold!Runs(f, draft, Directory!Spread(o))
                /\ Directory!HandleGroup(draft, o) = f[Len(Directory!Spread(o))]
<1> DEFINE s == Directory!Spread(o)
<1>1. PICK f : /\ EntryFold!Runs(f, draft, s)
               /\ EntryFold!FoldLeft(Directory!HandleEntry, draft, s) = f[Len(s)]
  BY ListsRun, EntryFold!FoldsRun
<1>2. Directory!HandleGroup(draft, o) = Directory!FoldLeft(Directory!HandleEntry, draft, s)
  BY DEF Directory!HandleGroup
<1> HIDE DEF s
<1>3. Directory!HandleGroup(draft, o) = f[Len(s)]
  BY <1>1, <1>2 DEF Directory!FoldLeft, EntryFold!FoldLeft,
    Directory!MapThenFoldSet, EntryFold!MapThenFoldSet, Directory!Max, EntryFold!Max
<1>4. QED
  BY <1>1, <1>3 DEF s

(* What a group patch is made of. *)
IsGroupDraft(d) ==
  d \in [fields : {d.fields}, added : SUBSET UserIds, removed : SUBSET UserIds,
         replacement : (SUBSET UserIds) \cup {None}, error : {d.error}]

(* An operation at a path moves every draft in the same way. *)
Stops(o) ==
  \E t : t # "none" /\ \A d : d.error = "none" =>
    Directory!HandleEntry(d, o) = Directory!Fails(d, t)
Adds(o) ==
  o.op = "add" /\ \E s \in SUBSET UserIds : \A d : d.error = "none" =>
    Directory!HandleEntry(d, o) = Directory!ApplyAdd(d, s)
Removes(o) ==
  o.op = "remove" /\ \E s \in SUBSET UserIds : \A d : d.error = "none" =>
    Directory!HandleEntry(d, o) = Directory!ApplyRemove(d, s)
Replaces(o) ==
  o.op \in {"remove", "replace"} /\ \E s \in SUBSET UserIds : \A d : d.error = "none" =>
    Directory!HandleEntry(d, o) = [d EXCEPT !.replacement = s]
Describes(o) ==
  \E x, v : \A d : d.error = "none" =>
    Directory!HandleEntry(d, o) = [d EXCEPT !.fields = Directory!With(@, x, v)]

LEMMA EntriesMove ==
  ASSUME NEW o, o.op \in {"add", "replace", "remove"},
         Directory!SpeaksOfIds(o.path, o.value)
  PROVE  Stops(o) \/ Adds(o) \/ Removes(o) \/ Replaces(o) \/ Describes(o)
<1> DEFINE v == o.value
<1>1. \A d : d.error = "none" =>
        Directory!HandleEntry(d, o) =
          IF o.path.kind = "filter"
          THEN IF o.op = "remove" THEN Directory!ApplyRemove(d, {o.path.sub})
               ELSE Directory!Fails(d, "invalidPath")
          ELSE IF o.path.kind = "plain" /\ o.path.head = "members"
          THEN Directory!HandleMembers(d, o.op, v)
          ELSE IF o.path.kind = "plain" /\ o.path.head = "displayName"
          THEN IF o.op = "remove" THEN Directory!Fails(d, "invalidPath")
               ELSE IF ~Directory!IsText(v) \/ v[2] = ""
               THEN Directory!Fails(d, "invalidValue")
               ELSE [d EXCEPT !.fields = Directory!With(@, "displayName", v[2])]
          ELSE IF o.path.kind = "plain" /\ o.path.head = "externalId"
          THEN [d EXCEPT !.fields = Directory!With(@, "externalId",
                  IF o.op = "remove" \/ ~Directory!IsText(v) THEN None ELSE v[2])]
          ELSE Directory!Fails(d, "invalidPath")
  BY DEF Directory!HandleEntry, Directory!HandleAt
<1>2. CASE o.path.kind = "filter"
  <2>1. o.path.sub \in UserIds
    BY <1>2 DEF Directory!SpeaksOfIds
  <2>2. QED
    BY <1>1, <1>2, <2>1 DEF Stops, Removes
<1>3. CASE o.path.kind = "plain" /\ o.path.head = "members"
  <2>1. \A d : d.error = "none" =>
          Directory!HandleEntry(d, o) = Directory!HandleMembers(d, o.op, v)
    BY <1>1, <1>3
  <2>2. CASE o.op = "remove" /\ v[1] = "undefined"
    <3>1. \A d : d.error = "none" =>
            Directory!HandleEntry(d, o) = [d EXCEPT !.replacement = {}]
      BY <2>1, <2>2 DEF Directory!HandleMembers
    <3>2. QED
      BY <2>2, <3>1 DEF Replaces
  <2>3. CASE ~(o.op = "remove" /\ v[1] = "undefined") /\ v[1] # "members"
    <3>1. \A d : d.error = "none" =>
            Directory!HandleEntry(d, o) = Directory!Fails(d, "invalidValue")
      BY <2>1, <2>3 DEF Directory!HandleMembers
    <3>2. QED
      BY <3>1 DEF Stops
  <2>4. CASE v[1] = "members"
    <3>1. v[2] \in SUBSET UserIds
      BY <2>4 DEF Directory!SpeaksOfIds
    <3>2. \A d : d.error = "none" =>
            /\ o.op = "add" => Directory!HandleEntry(d, o) = Directory!ApplyAdd(d, v[2])
            /\ o.op = "remove" => Directory!HandleEntry(d, o) = Directory!ApplyRemove(d, v[2])
            /\ o.op = "replace" => Directory!HandleEntry(d, o) = [d EXCEPT !.replacement = v[2]]
      BY <2>1, <2>4 DEF Directory!HandleMembers
    <3>3. CASE o.op = "add"
      BY <3>1, <3>2, <3>3 DEF Adds
    <3>4. CASE o.op = "remove"
      BY <3>1, <3>2, <3>4 DEF Removes
    <3>5. CASE o.op = "replace"
      BY <3>1, <3>2, <3>5 DEF Replaces
    <3>6. QED
      BY <3>3, <3>4, <3>5
  <2>5. QED
    BY <2>2, <2>3, <2>4
<1>4. CASE o.path.kind = "plain" /\ o.path.head = "displayName"
  <2>1. CASE o.op = "remove" \/ ~Directory!IsText(v) \/ v[2] = ""
    BY <1>1, <1>4, <2>1 DEF Stops
  <2>2. CASE ~(o.op = "remove" \/ ~Directory!IsText(v) \/ v[2] = "")
    <3>1. \A d : d.error = "none" => Directory!HandleEntry(d, o) =
            [d EXCEPT !.fields = Directory!With(@, "displayName", v[2])]
      BY <1>1, <1>4, <2>2
    <3>2. QED
      BY <3>1 DEF Describes
  <2>3. QED
    BY <2>1, <2>2
<1>5. CASE o.path.kind = "plain" /\ o.path.head = "externalId"
  <2> DEFINE w == IF o.op = "remove" \/ ~Directory!IsText(v) THEN None ELSE v[2]
  <2>1. \A d : d.error = "none" => Directory!HandleEntry(d, o) =
          [d EXCEPT !.fields = Directory!With(@, "externalId", w)]
    BY <1>1, <1>5
  <2> HIDE DEF w
  <2>2. QED
    BY <2>1 DEF Describes
<1>6. CASE /\ o.path.kind # "filter"
           /\ ~(o.path.kind = "plain"
                /\ o.path.head \in {"members", "displayName", "externalId"})
  <2>1. \A d : d.error = "none" => Directory!HandleEntry(d, o) = Directory!Fails(d, "invalidPath")
    BY <1>1, <1>6
  <2>2. QED
    BY <2>1 DEF Stops
<1>7. QED
  BY <1>2, <1>3, <1>4, <1>5, <1>6

(* A patch goes from draft d0 to draft d, while the same operation alone   *)
(* goes from an empty draft to s.                                          *)
Follows(op, d0, d, s) ==
  /\ IsGroupDraft(d) /\ IsGroupDraft(s)
  /\ d.error = s.error
  /\ d0.added \subseteq d.added /\ d0.removed \subseteq d.removed
  /\ op # "add" => s.added = {}
  /\ op # "remove" => s.removed = {}
  /\ op = "add" => s.replacement = None
  /\ IF s.replacement # None THEN d.replacement = s.replacement
     ELSE IF d0.replacement # None
     THEN d.replacement = (d0.replacement \cup s.added) \ s.removed
     ELSE /\ d.replacement = None
          /\ d.added = d0.added \cup s.added
          /\ d.removed = d0.removed \cup s.removed

LEMMA EntriesFollow ==
  ASSUME Directory!ScimAssumption, NEW o, o.op \in {"add", "replace", "remove"},
         Directory!SpeaksOfIds(o.path, o.value),
         NEW d0, IsGroupDraft(d0), NEW d, NEW s, Follows(o.op, d0, d, s)
  PROVE  Follows(o.op, d0, Directory!HandleEntry(d, o), Directory!HandleEntry(s, o))
<1> DEFINE e == Directory!HandleEntry(d, o)
           t == Directory!HandleEntry(s, o)
<1>a. \A members \in SUBSET UserIds : members # None
  BY DEF Directory!ScimAssumption
<1>b. IsGroupDraft(d) /\ IsGroupDraft(s) /\ d.error = s.error
  BY DEF Follows
<1>1. CASE d.error # "none"
  <2>1. e = d /\ t = s
    BY <1>b, <1>1 DEF Directory!HandleEntry, Directory!HandleAt
  <2>2. QED
    BY <2>1
<1>2. CASE d.error = "none" /\ Stops(o)
  <2>1. PICK x : e = [d EXCEPT !.error = x] /\ t = [s EXCEPT !.error = x]
    BY <1>b, <1>2 DEF Stops, Directory!Fails
  <2> HIDE DEF e, t
  <2>2. /\ IsGroupDraft(e) /\ IsGroupDraft(t) /\ e.error = x /\ t.error = x
        /\ e.added = d.added /\ e.removed = d.removed /\ e.replacement = d.replacement
        /\ t.added = s.added /\ t.removed = s.removed /\ t.replacement = s.replacement
    BY <1>b, <2>1 DEF IsGroupDraft
  <2>3. Follows(o.op, d0, e, t)
    BY <2>2 DEF Follows
  <2>4. QED
    BY <2>3 DEF e, t
<1>3. CASE d.error = "none" /\ Describes(o)
  <2>1. PICK x, v : /\ e = [d EXCEPT !.fields = Directory!With(@, x, v)]
                    /\ t = [s EXCEPT !.fields = Directory!With(@, x, v)]
    BY <1>b, <1>3 DEF Describes
  <2> HIDE DEF e, t
  <2>2. /\ IsGroupDraft(e) /\ IsGroupDraft(t) /\ e.error = t.error
        /\ e.added = d.added /\ e.removed = d.removed /\ e.replacement = d.replacement
        /\ t.added = s.added /\ t.removed = s.removed /\ t.replacement = s.replacement
    BY <1>b, <2>1 DEF IsGroupDraft
  <2>3. Follows(o.op, d0, e, t)
    BY <2>2 DEF Follows
  <2>4. QED
    BY <2>3 DEF e, t
<1>4. CASE d.error = "none" /\ Replaces(o)
  <2>1. PICK m \in SUBSET UserIds :
          e = [d EXCEPT !.replacement = m] /\ t = [s EXCEPT !.replacement = m]
    BY <1>b, <1>4 DEF Replaces
  <2> HIDE DEF e, t
  <2>2. /\ IsGroupDraft(e) /\ IsGroupDraft(t) /\ e.error = t.error
        /\ e.added = d.added /\ e.removed = d.removed /\ e.replacement = m
        /\ t.added = s.added /\ t.removed = s.removed /\ t.replacement = m
    BY <1>b, <2>1 DEF IsGroupDraft
  <2>3. Follows(o.op, d0, e, t)
    BY <1>a, <1>4, <2>2 DEF Follows, Replaces
  <2>4. QED
    BY <2>3 DEF e, t
<1>5. CASE d.error = "none" /\ Adds(o)
  <2>a. PICK m \in SUBSET UserIds : \A x : x.error = "none" =>
          Directory!HandleEntry(x, o) = Directory!ApplyAdd(x, m)
    BY <1>5 DEF Adds
  <2>1. e = Directory!ApplyAdd(d, m) /\ t = Directory!ApplyAdd(s, m)
    BY <1>b, <1>5, <2>a
  <2>2. o.op = "add" /\ s.replacement = None /\ s.removed = {}
    BY <1>5 DEF Adds, Follows
  <2>3. t = [s EXCEPT !.added = @ \cup m]
    BY <2>1, <2>2 DEF Directory!ApplyAdd
  <2>4. /\ d.replacement # None => e = [d EXCEPT !.replacement = @ \cup m]
        /\ d.replacement = None => e = [d EXCEPT !.added = @ \cup m]
    BY <2>1 DEF Directory!ApplyAdd
  <2> HIDE DEF e, t
  <2>5. /\ IsGroupDraft(t) /\ t.error = s.error /\ t.added = s.added \cup m
        /\ t.removed = s.removed /\ t.replacement = s.replacement
    BY <1>b, <2>3 DEF IsGroupDraft
  <2>6. CASE d.replacement # None
    <3>1. /\ IsGroupDraft(e) /\ e.error = d.error /\ e.added = d.added
          /\ e.removed = d.removed /\ e.replacement = d.replacement \cup m
      BY <1>b, <2>4, <2>6 DEF IsGroupDraft
    <3>2. Follows(o.op, d0, e, t)
      BY <2>2, <2>5, <2>6, <3>1 DEF Follows
    <3>3. QED
      BY <3>2 DEF e, t
  <2>7. CASE d.replacement = None
    <3>1. /\ IsGroupDraft(e) /\ e.error = d.error /\ e.added = d.added \cup m
          /\ e.removed = d.removed /\ e.replacement = d.replacement
      BY <1>b, <2>4, <2>7 DEF IsGroupDraft
    <3>2. d0.replacement = None
      BY <1>a, <2>2, <2>7 DEF Follows, IsGroupDraft
    <3>3. Follows(o.op, d0, e, t)
      BY <2>2, <2>5, <2>7, <3>1, <3>2 DEF Follows
    <3>4. QED
      BY <3>3 DEF e, t
  <2>8. QED
    BY <2>6, <2>7
<1>6. CASE d.error = "none" /\ Removes(o)
  <2>a. PICK m \in SUBSET UserIds : \A x : x.error = "none" =>
          Directory!HandleEntry(x, o) = Directory!ApplyRemove(x, m)
    BY <1>6 DEF Removes
  <2>1. e = Directory!ApplyRemove(d, m) /\ t = Directory!ApplyRemove(s, m)
    BY <1>b, <1>6, <2>a
  <2>2. o.op = "remove" /\ s.added = {}
    BY <1>6 DEF Removes, Follows
  <2>3. /\ d.replacement # None => e = [d EXCEPT !.replacement = @ \ m]
        /\ d.replacement = None => e = [d EXCEPT !.removed = @ \cup m]
        /\ s.replacement # None => t = [s EXCEPT !.replacement = @ \ m]
        /\ s.replacement = None => t = [s EXCEPT !.removed = @ \cup m]
    BY <2>1 DEF Directory!ApplyRemove
  <2> HIDE DEF e, t
  <2>4. /\ IsGroupDraft(e) /\ e.error = d.error /\ e.added = d.added
        /\ d.replacement # None => e.removed = d.removed /\ e.replacement = d.replacement \ m
        /\ d.replacement = None => e.removed = d.removed \cup m /\ e.replacement = None
    BY <1>b, <2>3 DEF IsGroupDraft
  <2>5. /\ IsGroupDraft(t) /\ t.error = s.error /\ t.added = s.added
        /\ s.replacement # None => t.removed = s.removed /\ t.replacement = s.replacement \ m
        /\ s.replacement = None => t.removed = s.removed \cup m /\ t.replacement = None
    BY <1>b, <2>3 DEF IsGroupDraft
  <2>6. CASE s.replacement # None
    <3>1. d.replacement = s.replacement /\ t.replacement # None
      BY <1>a, <1>b, <2>5, <2>6 DEF Follows, IsGroupDraft
    <3>2. Follows(o.op, d0, e, t)
      BY <2>2, <2>4, <2>5, <2>6, <3>1 DEF Follows
    <3>3. QED
      BY <3>2 DEF e, t
  <2>7. CASE s.replacement = None /\ d0.replacement # None
    <3>1. d.replacement # None
      BY <1>a, <2>7 DEF Follows, IsGroupDraft
    <3>2. Follows(o.op, d0, e, t)
      BY <2>2, <2>4, <2>5, <2>7, <3>1 DEF Follows
    <3>3. QED
      BY <3>2 DEF e, t
  <2>8. CASE s.replacement = None /\ d0.replacement = None
    <3>1. Follows(o.op, d0, e, t)
      BY <2>2, <2>4, <2>5, <2>8 DEF Follows
    <3>2. QED
      BY <3>1 DEF e, t
  <2>9. QED
    BY <2>6, <2>7, <2>8
<1>7. QED
  BY <1>1, <1>2, <1>3, <1>4, <1>5, <1>6, EntriesMove

(* An operation that is not refused outright is a run of entries. *)
LEMMA OperationsFollow ==
  ASSUME Directory!ScimAssumption, NEW o, Directory!IsJsonTwice(o.value),
         Directory!SpeaksOfIds(o.path, o.value),
         Directory!IsObject(o.value) =>
           \A e \in Directory!Range(o.value[2]) : Directory!SpeaksOfIds(e[1], e[2]),
         NEW d, IsGroupDraft(d), d.error = "none"
  PROVE  LET e == Directory!HandleGroup(d, o)
             s == Directory!HandleGroup(Directory!GroupBegun, o)
         IN e.error = "none" => \E op : Follows(op, d, e, s)
<1> DEFINE begun == Directory!GroupBegun
           e == Directory!HandleGroup(d, o)
           s == Directory!HandleGroup(begun, o)
<1>1. IsGroupDraft(begun) /\ begun.error = "none"
  BY DEF Directory!GroupBegun, IsGroupDraft
<1>2. Follows(o.op, d, d, begun)
  BY <1>1 DEF Follows, Directory!GroupBegun, IsGroupDraft
<1>3. CASE o.op \notin {"add", "replace", "remove"}
  <2>1. e = [d EXCEPT !.error = "invalidPath"]
    BY <1>3 DEF Directory!HandleGroup, Directory!Fails
  <2>2. e.error # "none"
    BY <2>1 DEF IsGroupDraft
  <2>3. QED
    BY <2>2
<1>4. CASE o.op \in {"add", "replace", "remove"} /\ o.path # Directory!NoPath
  <2>1. e = Directory!HandleEntry(d, o) /\ s = Directory!HandleEntry(begun, o)
    BY <1>1, <1>4 DEF Directory!HandleGroup, Directory!HandleEntry
  <2>2. QED
    BY <1>2, <1>4, <2>1, EntriesFollow
<1>5. CASE /\ o.op \in {"add", "replace", "remove"} /\ o.path = Directory!NoPath
           /\ ~Directory!IsObject(o.value)
  <2>1. e = [d EXCEPT !.error = "invalidPath"]
    BY <1>5 DEF Directory!HandleGroup, Directory!Fails
  <2>2. e.error # "none"
    BY <2>1 DEF IsGroupDraft
  <2>3. QED
    BY <2>2
<1>6. CASE /\ o.op \in {"add", "replace", "remove"} /\ o.path = Directory!NoPath
           /\ Directory!IsObject(o.value)
  <2> DEFINE w == Directory!Spread(o)
             n == Len(w)
             entries == o.value[2]
  <2>1. /\ Directory!IsList(w) /\ n \in Nat
        /\ \A i \in 1 .. n : w[i] = [op |-> o.op, path |-> entries[i][1], value |-> entries[i][2]]
        /\ \A i \in 1 .. n : entries[i] \in Directory!Range(entries)
    <3>1. Directory!IsList(entries)
      BY <1>6 DEF Directory!IsJsonTwice
    <3>2. QED
      BY <3>1, SpreadLists, ListsRun
  <2>2. ASSUME NEW i \in 1 .. n
        PROVE  /\ w[i].op = o.op /\ w[i].op \in {"add", "replace", "remove"}
               /\ Directory!SpeaksOfIds(w[i].path, w[i].value)
    <3>1. Directory!SpeaksOfIds(entries[i][1], entries[i][2])
      <4>1. \A k \in Directory!Range(entries) : Directory!SpeaksOfIds(k[1], k[2])
        BY <1>6
      <4>2. entries[i] \in Directory!Range(entries)
        BY <2>1
      <4> HIDE DEF entries
      <4>3. QED
        BY <4>1, <4>2
    <3>2. w[i] = [op |-> o.op, path |-> entries[i][1], value |-> entries[i][2]]
      BY <2>1
    <3> HIDE DEF w, entries
    <3>3. w[i].op = o.op /\ w[i].path = entries[i][1] /\ w[i].value = entries[i][2]
      BY <3>2
    <3>4. QED
      BY <1>6, <3>1, <3>3
  <2> HIDE DEF w, entries
  <2>3. PICK f : EntryFold!Runs(f, d, w) /\ e = f[n]
    BY <1>6, <2>1, EntriesRun DEF w
  <2>4. PICK g : EntryFold!Runs(g, begun, w) /\ s = g[n]
    BY <1>1, <1>6, <2>1, EntriesRun DEF w
  <2> DEFINE S == {i \in 0 .. n : Follows(o.op, d, f[i], g[i])}
  <2>5. 0 \in S
    BY <1>2, <2>1, <2>3, <2>4 DEF EntryFold!Runs
  <2>6. ASSUME NEW i \in 0 .. n - 1, i \in S PROVE i + 1 \in S
    <3>1. i + 1 \in 1 .. n /\ i + 1 - 1 = i
      BY <2>1
    <3>2. /\ f[i + 1] = Directory!HandleEntry(f[i], w[i + 1])
          /\ g[i + 1] = Directory!HandleEntry(g[i], w[i + 1])
      BY <2>3, <2>4, <3>1 DEF EntryFold!Runs
    <3>3. Follows(w[i + 1].op, d, f[i], g[i])
      BY <2>2, <2>6, <3>1
    <3> DEFINE x == w[i + 1]
    <3>4. x.op = o.op /\ x.op \in {"add", "replace", "remove"}
          /\ Directory!SpeaksOfIds(x.path, x.value)
      BY <2>2, <3>1
    <3> HIDE DEF x
    <3>5. Follows(x.op, d, Directory!HandleEntry(f[i], x), Directory!HandleEntry(g[i], x))
      BY <3>3, <3>4, EntriesFollow DEF x
    <3>6. QED
      BY <2>1, <3>1, <3>2, <3>4, <3>5 DEF x
  <2>7. n \in S
    <3> HIDE DEF S
    <3>1. 0 .. n \subseteq S
      BY <2>1, <2>5, <2>6, EntryFold!Climbing
    <3>2. QED
      BY <2>1, <3>1
  <2>8. QED
    BY <2>3, <2>4, <2>7
<1>7. QED
  BY <1>3, <1>4, <1>5, <1>6

(* The membership that a draft stands for. *)
Means(d, before, members) ==
  IF d.replacement # None THEN members = d.replacement
  ELSE d.added \cap d.removed = {} => members = (before \cup d.added) \ d.removed

LEMMA FollowingMeans ==
  ASSUME Directory!ScimAssumption, NEW op, NEW d, IsGroupDraft(d), NEW e, NEW s,
         Follows(op, d, e, s), NEW before, NEW members, Means(d, before, members)
  PROVE  Means(e, before, IF s.replacement # None THEN s.replacement
                          ELSE (members \cup s.added) \ s.removed)
<1>a. \A m \in SUBSET UserIds : m # None
  BY DEF Directory!ScimAssumption
<1>1. CASE s.replacement # None
  BY <1>1 DEF Follows, Means
<1>2. CASE s.replacement = None /\ d.replacement # None
  BY <1>a, <1>2 DEF Follows, Means, IsGroupDraft
<1>3. CASE s.replacement = None /\ d.replacement = None
  BY <1>3 DEF Follows, Means, IsGroupDraft
<1>4. QED
  BY <1>1, <1>2, <1>3

(* What an operation sent by itself makes of a membership. *)
LEMMA AloneAfter ==
  ASSUME Directory!ScimAssumption, NEW o, NEW members,
         LET s == Directory!HandleGroup(Directory!GroupBegun, o) IN IsGroupDraft(s)
  PROVE  LET s == Directory!HandleGroup(Directory!GroupBegun, o)
         IN Directory!MembersAfter(members, o) =
              IF s.replacement # None THEN s.replacement
              ELSE (members \cup s.added) \ s.removed
<1> DEFINE s == Directory!HandleGroup(Directory!GroupBegun, o)
           Delta(x) == IF s.replacement # None \/ x = {} THEN None ELSE x
           p == [fields |-> s.fields, members |-> s.replacement,
                 add |-> Delta(s.added), remove |-> Delta(s.removed)]
<1>a. \A m \in SUBSET UserIds : m # None
  BY DEF Directory!ScimAssumption
<1>1. Directory!GroupDrafted(<<o>>) = s
  <2>1. PICK f : /\ GroupFold!Runs(f, Directory!GroupBegun, <<o>>)
                 /\ Directory!GroupDrafted(<<o>>) = f[Len(<<o>>)]
    BY SingleLists, GroupRuns
  <2>2. f[1] = s /\ Directory!GroupDrafted(<<o>>) = f[1]
    BY <2>1, SingleLists DEF GroupFold!Runs
  <2>3. QED
    BY <2>2
<1>2. Directory!NormalizeGroupPatch(<<o>>).patch = p
  <2> DEFINE q == Directory!NormalizeGroupPatch(<<o>>)
  <2>1. \E x : q = [error |-> x, patch |-> p]
    BY <1>1 DEF Directory!NormalizeGroupPatch
  <2>2. QED
    BY <2>1
<1> HIDE DEF s
<1>3. /\ p.members = s.replacement
      /\ s.replacement = None => /\ Directory!OrNoMembers(p.add) = s.added
                                 /\ Directory!OrNoMembers(p.remove) = s.removed
  BY <1>a DEF IsGroupDraft, Directory!OrNoMembers, s
<1> HIDE DEF p
<1>4. QED
  BY <1>2, <1>3 DEF Directory!MembersAfter, s

(* A patch that is accepted stands for its operations, one by one.         *)
LEMMA GroupDraftsMean ==
  ASSUME Directory!ScimAssumption, NEW ops, Directory!IsPatchOp(ops),
         Directory!IsGroupPatch(ops), NEW group,
         Directory!GroupDrafted(ops).error = "none"
  PROVE  LET d == Directory!GroupDrafted(ops)
         IN IsGroupDraft(d) /\ Means(d, group.members, Directory!Members(ops, group))
<1> DEFINE n == Len(ops)
<1>1. /\ Directory!IsList(ops) /\ n \in Nat
      /\ \A i \in 1 .. n : ops[i] \in Directory!Range(ops)
  BY ListsRun DEF Directory!IsPatchOp, Directory!Range
<1>2. \A o \in Directory!Range(ops) :
        /\ Directory!IsJsonTwice(o.value) /\ Directory!SpeaksOfIds(o.path, o.value)
        /\ Directory!IsObject(o.value) =>
             \A e \in Directory!Range(o.value[2]) : Directory!SpeaksOfIds(e[1], e[2])
  BY DEF Directory!IsPatchOp, Directory!IsGroupPatch
<1>3. PICK f : /\ GroupFold!Runs(f, Directory!GroupBegun, ops)
               /\ Directory!GroupDrafted(ops) = f[n]
  BY <1>1, GroupRuns
<1>4. PICK g : /\ MembersFold!Runs(g, group.members, ops)
               /\ Directory!Members(ops, group) = g[n]
  BY <1>1, MembersRun
<1> DEFINE S == {i \in 0 .. n : f[i].error = "none" =>
                   IsGroupDraft(f[i]) /\ Means(f[i], group.members, g[i])}
<1>5. 0 \in S
  <2>1. f[0] = Directory!GroupBegun /\ g[0] = group.members
    BY <1>3, <1>4 DEF GroupFold!Runs, MembersFold!Runs
  <2>2. IsGroupDraft(f[0]) /\ Means(f[0], group.members, g[0])
    BY <2>1 DEF Directory!GroupBegun, IsGroupDraft, Means
  <2>3. QED
    BY <1>1, <2>2
<1>6. ASSUME NEW i \in 0 .. n - 1, i \in S PROVE i + 1 \in S
  <2> DEFINE o == ops[i + 1]
             s == Directory!HandleGroup(Directory!GroupBegun, o)
  <2>1. i + 1 \in 1 .. n /\ i + 1 - 1 = i /\ o \in Directory!Range(ops)
    BY <1>1
  <2>2. f[i + 1] = Directory!HandleGroup(f[i], o) /\ g[i + 1] = Directory!MembersAfter(g[i], o)
    BY <1>3, <1>4, <2>1 DEF GroupFold!Runs, MembersFold!Runs
  <2> HIDE DEF o
  <2>3. SUFFICES ASSUME f[i + 1].error = "none"
                 PROVE  IsGroupDraft(f[i + 1]) /\ Means(f[i + 1], group.members, g[i + 1])
    BY <1>1, <2>1
  <2>4. f[i].error = "none"
    BY <2>2, <2>3 DEF Directory!HandleGroup
  <2>5. IsGroupDraft(f[i]) /\ Means(f[i], group.members, g[i])
    BY <1>6, <2>4
  <2>6. PICK op : Follows(op, f[i], f[i + 1], s)
    BY <1>2, <2>1, <2>2, <2>3, <2>4, <2>5, OperationsFollow
  <2>7. IsGroupDraft(s) /\ IsGroupDraft(f[i + 1])
    BY <2>6 DEF Follows
  <2>8. g[i + 1] = IF s.replacement # None THEN s.replacement
                   ELSE (g[i] \cup s.added) \ s.removed
    BY <2>2, <2>7, AloneAfter
  <2> HIDE DEF s
  <2>9. Means(f[i + 1], group.members, g[i + 1])
    <3> DEFINE d == f[i]
               e == f[i + 1]
               m == g[i]
               x == g[i + 1]
    <3>1. /\ IsGroupDraft(d) /\ Means(d, group.members, m) /\ Follows(op, d, e, s)
          /\ x = IF s.replacement # None THEN s.replacement
                 ELSE (m \cup s.added) \ s.removed
      BY <2>5, <2>6, <2>8
    <3> HIDE DEF d, e, m, x
    <3>2. Means(e, group.members, x)
      BY <3>1, FollowingMeans
    <3>3. QED
      BY <3>2 DEF e, x
  <2>10. QED
    BY <2>7, <2>9
<1>7. n \in S
  <2> HIDE DEF S
  <2>1. 0 .. n \subseteq S
    BY <1>1, <1>5, <1>6, GroupFold!Climbing
  <2>2. QED
    BY <1>1, <2>1
<1>8. QED
  BY <1>3, <1>4, <1>7

LEMMA GroupPatchesMean ==
  ASSUME Directory!ScimAssumption, NEW ops, Directory!IsPatchOp(ops),
         Directory!IsGroupPatch(ops), NEW group,
         Directory!NormalizeGroupPatch(ops).error = "none"
  PROVE  LET p == Directory!NormalizeGroupPatch(ops).patch
         IN \/ Directory!OrNoMembers(p.add) \cap Directory!OrNoMembers(p.remove) # {}
            \/ Directory!PatchedMembers(group.members, p) = Directory!Members(ops, group)
<1> DEFINE d == Directory!GroupDrafted(ops)
           m == Directory!Members(ops, group)
           Delta(x) == IF d.replacement # None \/ x = {} THEN None ELSE x
           p == [fields |-> d.fields, members |-> d.replacement,
                 add |-> Delta(d.added), remove |-> Delta(d.removed)]
<1>a. \A s \in SUBSET UserIds : s # None
  BY DEF Directory!ScimAssumption
<1>1. Directory!NormalizeGroupPatch(ops).patch = p /\ d.error = "none"
  <2> DEFINE q == Directory!NormalizeGroupPatch(ops)
             nothing == /\ p.fields = <<>> /\ p.members = None
                        /\ p.add = None /\ p.remove = None
  <2>1. q = IF ops = <<>> THEN [error |-> "invalidSyntax", patch |-> p]
            ELSE IF d.error # "none" THEN [error |-> d.error, patch |-> p]
            ELSE IF nothing THEN [error |-> "nothing", patch |-> p]
            ELSE [error |-> "none", patch |-> p]
    BY DEF Directory!NormalizeGroupPatch
  <2>2. q.error = "none"
    OBVIOUS
  <2> HIDE DEF p, d, q, nothing
  <2>3. q.patch = p /\ d.error = "none"
    BY <2>1, <2>2
  <2>4. QED
    BY <2>3 DEF q
<1>2. IsGroupDraft(d) /\ Means(d, group.members, m)
  BY <1>1, GroupDraftsMean
<1> HIDE DEF d, m
<1>3. /\ p.members = d.replacement
      /\ d.replacement = None => /\ Directory!OrNoMembers(p.add) = d.added
                                 /\ Directory!OrNoMembers(p.remove) = d.removed
  BY <1>a, <1>2 DEF IsGroupDraft, Directory!OrNoMembers
<1> HIDE DEF p
<1>4. CASE d.replacement # None
  BY <1>1, <1>2, <1>3, <1>4 DEF Means, Directory!PatchedMembers, m
<1>5. CASE d.replacement = None
  BY <1>1, <1>2, <1>3, <1>5 DEF Means, Directory!PatchedMembers, m
<1>6. QED
  BY <1>4, <1>5

(* The folds over the operations of a user patch, over the keys of the     *)
(* extension's object, and over the operations sent one by one.            *)
OperationFold == INSTANCE Folding WITH Op <- Directory!ApplyOperation
SpreadFold == INSTANCE Folding WITH Op <- Directory!ApplyEntry
EnterpriseFold == INSTANCE Folding WITH Op <- Directory!EnterpriseEntry
AloneFold == INSTANCE Folding WITH Op <- Directory!Alone

LEMMA OperationsRun ==
  ASSUME NEW user, NEW ops, Directory!IsList(ops)
  PROVE  \E f : /\ OperationFold!Runs(f, Directory!Begun(user), ops)
                /\ Directory!Drafted(ops, user) = f[Len(ops)]
<1>1. PICK f : /\ OperationFold!Runs(f, Directory!Begun(user), ops)
               /\ OperationFold!FoldLeft(Directory!ApplyOperation, Directory!Begun(user), ops)
                    = f[Len(ops)]
  BY ListsRun, OperationFold!FoldsRun
<1>2. QED
  BY <1>1 DEF Directory!Drafted, Directory!FoldLeft, OperationFold!FoldLeft,
    Directory!MapThenFoldSet, OperationFold!MapThenFoldSet, Directory!Max,
    OperationFold!Max

LEMMA OneByOneRuns ==
  ASSUME NEW user, NEW ops, Directory!IsList(ops)
  PROVE  \E f : /\ AloneFold!Runs(f, user, ops)
                /\ Directory!OneByOne(ops, user) = f[Len(ops)]
<1>1. PICK f : /\ AloneFold!Runs(f, user, ops)
               /\ AloneFold!FoldLeft(Directory!Alone, user, ops) = f[Len(ops)]
  BY ListsRun, AloneFold!FoldsRun
<1>2. QED
  BY <1>1 DEF Directory!OneByOne, Directory!FoldLeft, AloneFold!FoldLeft,
    Directory!MapThenFoldSet, AloneFold!MapThenFoldSet, Directory!Max, AloneFold!Max

LEMMA KeysRun ==
  ASSUME NEW draft, NEW path, NEW v, path.sub = "", Directory!IsObject(v),
         Directory!IsList(v[2])
  PROVE  \E f : /\ EnterpriseFold!Runs(f, draft, v[2])
                /\ Directory!ApplyEnterprise(draft, FALSE, path, v) = f[Len(v[2])]
<1>1. PICK f : /\ EnterpriseFold!Runs(f, draft, v[2])
               /\ EnterpriseFold!FoldLeft(Directory!EnterpriseEntry, draft, v[2])
                    = f[Len(v[2])]
  BY ListsRun, EnterpriseFold!FoldsRun
<1>2. Directory!ApplyEnterprise(draft, FALSE, path, v)
        = Directory!FoldLeft(Directory!EnterpriseEntry, draft, v[2])
  BY DEF Directory!ApplyEnterprise
<1>3. QED
  BY <1>1, <1>2 DEF Directory!FoldLeft, EnterpriseFold!FoldLeft,
    Directory!MapThenFoldSet, EnterpriseFold!MapThenFoldSet, Directory!Max,
    EnterpriseFold!Max

LEMMA SpreadRuns ==
  ASSUME NEW draft, NEW o, Directory!IsList(Directory!Spread(o)),
         draft.error = "none", o.op \in {"add", "replace"},
         o.path = Directory!NoPath, Directory!IsObject(o.value)
  PROVE  \E f : /\ SpreadFold!Runs(f, draft, Directory!Spread(o))
                /\ Directory!ApplyOperation(draft, o) = f[Len(Directory!Spread(o))]
<1> DEFINE s == Directory!Spread(o)
<1>1. PICK f : /\ SpreadFold!Runs(f, draft, s)
               /\ SpreadFold!FoldLeft(Directory!ApplyEntry, draft, s) = f[Len(s)]
  BY ListsRun, SpreadFold!FoldsRun
<1>2. Directory!ApplyOperation(draft, o) = Directory!FoldLeft(Directory!ApplyEntry, draft, s)
  BY DEF Directory!ApplyOperation
<1> HIDE DEF s
<1>3. Directory!ApplyOperation(draft, o) = f[Len(s)]
  BY <1>1, <1>2 DEF Directory!FoldLeft, SpreadFold!FoldLeft,
    Directory!MapThenFoldSet, SpreadFold!MapThenFoldSet, Directory!Max, SpreadFold!Max
<1>4. QED
  BY <1>1, <1>3 DEF s

(* A draft, and what it makes of an attribute of the record it began with. *)
Copied == {"name", "emails", "enterprise"}
IsDraft(d) ==
  d \in [patch : {d.patch}, name : {d.name}, emails : {d.emails},
         enterprise : {d.enterprise}, error : {d.error}]
Value(d, user, a) == IF a \in DOMAIN d.patch THEN d.patch[a] ELSE user[a]
Settled(a, d, user) ==
  a \in Copied => Directory!OrEmpty(d[a]) = Directory!OrEmpty(Value(d, user, a))

(* Two drafts, of patches of two records, that agree about an attribute;   *)
(* the first has set it only if an operation named it.                     *)
Agree(a, named, d, user, e, other) ==
  /\ IsDraft(d) /\ IsDraft(e) /\ d.error = e.error
  /\ ~named => a \notin DOMAIN d.patch
  /\ Settled(a, d, user) /\ Settled(a, e, other)
  /\ Value(d, user, a) = Value(e, other, a)

(* How a draft is changed: one attribute is set, and its copy with it.     *)
Changed(x, d, after, v, copy) ==
  /\ IsDraft(after) /\ after.error = d.error
  /\ after.patch = Directory!With(d.patch, x, v)
  /\ \A c \in Copied : after[c] = IF c = x THEN copy ELSE d[c]
  /\ x \in Copied => Directory!OrEmpty(copy) = Directory!OrEmpty(v)

(* Two drafts that are changed alike: a copy depends on nothing but the    *)
(* copy it is made from.                                                   *)
ChangedAlike(x, d, dAfter, e, eAfter) ==
  \E v, copy, w, other :
    /\ Changed(x, d, dAfter, v, copy) /\ Changed(x, e, eAfter, w, other)
    /\ (x \in Copied => Directory!OrEmpty(d[x]) = Directory!OrEmpty(e[x])) => v = w

Alike(x, d, dAfter, e, eAfter) ==
  \/ dAfter = d /\ eAfter = e
  \/ \E t : t # "none" /\ dAfter = Directory!Fails(d, t) /\ eAfter = Directory!Fails(e, t)
  \/ ChangedAlike(x, d, dAfter, e, eAfter)

LEMMA AlikeAgree ==
  ASSUME NEW x, NEW a, NEW named \in BOOLEAN, x = a => named,
         NEW d, NEW user, NEW e, NEW other, Agree(a, named, d, user, e, other),
         NEW dAfter, NEW eAfter, Alike(x, d, dAfter, e, eAfter)
  PROVE  Agree(a, named, dAfter, user, eAfter, other)
<1>1. CASE dAfter = d /\ eAfter = e
  BY <1>1
<1>2. CASE \E t : dAfter = Directory!Fails(d, t) /\ eAfter = Directory!Fails(e, t)
  <2>1. PICK t : dAfter = [d EXCEPT !.error = t] /\ eAfter = [e EXCEPT !.error = t]
    BY <1>2 DEF Directory!Fails
  <2>2. /\ IsDraft(dAfter) /\ dAfter.error = t /\ dAfter.patch = d.patch
        /\ dAfter["name"] = d["name"] /\ dAfter["emails"] = d["emails"]
        /\ dAfter["enterprise"] = d["enterprise"]
    BY <2>1 DEF Agree, IsDraft
  <2>3. /\ IsDraft(eAfter) /\ eAfter.error = t /\ eAfter.patch = e.patch
        /\ eAfter["name"] = e["name"] /\ eAfter["emails"] = e["emails"]
        /\ eAfter["enterprise"] = e["enterprise"]
    BY <2>1 DEF Agree, IsDraft
  <2>4. a \in Copied => dAfter[a] = d[a] /\ eAfter[a] = e[a]
    BY <2>2, <2>3 DEF Copied
  <2>5. QED
    BY <2>2, <2>3, <2>4 DEF Agree, Settled, Value
<1>3. CASE ChangedAlike(x, d, dAfter, e, eAfter)
  <2>1. PICK v, copy, w, copied :
          /\ Changed(x, d, dAfter, v, copy) /\ Changed(x, e, eAfter, w, copied)
          /\ (x \in Copied => Directory!OrEmpty(d[x]) = Directory!OrEmpty(e[x])) => v = w
    BY <1>3 DEF ChangedAlike
  <2>a. /\ DOMAIN dAfter.patch = DOMAIN d.patch \cup {x} /\ dAfter.patch[x] = v
        /\ \A y \in DOMAIN d.patch \ {x} : dAfter.patch[y] = d.patch[y]
    <3>1. dAfter.patch = Directory!With(d.patch, x, v)
      BY <2>1 DEF Changed
    <3>2. QED
      BY <3>1 DEF Directory!With
  <2>b. /\ DOMAIN eAfter.patch = DOMAIN e.patch \cup {x} /\ eAfter.patch[x] = w
        /\ \A y \in DOMAIN e.patch \ {x} : eAfter.patch[y] = e.patch[y]
    <3>1. eAfter.patch = Directory!With(e.patch, x, w)
      BY <2>1 DEF Changed
    <3>2. QED
      BY <3>1 DEF Directory!With
  <2>2. /\ IsDraft(dAfter) /\ IsDraft(eAfter) /\ dAfter.error = eAfter.error
        /\ ~named => a \notin DOMAIN dAfter.patch
    BY <2>1, <2>a DEF Changed, Agree
  <2>3. CASE a = x
    <3>1. Value(dAfter, user, a) = v /\ Value(eAfter, other, a) = w
      BY <2>3, <2>a, <2>b DEF Value
    <3>2. v = w
      BY <2>1, <2>3 DEF Agree, Settled
    <3>3. a \in Copied => dAfter[a] = copy /\ eAfter[a] = copied
      BY <2>1, <2>3 DEF Changed
    <3>4. QED
      BY <2>1, <2>2, <2>3, <3>1, <3>2, <3>3 DEF Agree, Settled, Changed
  <2>4. CASE a # x
    <3>1. /\ Value(dAfter, user, a) = Value(d, user, a)
          /\ Value(eAfter, other, a) = Value(e, other, a)
      BY <2>4, <2>a, <2>b DEF Value
    <3>2. a \in Copied => dAfter[a] = d[a] /\ eAfter[a] = e[a]
      BY <2>1, <2>4 DEF Changed
    <3>3. QED
      BY <2>2, <3>1, <3>2 DEF Agree, Settled
  <2>5. QED
    BY <2>3, <2>4
<1>4. QED
  BY <1>1, <1>2, <1>3 DEF Alike

LEMMA SettingChanges ==
  ASSUME NEW d, IsDraft(d), NEW v
  PROVE  /\ \A x : x \notin Copied => Changed(x, d, Directory!Sets(d, x, v), v, v)
         /\ \A list : Directory!OrEmpty(list) = Directory!OrEmpty(v) =>
              Changed("emails", d, Directory!SetsEmails(d, list, v), v, list)
         /\ \A name : Directory!OrEmpty(name) = Directory!OrEmpty(v) =>
              Changed("name", d, Directory!SetsName(d, name, v), v, name)
         /\ Changed("enterprise", d, Directory!SetsEnterprise(d, v), v, v)
<1>1. ASSUME NEW x
      PROVE  LET after == Directory!Sets(d, x, v)
             IN /\ IsDraft(after) /\ after.error = d.error
                /\ after.patch = Directory!With(d.patch, x, v)
                /\ after["name"] = d["name"] /\ after["emails"] = d["emails"]
                /\ after["enterprise"] = d["enterprise"]
  <2> DEFINE p == Directory!With(d.patch, x, v)
             after == [d EXCEPT !.patch = p]
  <2>1. Directory!Sets(d, x, v) = after
    BY DEF Directory!Sets
  <2> HIDE DEF p
  <2>2. /\ IsDraft(after) /\ after.error = d.error /\ after.patch = p
        /\ after["name"] = d["name"] /\ after["emails"] = d["emails"]
        /\ after["enterprise"] = d["enterprise"]
    BY DEF IsDraft
  <2>3. QED
    BY <2>1, <2>2 DEF p
<1>2. ASSUME NEW x, x \notin Copied PROVE Changed(x, d, Directory!Sets(d, x, v), v, v)
  BY <1>1, <1>2 DEF Changed, Copied
<1>3. ASSUME NEW list, Directory!OrEmpty(list) = Directory!OrEmpty(v)
      PROVE  Changed("emails", d, Directory!SetsEmails(d, list, v), v, list)
  <2> DEFINE set == Directory!Sets(d, "emails", v)
             after == [set EXCEPT !.emails = list]
  <2>1. Directory!SetsEmails(d, list, v) = after
    BY DEF Directory!SetsEmails
  <2>2. /\ IsDraft(set) /\ set.error = d.error
        /\ set.patch = Directory!With(d.patch, "emails", v)
        /\ set["name"] = d["name"] /\ set["enterprise"] = d["enterprise"]
    BY <1>1
  <2> HIDE DEF set
  <2>3. /\ IsDraft(after) /\ after.error = set.error /\ after.patch = set.patch
        /\ after["name"] = set["name"] /\ after["emails"] = list
        /\ after["enterprise"] = set["enterprise"]
    BY <2>2 DEF IsDraft
  <2> HIDE DEF after
  <2>4. Changed("emails", d, after, v, list)
    BY <1>3, <2>2, <2>3 DEF Changed, Copied
  <2>5. QED
    BY <2>1, <2>4
<1>4. ASSUME NEW name, Directory!OrEmpty(name) = Directory!OrEmpty(v)
      PROVE  Changed("name", d, Directory!SetsName(d, name, v), v, name)
  <2> DEFINE set == Directory!Sets(d, "name", v)
             after == [set EXCEPT !.name = name]
  <2>1. Directory!SetsName(d, name, v) = after
    BY DEF Directory!SetsName
  <2>2. /\ IsDraft(set) /\ set.error = d.error
        /\ set.patch = Directory!With(d.patch, "name", v)
        /\ set["emails"] = d["emails"] /\ set["enterprise"] = d["enterprise"]
    BY <1>1
  <2> HIDE DEF set
  <2>3. /\ IsDraft(after) /\ after.error = set.error /\ after.patch = set.patch
        /\ after["name"] = name /\ after["emails"] = set["emails"]
        /\ after["enterprise"] = set["enterprise"]
    BY <2>2 DEF IsDraft
  <2> HIDE DEF after
  <2>4. Changed("name", d, after, v, name)
    BY <1>4, <2>2, <2>3 DEF Changed, Copied
  <2>5. QED
    BY <2>1, <2>4
<1>5. Changed("enterprise", d, Directory!SetsEnterprise(d, v), v, v)
  <2> DEFINE set == Directory!Sets(d, "enterprise", v)
             after == [set EXCEPT !.enterprise = v]
  <2>1. Directory!SetsEnterprise(d, v) = after
    BY DEF Directory!SetsEnterprise
  <2>2. /\ IsDraft(set) /\ set.error = d.error
        /\ set.patch = Directory!With(d.patch, "enterprise", v)
        /\ set["emails"] = d["emails"] /\ set["name"] = d["name"]
    BY <1>1
  <2> HIDE DEF set
  <2>3. /\ IsDraft(after) /\ after.error = set.error /\ after.patch = set.patch
        /\ after["name"] = set["name"] /\ after["emails"] = set["emails"]
        /\ after["enterprise"] = v
    BY <2>2 DEF IsDraft
  <2> HIDE DEF after
  <2>4. Changed("enterprise", d, after, v, v)
    BY <2>2, <2>3 DEF Changed, Copied
  <2>5. QED
    BY <2>1, <2>4
<1>6. QED
  BY <1>2, <1>3, <1>4, <1>5

LEMMA EmptyIsNone ==
  ASSUME NEW x
  PROVE  Directory!OrEmpty(Directory!OrNone(x)) = Directory!OrEmpty(x)
BY DEF Directory!OrEmpty, Directory!OrNone

(* The operations at one attribute move all drafts alike.                  *)
LEMMA ExtensionsAlike ==
  ASSUME NEW d, IsDraft(d), NEW e, IsDraft(e), NEW removing \in BOOLEAN, NEW sub, NEW v
  PROVE  Alike("enterprise", d, Directory!EnterpriseSub(d, removing, sub, v),
                             e, Directory!EnterpriseSub(e, removing, sub, v))
<1> DEFINE w == IF sub = "manager" THEN IF Directory!IsText(v) THEN v[2] ELSE "" ELSE v[2]
           To(x) == IF removing THEN Directory!Without(x, sub) ELSE Directory!With(x, sub, w)
           E(x) == Directory!OrEmpty(x.enterprise)
<1>1. CASE sub \notin Directory!EnterpriseSubs
  BY <1>1 DEF Directory!EnterpriseSub, Alike
<1>2. CASE /\ sub \in Directory!EnterpriseSubs /\ ~removing
           /\ sub # "manager" /\ ~Directory!IsText(v)
  <2>1. \A x : Directory!EnterpriseSub(x, removing, sub, v) = Directory!Fails(x, "invalidValue")
    BY <1>2 DEF Directory!EnterpriseSub
  <2>2. QED
    BY <2>1 DEF Alike
<1>3. CASE /\ sub \in Directory!EnterpriseSubs
           /\ removing \/ sub = "manager" \/ Directory!IsText(v)
  <2>1. \A x : Directory!EnterpriseSub(x, removing, sub, v)
                = Directory!SetsEnterprise(x, To(E(x)))
    BY <1>3 DEF Directory!EnterpriseSub
  <2> HIDE DEF w, To
  <2>2. /\ Changed("enterprise", d, Directory!SetsEnterprise(d, To(E(d))), To(E(d)), To(E(d)))
        /\ Changed("enterprise", e, Directory!SetsEnterprise(e, To(E(e))), To(E(e)), To(E(e)))
    BY SettingChanges
  <2>3. E(d) = E(e) => To(E(d)) = To(E(e))
    OBVIOUS
  <2>4. ChangedAlike("enterprise", d, Directory!EnterpriseSub(d, removing, sub, v),
                                   e, Directory!EnterpriseSub(e, removing, sub, v))
    BY <2>1, <2>2, <2>3 DEF ChangedAlike, Copied
  <2>5. QED
    BY <2>4 DEF Alike
<1>4. QED
  BY <1>1, <1>2, <1>3

LEMMA EmailsAlike ==
  ASSUME NEW d, IsDraft(d), NEW e, IsDraft(e), NEW l, NEW v, NEW m, NEW w,
         Directory!OrEmpty(l) = Directory!OrEmpty(v),
         Directory!OrEmpty(m) = Directory!OrEmpty(w),
         Directory!OrEmpty(d.emails) = Directory!OrEmpty(e.emails) => v = w
  PROVE  Alike("emails", d, Directory!SetsEmails(d, l, v), e, Directory!SetsEmails(e, m, w))
<1>1. /\ Changed("emails", d, Directory!SetsEmails(d, l, v), v, l)
      /\ Changed("emails", e, Directory!SetsEmails(e, m, w), w, m)
  BY SettingChanges
<1>2. ChangedAlike("emails", d, Directory!SetsEmails(d, l, v), e, Directory!SetsEmails(e, m, w))
  BY <1>1 DEF ChangedAlike, Copied
<1>3. QED
  BY <1>2 DEF Alike

LEMMA NamesAlike ==
  ASSUME NEW d, IsDraft(d), NEW e, IsDraft(e), NEW l, NEW v, NEW m, NEW w,
         Directory!OrEmpty(l) = Directory!OrEmpty(v),
         Directory!OrEmpty(m) = Directory!OrEmpty(w),
         Directory!OrEmpty(d.name) = Directory!OrEmpty(e.name) => v = w
  PROVE  Alike("name", d, Directory!SetsName(d, l, v), e, Directory!SetsName(e, m, w))
<1>1. /\ Changed("name", d, Directory!SetsName(d, l, v), v, l)
      /\ Changed("name", e, Directory!SetsName(e, m, w), w, m)
  BY SettingChanges
<1>2. ChangedAlike("name", d, Directory!SetsName(d, l, v), e, Directory!SetsName(e, m, w))
  BY <1>1 DEF ChangedAlike, Copied
<1>3. QED
  BY <1>2 DEF Alike

LEMMA SettersAlike ==
  ASSUME NEW d, IsDraft(d), NEW e, IsDraft(e), NEW x, x \notin Copied, NEW v
  PROVE  Alike(x, d, Directory!Sets(d, x, v), e, Directory!Sets(e, x, v))
BY SettingChanges DEF Alike, ChangedAlike

LEMMA FilteredAlike ==
  ASSUME NEW d, IsDraft(d), NEW e, IsDraft(e), NEW removing \in BOOLEAN, NEW path, NEW v
  PROVE  Alike(path.head, d, Directory!ApplyFiltered(d, removing, path, v),
                          e, Directory!ApplyFiltered(e, removing, path, v))
<1> DEFINE E(x) == Directory!OrEmpty(x.emails)
           Kept(x) == Directory!OfOtherTypes(E(x), path.sub)
           Put(x) == Directory!UpsertByType(E(x), path.sub, v[2])
           After(x) == Directory!ApplyFiltered(x, removing, path, v)
<1>1. CASE path.head # "emails"
  BY <1>1 DEF Directory!ApplyFiltered, Alike
<1>2. CASE path.head = "emails" /\ removing
  <2>1. \A x : After(x) = Directory!SetsEmails(x, Kept(x), Directory!OrNone(Kept(x)))
    BY <1>2 DEF Directory!ApplyFiltered
  <2>2. E(d) = E(e) => Kept(d) = Kept(e)
    OBVIOUS
  <2> HIDE DEF Kept, After
  <2>3. Alike("emails", d, After(d), e, After(e))
    BY <2>1, <2>2, EmailsAlike, EmptyIsNone
  <2>4. QED
    BY <1>2, <2>3 DEF After
<1>3. CASE path.head = "emails" /\ ~removing /\ ~Directory!IsText(v)
  <2>1. \A x : After(x) = Directory!Fails(x, "invalidValue")
    BY <1>3 DEF Directory!ApplyFiltered
  <2>2. QED
    BY <2>1 DEF Alike
<1>4. CASE path.head = "emails" /\ ~removing /\ Directory!IsText(v)
  <2>1. \A x : After(x) = Directory!SetsEmails(x, Put(x), Put(x))
    BY <1>4 DEF Directory!ApplyFiltered
  <2>2. E(d) = E(e) => Put(d) = Put(e)
    OBVIOUS
  <2> HIDE DEF Put, After
  <2>3. Alike("emails", d, After(d), e, After(e))
    BY <2>1, <2>2, EmailsAlike
  <2>4. QED
    BY <1>4, <2>3 DEF After
<1>5. QED
  BY <1>1, <1>2, <1>3, <1>4

LEMMA NamePathsAlike ==
  ASSUME NEW d, IsDraft(d), NEW e, IsDraft(e), NEW op, NEW path, NEW v
  PROVE  Alike("name", d, Directory!ApplyName(d, op, path, v),
                       e, Directory!ApplyName(e, op, path, v))
<1> DEFINE E(x) == Directory!OrEmpty(x.name)
           One(x) == IF op = "remove" THEN Directory!Without(E(x), path.sub)
                     ELSE Directory!With(E(x), path.sub, v[2])
           Whole(x) == Directory!Merged(IF op = "add" THEN E(x) ELSE <<>>, v)
           After(x) == Directory!ApplyName(x, op, path, v)
<1>1. CASE path.sub = "" /\ op = "remove"
  <2>1. \A x : After(x) = Directory!SetsName(x, None, None)
    BY <1>1 DEF Directory!ApplyName, Directory!WholeName
  <2> HIDE DEF After
  <2>2. Alike("name", d, After(d), e, After(e))
    BY <2>1, NamesAlike
  <2>3. QED
    BY <2>2 DEF After
<1>2. CASE path.sub = "" /\ op # "remove" /\ Directory!IsObject(v)
  <2>1. \A x : After(x) = Directory!SetsName(x, Whole(x), Directory!OrNone(Whole(x)))
    BY <1>2 DEF Directory!ApplyName, Directory!WholeName
  <2>2. E(d) = E(e) => Whole(d) = Whole(e)
    OBVIOUS
  <2> HIDE DEF Whole, After
  <2>3. Alike("name", d, After(d), e, After(e))
    BY <2>1, <2>2, NamesAlike, EmptyIsNone
  <2>4. QED
    BY <2>3 DEF After
<1>3. CASE path.sub = "" /\ op # "remove" /\ ~Directory!IsObject(v)
  <2>1. \A x : After(x) = Directory!Fails(x, "invalidPath")
    BY <1>3 DEF Directory!ApplyName, Directory!WholeName
  <2>2. QED
    BY <2>1 DEF Alike
<1>4. CASE path.sub # "" /\ path.sub \notin Directory!NameSubs
  <2>1. \A x : After(x) = Directory!Fails(x, "invalidPath")
    BY <1>4 DEF Directory!ApplyName
  <2>2. QED
    BY <2>1 DEF Alike
<1>5. CASE /\ path.sub # "" /\ path.sub \in Directory!NameSubs
           /\ op # "remove" /\ ~Directory!IsText(v)
  <2>1. \A x : After(x) = Directory!Fails(x, "invalidValue")
    BY <1>5 DEF Directory!ApplyName
  <2>2. QED
    BY <2>1 DEF Alike
<1>6. CASE /\ path.sub # "" /\ path.sub \in Directory!NameSubs
           /\ op = "remove" \/ Directory!IsText(v)
  <2>1. \A x : After(x) = Directory!SetsName(x, One(x), Directory!OrNone(One(x)))
    BY <1>6 DEF Directory!ApplyName
  <2>2. E(d) = E(e) => One(d) = One(e)
    OBVIOUS
  <2> HIDE DEF One, After
  <2>3. Alike("name", d, After(d), e, After(e))
    BY <2>1, <2>2, NamesAlike, EmptyIsNone
  <2>4. QED
    BY <2>3 DEF After
<1>7. QED
  BY <1>1, <1>2, <1>3, <1>4, <1>5, <1>6

LEMMA PlainAlike ==
  ASSUME NEW d, IsDraft(d), NEW e, IsDraft(e), NEW op, NEW path, NEW v
  PROVE  Alike(path.head, d, Directory!ApplyPlain(d, op, path, v),
                          e, Directory!ApplyPlain(e, op, path, v))
<1> DEFINE After(x) == Directory!ApplyPlain(x, op, path, v)
           removing == op = "remove"
           list == Directory!Valued(v[2])
           id == IF removing \/ ~Directory!IsText(v) THEN None ELSE v[2]
           active == Directory!CoerceBoolean(v)
<1>1. CASE path.head = "name"
  BY <1>1, NamePathsAlike DEF Directory!ApplyPlain
<1>2. CASE path.head # "name" /\ path.sub # ""
  BY <1>2 DEF Directory!ApplyPlain, Alike
<1>3. CASE path.sub = "" /\ path.head = "active"
  <2>1. \A x : After(x) = IF removing THEN Directory!Fails(x, "invalidPath")
                          ELSE IF active = None THEN Directory!Fails(x, "invalidValue")
                          ELSE Directory!Sets(x, "active", active)
    BY <1>3 DEF Directory!ApplyPlain
  <2> HIDE DEF After, active
  <2>2. Alike("active", d, Directory!Sets(d, "active", active),
                        e, Directory!Sets(e, "active", active))
    BY SettersAlike DEF Copied
  <2>3. Alike("active", d, After(d), e, After(e))
    BY <2>1, <2>2 DEF Alike
  <2>4. QED
    BY <1>3, <2>3 DEF After
<1>4. CASE path.sub = "" /\ path.head = "userName"
  <2>1. \A x : After(x) = IF removing THEN Directory!Fails(x, "invalidPath")
                          ELSE IF ~Directory!IsText(v) \/ v[2] = ""
                          THEN Directory!Fails(x, "invalidValue")
                          ELSE Directory!Sets(x, "userName", v[2])
    BY <1>4 DEF Directory!ApplyPlain
  <2> HIDE DEF After
  <2>2. Alike("userName", d, Directory!Sets(d, "userName", v[2]),
                          e, Directory!Sets(e, "userName", v[2]))
    BY SettersAlike DEF Copied
  <2>3. Alike("userName", d, After(d), e, After(e))
    BY <2>1, <2>2 DEF Alike
  <2>4. QED
    BY <1>4, <2>3 DEF After
<1>5. CASE path.sub = "" /\ path.head = "externalId"
  <2>1. \A x : After(x) = Directory!Sets(x, "externalId", id)
    BY <1>5 DEF Directory!ApplyPlain
  <2> HIDE DEF After, id
  <2>2. Alike("externalId", d, After(d), e, After(e))
    BY <2>1, SettersAlike DEF Copied
  <2>3. QED
    BY <1>5, <2>2 DEF After
<1>6. CASE path.sub = "" /\ path.head = "emails"
  <2>1. \A x : After(x) = IF removing THEN Directory!SetsEmails(x, None, None)
                          ELSE IF v[1] # "array" THEN Directory!Fails(x, "invalidValue")
                          ELSE Directory!SetsEmails(x, list, Directory!OrNone(list))
    BY <1>6 DEF Directory!ApplyPlain, Directory!WholeEmails
  <2> HIDE DEF After, list
  <2>2. /\ Alike("emails", d, Directory!SetsEmails(d, None, None),
                           e, Directory!SetsEmails(e, None, None))
        /\ Alike("emails", d, Directory!SetsEmails(d, list, Directory!OrNone(list)),
                           e, Directory!SetsEmails(e, list, Directory!OrNone(list)))
    BY EmailsAlike, EmptyIsNone
  <2>3. Alike("emails", d, After(d), e, After(e))
    <3>1. CASE removing \/ v[1] = "array"
      BY <2>1, <2>2, <3>1
    <3>2. CASE ~removing /\ v[1] # "array"
      BY <2>1, <3>2 DEF Alike
    <3>3. QED
      BY <3>1, <3>2
  <2>4. QED
    BY <1>6, <2>3 DEF After
<1>7. CASE path.head \notin {"name", "active", "userName", "externalId", "emails"}
  BY <1>7 DEF Directory!ApplyPlain, Alike
<1>8. QED
  BY <1>1, <1>2, <1>3, <1>4, <1>5, <1>6, <1>7

(* Two drafts that agree go on agreeing.                                   *)
LEMMA ExtensionsAgree ==
  ASSUME NEW a, NEW named \in BOOLEAN, a = "enterprise" => named,
         NEW d, NEW user, NEW e, NEW other,
         Agree(a, named, d, user, e, other), d.error = "none",
         NEW removing \in BOOLEAN, NEW path, NEW v, Directory!IsJson(v)
  PROVE  Agree(a, named, Directory!ApplyEnterprise(d, removing, path, v), user,
                         Directory!ApplyEnterprise(e, removing, path, v), other)
<1> DEFINE After(x) == Directory!ApplyEnterprise(x, removing, path, v)
<1>a. IsDraft(d) /\ IsDraft(e) /\ e.error = "none"
  BY DEF Agree
<1>1. CASE path.sub # ""
  <2>1. \A x : After(x) = Directory!EnterpriseSub(x, removing, path.sub, v)
    BY <1>1 DEF Directory!ApplyEnterprise
  <2> HIDE DEF After
  <2>2. Alike("enterprise", d, After(d), e, After(e))
    BY <1>a, <2>1, ExtensionsAlike
  <2>3. Agree(a, named, After(d), user, After(e), other)
    BY <2>2, AlikeAgree
  <2>4. QED
    BY <2>3 DEF After
<1>2. CASE path.sub = "" /\ removing
  <2>1. \A x : After(x) = Directory!SetsEnterprise(x, None)
    BY <1>2 DEF Directory!ApplyEnterprise
  <2> HIDE DEF After
  <2>2. /\ Changed("enterprise", d, After(d), None, None)
        /\ Changed("enterprise", e, After(e), None, None)
    BY <1>a, <2>1, SettingChanges
  <2>3. Alike("enterprise", d, After(d), e, After(e))
    BY <2>2 DEF Alike, ChangedAlike
  <2>4. Agree(a, named, After(d), user, After(e), other)
    BY <2>3, AlikeAgree
  <2>5. QED
    BY <2>4 DEF After
<1>3. CASE path.sub = "" /\ ~removing /\ ~Directory!IsObject(v)
  <2>1. \A x : After(x) = Directory!Fails(x, "invalidValue")
    BY <1>3 DEF Directory!ApplyEnterprise
  <2> HIDE DEF After
  <2>2. Alike("enterprise", d, After(d), e, After(e))
    BY <2>1 DEF Alike
  <2>3. Agree(a, named, After(d), user, After(e), other)
    BY <2>2, AlikeAgree
  <2>4. QED
    BY <2>3 DEF After
<1>4. CASE path.sub = "" /\ ~removing /\ Directory!IsObject(v)
  <2> DEFINE keys == v[2]
             n == Len(keys)
  <2>1. Directory!IsList(keys) /\ n \in Nat
    BY <1>4, ListsRun DEF Directory!IsJson
  <2>2. PICK f : EnterpriseFold!Runs(f, d, keys)
                 /\ Directory!ApplyEnterprise(d, FALSE, path, v) = f[n]
    BY <1>4, <2>1, KeysRun
  <2>3. PICK g : EnterpriseFold!Runs(g, e, keys)
                 /\ Directory!ApplyEnterprise(e, FALSE, path, v) = g[n]
    BY <1>4, <2>1, KeysRun
  <2> HIDE DEF keys
  <2> DEFINE S == {i \in 0 .. n : Agree(a, named, f[i], user, g[i], other)}
  <2>4. 0 \in S
    BY <2>1, <2>2, <2>3 DEF EnterpriseFold!Runs
  <2>5. ASSUME NEW i \in 0 .. n - 1, i \in S PROVE i + 1 \in S
    <3> DEFINE k == keys[i + 1]
    <3>1. i + 1 \in 1 .. n /\ i + 1 - 1 = i
      BY <2>1
    <3>2. /\ f[i + 1] = Directory!EnterpriseEntry(f[i], k)
          /\ g[i + 1] = Directory!EnterpriseEntry(g[i], k)
      BY <2>2, <2>3, <3>1 DEF EnterpriseFold!Runs
    <3> HIDE DEF k
    <3>3. Agree(a, named, f[i], user, g[i], other)
      BY <2>5
    <3>4. CASE f[i].error # "none"
      <4>1. f[i + 1] = f[i] /\ g[i + 1] = g[i]
        BY <3>2, <3>3, <3>4 DEF Agree, Directory!EnterpriseEntry
      <4>2. QED
        BY <2>1, <3>1, <3>3, <4>1
    <3>5. CASE f[i].error = "none"
      <4> DEFINE x == f[i]
                 y == g[i]
                 xAfter == f[i + 1]
                 yAfter == g[i + 1]
      <4>1. /\ xAfter = Directory!EnterpriseSub(x, FALSE, k[1].sub, k[2])
            /\ yAfter = Directory!EnterpriseSub(y, FALSE, k[1].sub, k[2])
        BY <3>2, <3>3, <3>5 DEF Agree, Directory!EnterpriseEntry
      <4>2. Agree(a, named, x, user, y, other) /\ IsDraft(x) /\ IsDraft(y)
        BY <3>3 DEF Agree
      <4> HIDE DEF x, y, xAfter, yAfter
      <4>3. Alike("enterprise", x, xAfter, y, yAfter)
        BY <4>1, <4>2, ExtensionsAlike
      <4>4. Agree(a, named, xAfter, user, yAfter, other)
        BY <4>2, <4>3, AlikeAgree
      <4>5. QED
        BY <2>1, <3>1, <4>4 DEF xAfter, yAfter
    <3>6. QED
      BY <3>4, <3>5
  <2>6. n \in S
    <3> HIDE DEF S
    <3>1. 0 .. n \subseteq S
      BY <2>1, <2>4, <2>5, EnterpriseFold!Climbing
    <3>2. QED
      BY <2>1, <3>1
  <2>7. QED
    BY <1>4, <2>2, <2>3, <2>6
<1>5. QED
  BY <1>1, <1>2, <1>3, <1>4

LEMMA PathsAgree ==
  ASSUME NEW a, NEW named \in BOOLEAN, NEW o, Directory!Attribute(o.path) = a => named,
         NEW d, NEW user, NEW e, NEW other,
         Agree(a, named, d, user, e, other), Directory!IsJson(o.value)
  PROVE  Agree(a, named, Directory!ApplyEntry(d, o), user, Directory!ApplyEntry(e, o), other)
<1> DEFINE After(x) == Directory!ApplyEntry(x, o)
           removing == o.op = "remove"
<1>a. IsDraft(d) /\ IsDraft(e) /\ e.error = d.error
  BY DEF Agree
<1>b. removing \in BOOLEAN
  OBVIOUS
<1>1. CASE d.error # "none"
  <2>1. After(d) = d /\ After(e) = e
    BY <1>a, <1>1 DEF Directory!ApplyEntry, Directory!ApplyAt
  <2>2. QED
    BY <2>1
<1>2. CASE d.error = "none" /\ o.path.kind = "filter"
  <2>1. /\ After(d) = Directory!ApplyFiltered(d, removing, o.path, o.value)
        /\ After(e) = Directory!ApplyFiltered(e, removing, o.path, o.value)
        /\ o.path.head = a => named
    BY <1>a, <1>2 DEF Directory!ApplyEntry, Directory!ApplyAt, Directory!Attribute
  <2> HIDE DEF After, removing
  <2>2. Alike(o.path.head, d, After(d), e, After(e))
    BY <1>a, <1>b, <2>1, FilteredAlike
  <2>3. Agree(a, named, After(d), user, After(e), other)
    BY <2>1, <2>2, AlikeAgree
  <2>4. QED
    BY <2>3 DEF After
<1>3. CASE d.error = "none" /\ o.path.kind = "malformed"
  <2>1. /\ After(d) = Directory!Fails(d, "invalidPath")
        /\ After(e) = Directory!Fails(e, "invalidPath")
    BY <1>a, <1>3 DEF Directory!ApplyEntry, Directory!ApplyAt
  <2> HIDE DEF After
  <2>2. Alike(Directory!Attribute(o.path), d, After(d), e, After(e))
    BY <2>1 DEF Alike
  <2>3. Agree(a, named, After(d), user, After(e), other)
    BY <2>2, AlikeAgree
  <2>4. QED
    BY <2>3 DEF After
<1>4. CASE d.error = "none" /\ o.path.kind = "enterprise"
  <2>1. /\ After(d) = Directory!ApplyEnterprise(d, removing, o.path, o.value)
        /\ After(e) = Directory!ApplyEnterprise(e, removing, o.path, o.value)
        /\ a = "enterprise" => named
    BY <1>a, <1>4 DEF Directory!ApplyEntry, Directory!ApplyAt, Directory!Attribute
  <2> HIDE DEF After, removing
  <2>2. Agree(a, named, After(d), user, After(e), other)
    BY <1>b, <1>4, <2>1, ExtensionsAgree
  <2>3. QED
    BY <2>2 DEF After
<1>5. CASE d.error = "none" /\ o.path.kind \notin {"filter", "malformed", "enterprise"}
  <2>1. /\ After(d) = Directory!ApplyPlain(d, o.op, o.path, o.value)
        /\ After(e) = Directory!ApplyPlain(e, o.op, o.path, o.value)
        /\ o.path.head = a => named
    BY <1>a, <1>5 DEF Directory!ApplyEntry, Directory!ApplyAt, Directory!Attribute
  <2> HIDE DEF After
  <2>2. Alike(o.path.head, d, After(d), e, After(e))
    BY <1>a, <2>1, PlainAlike
  <2>3. Agree(a, named, After(d), user, After(e), other)
    BY <2>1, <2>2, AlikeAgree
  <2>4. QED
    BY <2>3 DEF After
<1>6. QED
  BY <1>1, <1>2, <1>3, <1>4, <1>5

LEMMA OperationsAgree ==
  ASSUME NEW a, NEW named \in BOOLEAN, NEW o, Directory!Names(o, a) => named,
         Directory!IsJsonTwice(o.value), NEW d, NEW user, NEW e, NEW other,
         Agree(a, named, d, user, e, other)
  PROVE  Agree(a, named, Directory!ApplyOperation(d, o), user,
                         Directory!ApplyOperation(e, o), other)
<1> DEFINE After(x) == Directory!ApplyOperation(x, o)
<1>a. IsDraft(d) /\ IsDraft(e) /\ e.error = d.error
  BY DEF Agree
<1>1. CASE d.error # "none"
  <2>1. After(d) = d /\ After(e) = e
    BY <1>a, <1>1 DEF Directory!ApplyOperation
  <2>2. QED
    BY <2>1
<1>2. CASE /\ d.error = "none"
           /\ \/ o.op \notin {"add", "replace", "remove"}
              \/ /\ o.path = Directory!NoPath
                 /\ o.op = "remove" \/ ~Directory!IsObject(o.value)
  <2>1. /\ After(d) = Directory!Fails(d, "invalidPath")
        /\ After(e) = Directory!Fails(e, "invalidPath")
    BY <1>a, <1>2 DEF Directory!ApplyOperation
  <2> HIDE DEF After
  <2>2. \A x : Alike(x, d, After(d), e, After(e))
    BY <2>1 DEF Alike
  <2>3. PICK x : x # a
    <3>1. "name" # a \/ "emails" # a
      OBVIOUS
    <3>2. QED
      BY <3>1
  <2>4. Agree(a, named, After(d), user, After(e), other)
    <3>1. Alike(x, d, After(d), e, After(e)) /\ (x = a => named)
      BY <2>2, <2>3
    <3>2. QED
      BY <3>1, AlikeAgree
  <2>5. QED
    BY <2>4 DEF After
<1>3. CASE /\ d.error = "none" /\ o.op \in {"add", "replace", "remove"}
           /\ o.path # Directory!NoPath
  <2>1. /\ After(d) = Directory!ApplyEntry(d, o) /\ After(e) = Directory!ApplyEntry(e, o)
        /\ Directory!Attribute(o.path) = a => named
    BY <1>a, <1>3 DEF Directory!ApplyOperation, Directory!ApplyEntry, Directory!Names
  <2>2. Directory!IsJson(o.value)
    BY DEF Directory!IsJson, Directory!IsJsonTwice
  <2> HIDE DEF After
  <2>3. Agree(a, named, After(d), user, After(e), other)
    BY <2>1, <2>2, PathsAgree
  <2>4. QED
    BY <2>3 DEF After
<1>4. CASE /\ d.error = "none" /\ o.op \in {"add", "replace"}
           /\ o.path = Directory!NoPath /\ Directory!IsObject(o.value)
  <2> DEFINE w == Directory!Spread(o)
             n == Len(w)
             entries == o.value[2]
  <2>1. /\ Directory!IsList(w) /\ n \in Nat /\ DOMAIN entries = 1 .. n
        /\ \A i \in 1 .. n : w[i] = [op |-> o.op, path |-> entries[i][1], value |-> entries[i][2]]
        /\ \A i \in 1 .. n : entries[i] \in Directory!Range(entries)
    <3>1. Directory!IsList(entries)
      BY <1>4 DEF Directory!IsJsonTwice
    <3>2. QED
      BY <3>1, SpreadLists, ListsRun
  <2>2. ASSUME NEW i \in 1 .. n
        PROVE  (Directory!Attribute(w[i].path) = a => named) /\ Directory!IsJson(w[i].value)
    <3>1. Directory!IsJson(entries[i][2])
      <4>1. \A k \in Directory!Range(entries) : Directory!IsJson(k[2])
        BY <1>4 DEF Directory!IsJsonTwice
      <4>2. entries[i] \in Directory!Range(entries)
        BY <2>1
      <4> HIDE DEF entries
      <4>3. QED
        BY <4>1, <4>2
    <3>2. Directory!Attribute(entries[i][1]) = a => named
      BY <1>4, <2>1 DEF Directory!Names
    <3>3. w[i] = [op |-> o.op, path |-> entries[i][1], value |-> entries[i][2]]
      BY <2>1
    <3> HIDE DEF w, entries
    <3>4. w[i].path = entries[i][1] /\ w[i].value = entries[i][2]
      BY <3>3
    <3>5. QED
      BY <3>1, <3>2, <3>4
  <2>3. PICK f : SpreadFold!Runs(f, d, w) /\ After(d) = f[n]
    BY <1>4, <2>1, SpreadRuns
  <2>4. PICK g : SpreadFold!Runs(g, e, w) /\ After(e) = g[n]
    BY <1>a, <1>4, <2>1, SpreadRuns
  <2> HIDE DEF w, entries
  <2> DEFINE S == {i \in 0 .. n : Agree(a, named, f[i], user, g[i], other)}
  <2>5. 0 \in S
    BY <2>1, <2>3, <2>4 DEF SpreadFold!Runs
  <2>6. ASSUME NEW i \in 0 .. n - 1, i \in S PROVE i + 1 \in S
    <3> DEFINE k == w[i + 1]
    <3>1. i + 1 \in 1 .. n /\ i + 1 - 1 = i
      BY <2>1
    <3>2. /\ f[i + 1] = Directory!ApplyEntry(f[i], k)
          /\ g[i + 1] = Directory!ApplyEntry(g[i], k)
      BY <2>3, <2>4, <3>1 DEF SpreadFold!Runs
    <3>3. (Directory!Attribute(k.path) = a => named) /\ Directory!IsJson(k.value)
      BY <2>2, <3>1
    <3> HIDE DEF k
    <3>4. Agree(a, named, f[i], user, g[i], other)
      BY <2>6
    <3>5. Agree(a, named, Directory!ApplyEntry(f[i], k), user,
                          Directory!ApplyEntry(g[i], k), other)
      BY <3>3, <3>4, PathsAgree
    <3>6. QED
      BY <2>1, <3>1, <3>2, <3>5
  <2>7. n \in S
    <3> HIDE DEF S
    <3>1. 0 .. n \subseteq S
      BY <2>1, <2>5, <2>6, SpreadFold!Climbing
    <3>2. QED
      BY <2>1, <3>1
  <2>8. QED
    BY <2>3, <2>4, <2>7
<1>5. QED
  BY <1>1, <1>2, <1>3, <1>4

(* What one operation makes of a record, sent by itself.                   *)
LEMMA AlonePatches ==
  ASSUME NEW o, NEW user
  PROVE  LET e == Directory!ApplyOperation(Directory!Begun(user), o)
         IN e.error = "none" => Directory!Alone(user, o) = Directory!Over(e.patch, user)
<1> DEFINE e == Directory!ApplyOperation(Directory!Begun(user), o)
           q == Directory!NormalizePatch(<<o>>, user)
<1>1. Directory!Drafted(<<o>>, user) = e
  <2>1. PICK f : /\ OperationFold!Runs(f, Directory!Begun(user), <<o>>)
                 /\ Directory!Drafted(<<o>>, user) = f[Len(<<o>>)]
    BY SingleLists, OperationsRun
  <2>2. f[1] = e /\ Directory!Drafted(<<o>>, user) = f[1]
    BY <2>1, SingleLists DEF OperationFold!Runs
  <2>3. QED
    BY <2>2
<1>2. q = IF e.error # "none" THEN [error |-> e.error, patch |-> <<>>]
          ELSE IF e.patch = <<>> THEN [error |-> "nothing", patch |-> <<>>]
          ELSE [error |-> "none", patch |-> e.patch]
  BY <1>1, SingleLists DEF Directory!NormalizePatch
<1> HIDE DEF e
<1>3. e.error = "none" => q.patch = e.patch
  BY <1>2
<1>4. Directory!Alone(user, o) = Directory!Over(q.patch, user)
  BY DEF Directory!Alone
<1> HIDE DEF q
<1>5. QED
  BY <1>3, <1>4 DEF e

LEMMA BegunIs ==
  ASSUME NEW user
  PROVE  LET d == Directory!Begun(user)
         IN /\ IsDraft(d) /\ d.error = "none" /\ DOMAIN d.patch = {}
            /\ d["name"] = user["name"] /\ d["emails"] = user["emails"]
            /\ d["enterprise"] = user["enterprise"]
BY DEF Directory!Begun, IsDraft

(* A patch that is accepted sets only what its operations name, and makes  *)
(* of an attribute what they make of it one by one, in any record in which *)
(* it is as it was in the one the patch was resolved against.              *)
LEMMA UserDraftsMean ==
  ASSUME NEW ops, Directory!IsPatchOp(ops), NEW seen, NEW was, NEW a, a \in DOMAIN was,
         Directory!Drafted(ops, seen).error = "none"
  PROVE  LET d == Directory!Drafted(ops, seen)
         IN /\ (\A i \in DOMAIN ops : ~Directory!Names(ops[i], a)) => a \notin DOMAIN d.patch
            /\ was[a] = seen[a] => Value(d, seen, a) = Directory!OneByOne(ops, was)[a]
<1> DEFINE n == Len(ops)
           named == \E i \in DOMAIN ops : Directory!Names(ops[i], a)
<1>1. /\ Directory!IsList(ops) /\ n \in Nat /\ DOMAIN ops = 1 .. n
      /\ \A i \in 1 .. n : ops[i] \in Directory!Range(ops)
  BY ListsRun DEF Directory!IsPatchOp, Directory!Range
<1>2. \A i \in 1 .. n : Directory!IsJsonTwice(ops[i].value)
  BY <1>1 DEF Directory!IsPatchOp
<1>3. PICK f : /\ OperationFold!Runs(f, Directory!Begun(seen), ops)
               /\ Directory!Drafted(ops, seen) = f[n]
  BY <1>1, OperationsRun
<1>4. PICK g : AloneFold!Runs(g, was, ops) /\ Directory!OneByOne(ops, was) = g[n]
  BY <1>1, OneByOneRuns
<1>5. /\ named \in BOOLEAN /\ \A i \in 1 .. n : Directory!Names(ops[i], a) => named
      /\ (\A i \in DOMAIN ops : ~Directory!Names(ops[i], a)) => ~named
  BY <1>1
<1> HIDE DEF named
<1> DEFINE Fits(i) ==
             /\ Agree(a, named, f[i], seen, f[i], seen)
             /\ a \in DOMAIN g[i]
             /\ was[a] = seen[a] => Value(f[i], seen, a) = g[i][a]
           S == {i \in 0 .. n : f[i].error = "none" => Fits(i)}
<1>6. 0 \in S
  <2>1. f[0] = Directory!Begun(seen) /\ g[0] = was
    BY <1>3, <1>4 DEF OperationFold!Runs, AloneFold!Runs
  <2>2. Value(f[0], seen, a) = seen[a]
    BY <2>1, BegunIs DEF Value
  <2>3. Agree(a, named, f[0], seen, f[0], seen)
    BY <2>1, <2>2, BegunIs DEF Agree, Settled, Copied
  <2>4. Fits(0)
    BY <2>1, <2>2, <2>3
  <2>5. QED
    BY <1>1, <2>4
<1>7. ASSUME NEW i \in 0 .. n - 1, i \in S PROVE i + 1 \in S
  <2> DEFINE o == ops[i + 1]
             d == f[i]
             user == g[i]
             begun == Directory!Begun(user)
             e == Directory!ApplyOperation(begun, o)
             dAfter == f[i + 1]
             next == g[i + 1]
  <2>1. i + 1 \in 1 .. n /\ i + 1 - 1 = i
    BY <1>1
  <2>2. dAfter = Directory!ApplyOperation(d, o) /\ next = Directory!Alone(user, o)
    BY <1>3, <1>4, <2>1 DEF OperationFold!Runs, AloneFold!Runs
  <2>3. SUFFICES ASSUME dAfter.error = "none" PROVE Fits(i + 1)
    BY <1>1, <2>1
  <2>4. d.error = "none"
    BY <2>2, <2>3 DEF Directory!ApplyOperation
  <2>5. Fits(i)
    BY <1>7, <2>4
  <2>6. (Directory!Names(o, a) => named) /\ Directory!IsJsonTwice(o.value)
    BY <1>2, <1>5, <2>1
  <2>a. /\ Agree(a, named, d, seen, d, seen) /\ a \in DOMAIN user
        /\ was[a] = seen[a] => Value(d, seen, a) = user[a]
    BY <2>5
  <2>b. SUFFICES /\ Agree(a, named, dAfter, seen, dAfter, seen) /\ a \in DOMAIN next
                 /\ was[a] = seen[a] => Value(dAfter, seen, a) = next[a]
    OBVIOUS
  <2>c. IsDraft(begun) /\ begun.error = "none" /\ DOMAIN begun.patch = {}
        /\ Value(begun, user, a) = user[a]
        /\ Settled(a, begun, user)
    BY BegunIs DEF Value, Settled, Copied
  <2> HIDE DEF o, d, user, begun, dAfter, next, Fits
  <2>7. Agree(a, named, dAfter, seen, dAfter, seen)
    BY <1>5, <2>2, <2>6, <2>a, OperationsAgree
  <2>8. a \in DOMAIN next
    BY <2>2, <2>a DEF Directory!Alone, Directory!Over
  <2>9. ASSUME was[a] = seen[a] PROVE Value(dAfter, seen, a) = next[a]
    <3>1. Agree(a, named, d, seen, begun, user)
      BY <2>4, <2>9, <2>a, <2>c DEF Agree
    <3>2. Agree(a, named, dAfter, seen, e, user)
      BY <1>5, <2>2, <2>6, <3>1, OperationsAgree
    <3>3. e.error = "none" /\ Value(dAfter, seen, a) = Value(e, user, a)
      BY <2>3, <3>2 DEF Agree
    <3>4. next = Directory!Over(e.patch, user)
      BY <2>2, <3>3, AlonePatches DEF begun
    <3> HIDE DEF e
    <3>5. next[a] = Value(e, user, a)
      BY <2>a, <3>4 DEF Directory!Over, Value
    <3>6. QED
      BY <3>3, <3>5
  <2>10. QED
    BY <2>7, <2>8, <2>9
<1>8. n \in S
  <2> HIDE DEF S
  <2>1. 0 .. n \subseteq S
    BY <1>1, <1>6, <1>7, OperationFold!Climbing
  <2>2. QED
    BY <1>1, <2>1
<1>9. QED
  BY <1>3, <1>4, <1>5, <1>8 DEF Agree

(* A user patch that is accepted, put over a record.                       *)
LEMMA UserPatchesMean ==
  ASSUME NEW ops, Directory!IsPatchOp(ops), NEW seen, NEW was, NEW a, a \in DOMAIN was,
         Directory!NormalizePatch(ops, seen).error = "none"
  PROVE  LET becomes == Directory!Over(Directory!NormalizePatch(ops, seen).patch, was)
         IN /\ (\A i \in DOMAIN ops : ~Directory!Names(ops[i], a)) => becomes[a] = was[a]
            /\ was[a] = seen[a] => becomes[a] = Directory!OneByOne(ops, was)[a]
<1> DEFINE d == Directory!Drafted(ops, seen)
           q == Directory!NormalizePatch(ops, seen)
           becomes == Directory!Over(q.patch, was)
<1>1. d.error = "none" /\ q.patch = d.patch
  <2>1. q = IF ops = <<>> THEN [error |-> "invalidSyntax", patch |-> <<>>]
            ELSE IF d.error # "none" THEN [error |-> d.error, patch |-> <<>>]
            ELSE IF d.patch = <<>> THEN [error |-> "nothing", patch |-> <<>>]
            ELSE [error |-> "none", patch |-> d.patch]
    BY DEF Directory!NormalizePatch
  <2>2. q.error = "none"
    OBVIOUS
  <2> HIDE DEF d, q
  <2>3. QED
    BY <2>1, <2>2
<1>2. /\ (\A i \in DOMAIN ops : ~Directory!Names(ops[i], a)) => a \notin DOMAIN d.patch
      /\ was[a] = seen[a] => Value(d, seen, a) = Directory!OneByOne(ops, was)[a]
  <2>1. Directory!Drafted(ops, seen).error = "none"
    BY <1>1
  <2> HIDE DEF q, becomes
  <2>2. QED
    BY <2>1, UserDraftsMean
<1>3. becomes[a] = IF a \in DOMAIN q.patch THEN q.patch[a] ELSE was[a]
  <2> HIDE DEF q
  <2>1. QED
    BY DEF Directory!Over
<1> HIDE DEF d, q
<1>4. QED
  BY <1>1, <1>2, <1>3 DEF Value, q

(* What a request that is to write holds, and how the records are formed.  *)
Formed(user) == user # None => Directory!Attributes \subseteq DOMAIN user
Grouped(group) == group # None => "members" \in DOMAIN group

Patching(q) ==
  LET made == Directory!Resolve(q.ask, q.seen)
  IN /\ q.pc \in {"load", "write"} => Directory!Refusal(q.ask) = 0
     /\ q.pc = "write" /\ q.ask.method = "PATCH" =>
          q.ask.id # None /\ made.error = "none" /\ q.write = made.patch
     /\ q.pc = "write" /\ q.ask.method \notin {"PATCH", "DELETE"} =>
          IF q.ask.on = "user" THEN Formed(q.write) ELSE Grouped(q.write)

PatchInv ==
  /\ \A u \in UserIds : Formed(users[u])
  /\ \A g \in GroupIds : Grouped(groups[g])
  /\ \A r \in Requests : Patching(req[r])

LEMMA ParsedForm ==
  ASSUME NEW body
  PROVE  /\ Directory!ParseUserWrite(body).error = "none" =>
              Formed(Directory!ParseUserWrite(body).patch)
         /\ Directory!ParseGroupWrite(body).error = "none" =>
              Grouped(Directory!ParseGroupWrite(body).patch)
<1>1. ASSUME Directory!ParseUserWrite(body).error = "none"
      PROVE  Formed(Directory!ParseUserWrite(body).patch)
  BY <1>1 DEF Directory!ParseUserWrite, Formed
<1>2. ASSUME Directory!ParseGroupWrite(body).error = "none"
      PROVE  Grouped(Directory!ParseGroupWrite(body).patch)
  BY <1>2 DEF Directory!ParseGroupWrite, Grouped
<1>3. QED
  BY <1>1, <1>2

LEMMA ResolvedForm ==
  ASSUME NEW ask, ask.on \in {"user", "group"}, ask.method \notin {"PATCH", "DELETE"},
         NEW record, Directory!Resolve(ask, record).error = "none"
  PROVE  LET patch == Directory!Resolve(ask, record).patch
         IN IF ask.on = "user" THEN Formed(patch) ELSE Grouped(patch)
<1>1. CASE ask.on = "user"
  <2>1. Directory!Resolve(ask, record) = Directory!ParseUserWrite(ask.body)
    BY <1>1 DEF Directory!Resolve
  <2>2. QED
    BY <1>1, <2>1, ParsedForm
<1>2. CASE ask.on = "group"
  <2>1. Directory!Resolve(ask, record) = Directory!ParseGroupWrite(ask.body)
    BY <1>2 DEF Directory!Resolve
  <2>2. QED
    BY <1>2, <2>1, ParsedForm
<1>3. QED
  BY <1>1, <1>2

(* A request that is let in is about what there may be; only one resource  *)
(* is patched.                                                             *)
LEMMA AskedRequests ==
  ASSUME Directory!ScimAssumption, NEW r \in Requests, NEW ask \in Script[r],
         Directory!Refusal(ask) = 0
  PROVE  /\ ask.on \in {"user", "group"}
         /\ ask.on = "user" => ask.id \in UserIds \cup {None}
         /\ ask.on = "group" => ask.id \in GroupIds \cup {None}
         /\ ask.method = "PATCH" =>
              /\ ask.id # None /\ Directory!IsPatchOp(ask.body)
              /\ ask.on = "group" => Directory!IsGroupPatch(ask.body)
<1>1. Directory!Asks(ask)
  BY DEF Directory!ScimAssumption
<1>2. ask.on \in {"user", "group"}
  BY <1>1, RoutedRequests DEF Directory!Asks
<1>3. ask.method = "PATCH" => ask.id # None
  <2>1. Directory!Route(ask) = 0
    BY DEF Directory!Refusal
  <2>2. ask.method \in Directory!Allowed(ask)
    BY <2>1 DEF Directory!Route
  <2>3. ask.on # "discovery" /\ ask.id = None => Directory!Allowed(ask) = {"GET", "POST"}
    BY DEF Directory!Allowed
  <2>4. QED
    BY <1>2, <2>2, <2>3
<1>4. QED
  BY <1>1, <1>2, <1>3 DEF Directory!Asks

(* A request that takes a step and leaves the directory as it is.          *)
LEMMA PatchesGoOn ==
  ASSUME ScimInv, PatchInv, NEW r \in Requests, NEW q, Directory!Becomes(r, q),
         Patching(q), UNCHANGED <<users, groups>>
  PROVE  PatchInv'
<1>1. req'[r] = q /\ \A p \in Requests \ {r} : req'[p] = req[p]
  BY DEF Directory!Becomes, ScimInv
<1>2. \A p \in Requests : Patching(req'[p])
  BY <1>1 DEF PatchInv
<1>3. QED
  BY <1>2 DEF PatchInv, Patching, Formed, Grouped

LEMMA PatchesEnd ==
  ASSUME NEW q, IsRequest(q), NEW code
  PROVE  Patching([q EXCEPT !.pc = "done", !.status = code])
BY DEF Patching, IsRequest

LEMMA PatchInvariance ==
  ASSUME Directory!ScimAssumption, ScimInv, PatchInv, [Directory!Next]_(Directory!scimVars)
  PROVE  PatchInv'
<1>1. ASSUME NEW r \in Requests, Directory!HandleScimRequest(r) PROVE PatchInv'
  <2> DEFINE q == req[r]
  <2>1. RequestFits(r) /\ IsRequest(q) /\ UNCHANGED <<users, groups>>
    BY <1>1 DEF ScimInv, RequestFits, Directory!HandleScimRequest,
      Directory!DirectoryIsUnchanged
  <2>2. PICK ask \in (IF q.tries = 0 THEN Script[r] ELSE {q.ask}) :
          LET z == [q EXCEPT !.ask = ask, !.tries = @ + 1]
              made == Directory!Resolve(ask, None)
          IN IF Directory!Refusal(ask) # 0
             THEN Directory!Finish(r, z, Directory!Refusal(ask))
             ELSE IF ask.id # None THEN Directory!Becomes(r, [z EXCEPT !.pc = "load"])
             ELSE IF ask.method = "GET"
                  THEN IF Directory!ParseScimFilter(ask.filter, ask.on)
                       THEN Directory!Becomes(r, [z EXCEPT !.pc = "find"])
                       ELSE Directory!Finish(r, z, 400)
             ELSE IF made.error # "none" THEN Directory!Finish(r, z, 400)
             ELSE Directory!Becomes(r, [z EXCEPT !.pc = "write", !.write = made.patch])
    BY <1>1 DEF Directory!HandleScimRequest
  <2> DEFINE tried == q.tries + 1
             z == [q EXCEPT !.ask = ask, !.tries = tried]
             made == Directory!Resolve(ask, None)
  <2>3. ask \in Script[r]
    BY <2>1, <2>2 DEF RequestFits
  <2>4. \/ \E code : Directory!Finish(r, z, code)
        \/ Directory!Refusal(ask) = 0 /\ Directory!Becomes(r, [z EXCEPT !.pc = "load"])
        \/ Directory!Becomes(r, [z EXCEPT !.pc = "find"])
        \/ /\ Directory!Refusal(ask) = 0 /\ ask.id = None /\ made.error = "none"
           /\ ask.method # "GET"
           /\ Directory!Becomes(r, [z EXCEPT !.pc = "write", !.write = made.patch])
    BY <2>2
  <2> HIDE DEF tried
  <2>5. IsRequest(z) /\ z.ask = ask
    BY <2>1 DEF IsRequest
  <2> HIDE DEF z, q
  <2>6. CASE \E code : Directory!Finish(r, z, code)
    BY <2>1, <2>5, <2>6, PatchesEnd, PatchesGoOn DEF Directory!Finish
  <2>7. CASE Directory!Refusal(ask) = 0 /\ Directory!Becomes(r, [z EXCEPT !.pc = "load"])
    <3> DEFINE w == [z EXCEPT !.pc = "load"]
    <3>1. w.pc = "load" /\ w.ask = ask
      BY <2>5 DEF IsRequest
    <3> HIDE DEF w
    <3>2. Patching(w)
      BY <2>7, <3>1 DEF Patching
    <3>3. QED
      BY <2>1, <2>7, <3>2, PatchesGoOn DEF w
  <2>8. CASE Directory!Becomes(r, [z EXCEPT !.pc = "find"])
    <3> DEFINE w == [z EXCEPT !.pc = "find"]
    <3>1. w.pc = "find"
      BY <2>5 DEF IsRequest
    <3> HIDE DEF w
    <3>2. Patching(w)
      BY <3>1 DEF Patching
    <3>3. QED
      BY <2>1, <2>8, <3>2, PatchesGoOn DEF w
  <2>9. CASE /\ Directory!Refusal(ask) = 0 /\ ask.id = None /\ made.error = "none"
             /\ ask.method # "GET"
             /\ Directory!Becomes(r, [z EXCEPT !.pc = "write", !.write = made.patch])
    <3> DEFINE patch == made.patch
               w == [z EXCEPT !.pc = "write", !.write = patch]
    <3>1. ask.on \in {"user", "group"} /\ ask.method # "PATCH"
      BY <2>3, <2>9, AskedRequests
    <3>2. ask.method # "DELETE" =>
            IF ask.on = "user" THEN Formed(patch) ELSE Grouped(patch)
      BY <2>9, <3>1, ResolvedForm
    <3>3. Directory!Becomes(r, w)
      BY <2>9
    <3> HIDE DEF patch, made
    <3>4. w.pc = "write" /\ w.ask = ask /\ w.write = patch
      BY <2>5 DEF IsRequest
    <3> HIDE DEF w
    <3>5. Patching(w)
      BY <2>9, <3>1, <3>2, <3>4 DEF Patching
    <3>6. QED
      BY <2>1, <3>3, <3>5, PatchesGoOn
  <2>10. QED
    BY <2>4, <2>6, <2>7, <2>8, <2>9
<1>2. ASSUME NEW r \in Requests,
             Directory!Find(r) \/ Directory!HostFails(r)
      PROVE  PatchInv'
  <2>1. UNCHANGED <<users, groups>> /\ IsRequest(req[r])
    BY <1>2 DEF Directory!Find, Directory!HostFails, Directory!DirectoryIsUnchanged,
      ScimInv, RequestFits
  <2>2. PICK q, code : IsRequest(q) /\ Directory!Finish(r, q, code)
    <3>1. CASE Directory!HostFails(r)
      BY <2>1, <3>1 DEF Directory!HostFails
    <3>2. CASE Directory!Find(r)
      <4>1. PICK s : Directory!Finish(r, [req[r] EXCEPT !.seen = s], 200)
        BY <3>2 DEF Directory!Find
      <4>2. IsRequest([req[r] EXCEPT !.seen = s])
        BY <2>1 DEF IsRequest
      <4>3. QED
        BY <4>1, <4>2
    <3>3. QED
      BY <1>2, <3>1, <3>2
  <2>3. QED
    BY <2>1, <2>2, PatchesEnd, PatchesGoOn DEF Directory!Finish
<1>3. ASSUME NEW r \in Requests, Directory!Load(r) PROVE PatchInv'
  <2> DEFINE ask == req[r].ask
             found == Directory!Target(ask)
             made == Directory!Resolve(ask, found)
             z == [req[r] EXCEPT !.seen = found]
  <2>1. RequestFits(r) /\ IsRequest(req[r]) /\ req[r].pc = "load"
        /\ UNCHANGED <<users, groups>>
    BY <1>3 DEF ScimInv, RequestFits, Directory!Load, Directory!DirectoryIsUnchanged
  <2>2. \/ \E code : Directory!Finish(r, z, code)
        \/ /\ made.error = "none"
           /\ Directory!Becomes(r, [z EXCEPT !.pc = "write", !.write = made.patch])
    BY <1>3 DEF Directory!Load
  <2>3. ask \in Script[r] /\ Directory!Refusal(ask) = 0
    BY <2>1 DEF RequestFits, PatchInv, Patching
  <2> HIDE DEF found
  <2>4. IsRequest(z) /\ z.ask = ask /\ z.seen = found
    BY <2>1 DEF IsRequest
  <2> HIDE DEF z
  <2>5. CASE \E code : Directory!Finish(r, z, code)
    BY <2>1, <2>4, <2>5, PatchesEnd, PatchesGoOn DEF Directory!Finish
  <2>6. CASE /\ made.error = "none"
             /\ Directory!Becomes(r, [z EXCEPT !.pc = "write", !.write = made.patch])
    <3> DEFINE patch == made.patch
               w == [z EXCEPT !.pc = "write", !.write = patch]
    <3>1. ask.on \in {"user", "group"} /\ (ask.method = "PATCH" => ask.id # None)
      BY <2>3, AskedRequests
    <3>2. ask.method \notin {"PATCH", "DELETE"} =>
            IF ask.on = "user" THEN Formed(patch) ELSE Grouped(patch)
      BY <2>6, <3>1, ResolvedForm
    <3>3. Directory!Becomes(r, w)
      BY <2>6
    <3> HIDE DEF patch
    <3>4. w.pc = "write" /\ w.ask = ask /\ w.write = patch /\ w.seen = found
      BY <2>4 DEF IsRequest
    <3> HIDE DEF w, ask, found
    <3>5. Patching(w)
      BY <2>3, <2>6, <3>1, <3>2, <3>4 DEF Patching, patch
    <3>6. QED
      BY <2>1, <3>3, <3>5, PatchesGoOn
  <2>7. QED
    BY <2>2, <2>5, <2>6
<1>4. ASSUME NEW r \in Requests, Directory!Write(r) PROVE PatchInv'
  <2> DEFINE q == req[r]
             ask == q.ask
             At(id) == IF ask.on = "user" THEN users[id] ELSE groups[id]
             record(id) == Directory!Written(ask, q.write, At(id))
  <2>1. RequestFits(r) /\ IsRequest(q) /\ q.pc = "write" /\ Patching(q)
    BY <1>4 DEF ScimInv, RequestFits, PatchInv, Directory!Write
  <2>2. ask \in Script[r] /\ Directory!Refusal(ask) = 0
    BY <2>1 DEF RequestFits, Patching
  <2>3. /\ ask.on \in {"user", "group"}
        /\ ask.on = "user" => ask.id \in UserIds \cup {None}
        /\ ask.on = "group" => ask.id \in GroupIds \cup {None}
        /\ ask.method = "PATCH" => ask.id # None
    BY <2>2, AskedRequests
  <2>4. PICK id \in Directory!Places(ask), lost \in BOOLEAN :
          IF Directory!Conflicts(ask, id, record(id))
          THEN ~lost /\ Directory!Finish(r, q, 409) /\ Directory!DirectoryIsUnchanged
          ELSE IF Directory!HostRefuses(ask, record(id))
          THEN ~lost /\ Directory!Finish(r, q, 400) /\ Directory!DirectoryIsUnchanged
          ELSE /\ Directory!Put(ask, id, record(id))
               /\ Directory!Finish(r, [q EXCEPT !.took = IF lost THEN record(id) ELSE @],
                                   IF lost THEN 500 ELSE Directory!Success(ask))
    BY <1>4 DEF Directory!Write
  <2>5. IF ask.on = "user" THEN Formed(record(id)) ELSE Grouped(record(id))
    <3>1. CASE ask.method = "DELETE"
      <4>1. record(id) = None
        BY <3>1 DEF Directory!Written
      <4>2. QED
        BY <4>1 DEF Formed, Grouped
    <3>2. CASE ask.method = "PATCH"
      <4>1. id = ask.id /\ At(id) # None
        BY <2>3, <3>2 DEF Directory!Places, Directory!Target
      <4>2. CASE ask.on = "user"
        <5>1. id \in UserIds /\ record(id) = Directory!Over(q.write, users[id])
              /\ Directory!Attributes \subseteq DOMAIN users[id]
          BY <2>3, <3>2, <4>1, <4>2 DEF Directory!Written, PatchInv, Formed
        <5> HIDE DEF record
        <5>2. QED
          BY <4>2, <5>1 DEF Formed, Directory!Over
      <4>3. CASE ask.on = "group"
        <5> DEFINE over == Directory!Over(q.write.fields, groups[id])
                   m == Directory!PatchedMembers(groups[id].members, q.write)
        <5>1. id \in GroupIds /\ record(id) = [over EXCEPT !.members = m]
              /\ "members" \in DOMAIN groups[id]
          BY <2>3, <3>2, <4>1, <4>3 DEF Directory!Written, PatchInv, Grouped
        <5>2. "members" \in DOMAIN over
          BY <5>1 DEF Directory!Over
        <5> HIDE DEF record, over, m
        <5>3. QED
          BY <4>3, <5>1, <5>2 DEF Grouped
      <4>4. QED
        BY <2>3, <4>2, <4>3
    <3>3. CASE ask.method \notin {"PATCH", "DELETE"}
      <4>1. record(id) = q.write
        BY <3>3 DEF Directory!Written
      <4>2. QED
        BY <2>1, <3>3, <4>1 DEF Patching
    <3>4. QED
      BY <3>1, <3>2, <3>3
  <2> HIDE DEF record
  <2>6. PICK p, code : IsRequest(p) /\ Directory!Finish(r, p, code)
    <3> DEFINE left == IF lost THEN record(id) ELSE q.took
    <3>1. \/ \E code : Directory!Finish(r, q, code)
          \/ \E code : Directory!Finish(r, [q EXCEPT !.took = left], code)
      BY <2>4
    <3> HIDE DEF left, q
    <3>2. IsRequest([q EXCEPT !.took = left])
      BY <2>1 DEF IsRequest
    <3>3. QED
      BY <2>1, <3>1, <3>2
  <2>7. Patching([p EXCEPT !.pc = "done", !.status = code])
    BY <2>6, PatchesEnd
  <2>8. CASE UNCHANGED <<users, groups>>
    BY <2>6, <2>7, <2>8, PatchesGoOn DEF Directory!Finish
  <2>9. CASE Directory!Put(ask, id, record(id))
    <3>1. \A u \in UserIds : Formed(users'[u])
      BY <2>3, <2>5, <2>9 DEF Directory!Put, PatchInv, ScimInv
    <3>2. \A g \in GroupIds : Grouped(groups'[g])
      BY <2>3, <2>5, <2>9 DEF Directory!Put, PatchInv, ScimInv
    <3>3. \A x \in Requests : Patching(req'[x])
      BY <2>6, <2>7 DEF Directory!Finish, Directory!Becomes, ScimInv, PatchInv
    <3>4. QED
      BY <3>1, <3>2, <3>3 DEF PatchInv, Formed, Grouped, Patching
  <2>10. QED
    BY <2>4, <2>8, <2>9 DEF Directory!DirectoryIsUnchanged
<1>5. ASSUME NEW r \in Requests, Directory!Repeat(r) PROVE PatchInv'
  <2> DEFINE w == [req[r] EXCEPT !.pc = "idle", !.status = 0, !.seen = None, !.write = None]
  <2>1. IsRequest(req[r]) /\ Directory!Becomes(r, w) /\ UNCHANGED <<users, groups>>
    BY <1>5 DEF ScimInv, RequestFits, Directory!Repeat, Directory!DirectoryIsUnchanged
  <2>2. w.pc = "idle"
    BY <2>1 DEF IsRequest
  <2> HIDE DEF w
  <2>3. Patching(w)
    BY <2>2 DEF Patching
  <2>4. QED
    BY <2>1, <2>3, PatchesGoOn
<1>6. CASE UNCHANGED Directory!scimVars
  BY <1>6 DEF Directory!scimVars, PatchInv, Patching, Formed, Grouped
<1>7. QED
  BY <1>1, <1>2, <1>3, <1>4, <1>5, <1>6 DEF Directory!Next

(* The write of a patch that took effect.                                  *)
LEMMA PatchWrites ==
  ASSUME NEW r \in Requests, Directory!Write(r), Directory!Writes(r), ScimInv, PatchInv,
         req[r].ask.id # None
  PROVE  LET ask == req[r].ask
         IN /\ Directory!Target(ask) # None
            /\ Directory!Put(ask, ask.id, Directory!Written(ask, req[r].write,
                                                            Directory!Target(ask)))
<1> DEFINE q == req[r]
           ask == q.ask
           At(id) == IF ask.on = "user" THEN users[id] ELSE groups[id]
           record(id) == Directory!Written(ask, q.write, At(id))
<1>1. PICK id \in Directory!Places(ask), lost \in BOOLEAN :
        IF Directory!Conflicts(ask, id, record(id))
        THEN ~lost /\ Directory!Finish(r, q, 409) /\ Directory!DirectoryIsUnchanged
        ELSE IF Directory!HostRefuses(ask, record(id))
        THEN ~lost /\ Directory!Finish(r, q, 400) /\ Directory!DirectoryIsUnchanged
        ELSE /\ Directory!Put(ask, id, record(id))
             /\ Directory!Finish(r, [q EXCEPT !.took = IF lost THEN record(id) ELSE @],
                                 IF lost THEN 500 ELSE Directory!Success(ask))
  BY DEF Directory!Write
<1> HIDE DEF record
<1>2. ASSUME NEW code \in Nat, code >= 400 PROVE ~Directory!Finish(r, q, code)
  <2>1. SUFFICES ASSUME Directory!Finish(r, q, code) PROVE FALSE
    OBVIOUS
  <2>2. req'[r] = [q EXCEPT !.pc = "done", !.status = code]
    BY <2>1 DEF Directory!Finish, Directory!Becomes, ScimInv
  <2>3. IsRequest(q)
    BY DEF ScimInv, RequestFits
  <2>4. req'[r].status = code /\ req'[r].took = req[r].took
    BY <2>2, <2>3 DEF IsRequest
  <2>5. QED
    BY <1>2, <2>4 DEF Directory!Writes
<1>3. id = ask.id /\ Directory!Target(ask) # None /\ At(id) = Directory!Target(ask)
  BY DEF Directory!Places, Directory!Target
<1>4. Directory!Put(ask, id, record(id))
  BY <1>1, <1>2
<1>5. QED
  BY <1>3, <1>4 DEF record

(* Only a write is a write.                                                *)
LEMMA OnlyWritesWrite ==
  ASSUME ScimInv, [Directory!Next]_(Directory!scimVars), NEW r \in Requests,
         Directory!Writes(r)
  PROVE  Directory!Write(r)
<1>1. CASE UNCHANGED Directory!scimVars
  BY <1>1 DEF Directory!scimVars, Directory!Writes
<1>2. ASSUME NEW p \in Requests, p # r, NEW q, Directory!Becomes(p, q) PROVE FALSE
  BY <1>2 DEF Directory!Becomes, Directory!Writes, ScimInv
<1>3. ASSUME NEW p \in Requests,
             \/ Directory!HandleScimRequest(p) \/ Directory!Find(p) \/ Directory!Load(p)
             \/ Directory!Repeat(p)
      PROVE  p # r
  BY <1>3 DEF Directory!HandleScimRequest, Directory!Find, Directory!Load,
    Directory!Repeat, Directory!Writes
<1>4. ASSUME NEW p \in Requests,
             \/ Directory!HandleScimRequest(p) \/ Directory!Find(p) \/ Directory!Load(p)
             \/ Directory!Repeat(p) \/ Directory!Write(p) \/ Directory!HostFails(p)
      PROVE  \E q : Directory!Becomes(p, q)
  BY <1>4 DEF Directory!HandleScimRequest, Directory!Find, Directory!Load,
    Directory!Repeat, Directory!Write, Directory!HostFails, Directory!Finish
<1>5. ~Directory!HostFails(r)
  <2>1. SUFFICES ASSUME Directory!HostFails(r) PROVE FALSE
    OBVIOUS
  <2>2. req'[r] = [req[r] EXCEPT !.pc = "done", !.status = 500]
    BY <2>1 DEF Directory!HostFails, Directory!Finish, Directory!Becomes, ScimInv
  <2>3. IsRequest(req[r])
    BY DEF ScimInv, RequestFits
  <2>4. req'[r].status = 500 /\ req'[r].took = req[r].took
    BY <2>2, <2>3 DEF IsRequest
  <2>5. QED
    BY <2>4 DEF Directory!Writes
<1>6. QED
  BY <1>1, <1>2, <1>3, <1>4, <1>5 DEF Directory!Next

LEMMA WrittenGroups ==
  ASSUME Directory!ScimAssumption, ScimInv, PatchInv,
         [Directory!Next]_(Directory!scimVars)
  PROVE  Directory!GroupPatchesAsSaid
<1> SUFFICES ASSUME NEW r \in Requests, Directory!Writes(r), req[r].ask.on = "group",
                    req[r].ask.method = "PATCH"
             PROVE  LET ask == req[r].ask
                        p == req[r].write
                    IN \/ Directory!OrNoMembers(p.add) \cap Directory!OrNoMembers(p.remove) # {}
                       \/ groups'[ask.id].members = Directory!Members(ask.body, groups[ask.id])
  BY DEF Directory!GroupPatchesAsSaid
<1> DEFINE q == req[r]
           ask == q.ask
           at == groups[ask.id]
           over == Directory!Over(q.write.fields, at)
           m == Directory!PatchedMembers(at.members, q.write)
<1>1. Directory!Write(r)
  BY OnlyWritesWrite
<1>2. q.pc = "write" /\ RequestFits(r) /\ Patching(q)
  BY <1>1 DEF Directory!Write, ScimInv, PatchInv
<1>3. ask \in Script[r] /\ Directory!Refusal(ask) = 0
  BY <1>2 DEF RequestFits, Patching
<1>4. /\ ask.id \in GroupIds /\ ask.id # None /\ Directory!IsPatchOp(ask.body)
      /\ Directory!IsGroupPatch(ask.body)
  BY <1>3, AskedRequests
<1>5. /\ Directory!NormalizeGroupPatch(ask.body).error = "none"
      /\ q.write = Directory!NormalizeGroupPatch(ask.body).patch
  BY <1>2 DEF Patching, Directory!Resolve
<1>6. /\ at # None
      /\ Directory!Put(ask, ask.id, Directory!Written(ask, q.write, at))
  BY <1>1, <1>4, PatchWrites DEF Directory!Target
<1>7. groups'[ask.id] = [over EXCEPT !.members = m]
  BY <1>4, <1>6 DEF Directory!Put, Directory!Written, ScimInv
<1>8. "members" \in DOMAIN over
  BY <1>4, <1>6 DEF Directory!Over, PatchInv, Grouped
<1>9. groups'[ask.id].members = m
  <2> HIDE DEF over, m
  <2>1. QED
    BY <1>7, <1>8
<1>10. QED
  BY <1>4, <1>5, <1>9, GroupPatchesMean

LEMMA WrittenUsers ==
  ASSUME Directory!ScimAssumption, ScimInv, PatchInv,
         [Directory!Next]_(Directory!scimVars)
  PROVE  Directory!PatchesAsSaid
<1> SUFFICES ASSUME NEW r \in Requests, Directory!Writes(r), req[r].ask.on = "user",
                    req[r].ask.method = "PATCH", NEW a \in Directory!Attributes
             PROVE  LET ask == req[r].ask
                        was == users[ask.id]
                        becomes == users'[ask.id]
                    IN /\ (\A i \in DOMAIN ask.body : ~Directory!Names(ask.body[i], a))
                            => becomes[a] = was[a]
                       /\ was[a] = req[r].seen[a]
                            => becomes[a] = Directory!OneByOne(ask.body, was)[a]
  BY DEF Directory!PatchesAsSaid
<1> DEFINE q == req[r]
           ask == q.ask
           was == users[ask.id]
<1>1. Directory!Write(r)
  BY OnlyWritesWrite
<1>2. q.pc = "write" /\ RequestFits(r) /\ Patching(q)
  BY <1>1 DEF Directory!Write, ScimInv, PatchInv
<1>3. ask \in Script[r] /\ Directory!Refusal(ask) = 0
  BY <1>2 DEF RequestFits, Patching
<1>4. ask.id \in UserIds /\ ask.id # None /\ Directory!IsPatchOp(ask.body)
  BY <1>3, AskedRequests
<1>5. /\ Directory!NormalizePatch(ask.body, q.seen).error = "none"
      /\ q.write = Directory!NormalizePatch(ask.body, q.seen).patch
  BY <1>2 DEF Patching, Directory!Resolve
<1>6. /\ was # None
      /\ Directory!Put(ask, ask.id, Directory!Written(ask, q.write, was))
  BY <1>1, <1>4, PatchWrites DEF Directory!Target
<1>7. users'[ask.id] = Directory!Over(q.write, was)
  BY <1>4, <1>6 DEF Directory!Put, Directory!Written, ScimInv
<1>8. a \in DOMAIN was
  BY <1>4, <1>6 DEF PatchInv, Formed
<1>9. QED
  BY <1>4, <1>5, <1>7, <1>8, UserPatchesMean

LEMMA ScimStarts == Directory!ScimAssumption /\ Directory!Init => ScimInv /\ PatchInv
<1> SUFFICES ASSUME Directory!ScimAssumption, Directory!Init PROVE ScimInv /\ PatchInv
  OBVIOUS
<1>1. req = [r \in Requests |-> Directory!Idle]
  BY DEF Directory!Init
<1>2. /\ IsRequest(Directory!Idle) /\ Directory!Idle.took = None
      /\ Directory!Idle.tries = 0 /\ Directory!Idle.pc = "idle"
  BY DEF IsRequest, Directory!Idle
<1>3. \A r \in Requests : RequestFits(r) /\ Patching(req[r])
  BY <1>1, <1>2 DEF RequestFits, Took, Patching
<1>4. QED
  BY <1>1, <1>3 DEF ScimInv, PatchInv, Formed, Grouped, Directory!Init,
    Directory!ScimAssumption, Directory!InitialDirectory

(* A patch of a user sets only what its operations name, and makes of what *)
(* nobody else has written meanwhile what its operations make of it one by *)
(* one (normalizePatch).                                                   *)
THEOREM UserPatchesMeanWhatTheySay ==
  ASSUME Directory!ScimAssumption
  PROVE  Directory!Spec => Directory!PatchesDoAsTheySay
<1>1. Directory!Init => ScimInv /\ PatchInv
  BY ScimStarts
<1>2. (ScimInv /\ PatchInv) /\ [Directory!Next]_(Directory!scimVars)
      => (ScimInv /\ PatchInv)'
  BY ScimInvariance, PatchInvariance
<1>3. (ScimInv /\ PatchInv) /\ [Directory!Next]_(Directory!scimVars)
      => [Directory!PatchesAsSaid]_(Directory!scimVars)
  BY WrittenUsers
<1>4. QED
  BY <1>1, <1>2, <1>3, PTL DEF Directory!Spec, Directory!PatchesDoAsTheySay

(* A patch of a group has the effect of its operations in their order,     *)
(* whatever the membership is by then and whichever delta the host applies *)
(* first, unless it both adds and removes a member (normalizeGroupPatch).  *)
THEOREM GroupPatchesMeanWhatTheySay ==
  ASSUME Directory!ScimAssumption
  PROVE  Directory!Spec => Directory!GroupPatchesDoAsTheySay
<1>1. Directory!Init => ScimInv /\ PatchInv
  BY ScimStarts
<1>2. (ScimInv /\ PatchInv) /\ [Directory!Next]_(Directory!scimVars)
      => (ScimInv /\ PatchInv)'
  BY ScimInvariance, PatchInvariance
<1>3. (ScimInv /\ PatchInv) /\ [Directory!Next]_(Directory!scimVars)
      => [Directory!GroupPatchesAsSaid]_(Directory!scimVars)
  BY WrittenGroups
<1>4. QED
  BY <1>1, <1>2, <1>3, PTL DEF Directory!Spec, Directory!GroupPatchesDoAsTheySay

----------------------------------------------------------------------------
(* These components beside the others.  A behaviour is one of a single     *)
(* component, from beginning to end.                                       *)
LEMMA PartStays == [Next]_slots => part' = part
  BY DEF Next, slots, Beyond4, Beyond5, Beyond6, Beyond7, Beyond8

LEMMA DirectoryRun ==
  Spec => []~(part = "scim") \/ (Directory!Spec /\ [](part = "scim"))
<1>1. Init /\ part = "scim" => Directory!Init
  BY DEF Init
<1>2. [Next]_slots /\ part = "scim" => [Directory!Next]_(Directory!scimVars)
  BY DEF Next, slots, Directory!scimVars, users, groups, addsFirst, req
<1>3. [Next]_slots => ((part = "scim")' <=> part = "scim")
  BY PartStays
<1>4. QED
  BY <1>1, <1>2, <1>3, PTL DEF Spec, Directory!Spec

LEMMA StoresRun ==
  Spec => []~(part = "stores") \/ (Stores!Spec /\ [](part = "stores"))
<1>1. Init /\ part = "stores" => Stores!Init
  BY DEF Init
<1>2. [Next]_slots /\ part = "stores" => [Stores!Next]_(Stores!storeVars)
  BY DEF Next, slots, Stores!storeVars, backend, rows, now, calls, saves,
     promised, late
<1>3. [Next]_slots => ((part = "stores")' <=> part = "stores")
  BY PartStays
<1>4. QED
  BY <1>1, <1>2, <1>3, PTL DEF Spec, Stores!Spec

LEMMA RefreshesRun ==
  Spec => []~(part = "tokens") \/ (Refreshes!Spec /\ [](part = "tokens"))
<1>1. Init /\ part = "tokens" => Refreshes!Init
  BY DEF Init
<1>2. [Next]_slots /\ part = "tokens" => [Refreshes!Next]_(Refreshes!vars)
  BY DEF Next, slots, Refreshes!vars, adapter, tokenNow, tokenRows, saved, index,
     tokenCalls
<1>3. [Next]_slots => ((part = "tokens")' <=> part = "tokens")
  BY PartStays
<1>4. QED
  BY <1>1, <1>2, <1>3, PTL DEF Spec, Refreshes!Spec

LEMMA SigningKeysRun ==
  Spec => []~(part = "keys") \/ (SigningKeys!Spec /\ [](part = "keys"))
<1>1. Init /\ part = "keys" => SigningKeys!Init
  BY DEF Init
<1>2. [Next]_slots /\ part = "keys" => [SigningKeys!Next]_(SigningKeys!vars)
  BY DEF Next, slots, SigningKeys!vars, keyRows, keyCalls, jwks, verify
<1>3. [Next]_slots => ((part = "keys")' <=> part = "keys")
  BY PartStays
<1>4. QED
  BY <1>1, <1>2, <1>3, PTL DEF Spec, SigningKeys!Spec

(* A patch of a user does what its operations say, one by one, and leaves  *)
(* alone what somebody else wrote meanwhile (domain/scim/patch.ts).        *)
THEOREM UserPatchesDoAsTheySay == Spec => PatchesDoAsTheySay
<1>1. Directory!Spec => [][Directory!PatchesAsSaid]_(Directory!scimVars)
  BY UserPatchesMeanWhatTheySay, DirectoryAssumption DEF Directory!PatchesDoAsTheySay
<1>2. [Next]_slots /\ part = "scim" /\ [Directory!PatchesAsSaid]_(Directory!scimVars)
      => [part = "scim" => Directory!PatchesAsSaid]_slots
  BY DEF Next, Beyond4, slots, Directory!scimVars, users, groups, addsFirst, req
<1>3. [Next]_slots /\ ~(part = "scim")
      => [part = "scim" => Directory!PatchesAsSaid]_slots
  OBVIOUS
<1>4. QED
  BY <1>1, <1>2, <1>3, DirectoryRun, PTL DEF Spec, PatchesDoAsTheySay

(* A patch of a group does what its operations say, in whichever order the *)
(* host applies the deltas (domain/scim/patch.ts).                         *)
THEOREM GroupPatchesDoAsSaid == Spec => GroupPatchesDoAsTheySay
<1>1. Directory!Spec => [][Directory!GroupPatchesAsSaid]_(Directory!scimVars)
  BY GroupPatchesMeanWhatTheySay, DirectoryAssumption DEF Directory!GroupPatchesDoAsTheySay
<1>2. [Next]_slots /\ part = "scim" /\ [Directory!GroupPatchesAsSaid]_(Directory!scimVars)
      => [part = "scim" => Directory!GroupPatchesAsSaid]_slots
  BY DEF Next, Beyond4, slots, Directory!scimVars, users, groups, addsFirst, req
<1>3. [Next]_slots /\ ~(part = "scim")
      => [part = "scim" => Directory!GroupPatchesAsSaid]_slots
  OBVIOUS
<1>4. QED
  BY <1>1, <1>2, <1>3, DirectoryRun, PTL DEF Spec, GroupPatchesDoAsTheySay

(* Every session store is a map with expiry, up to one known loss: the     *)
(* lazy deletion of expired rows (adapters/<name>/session-store.ts).       *)
THEOREM StoresStayMaps == Spec => []StoresAreMaps
<1>1. Stores!Spec => []Stores!StoresAreMaps
  BY SessionStoresAreMaps, SessionsAssumption
<1>2. QED
  BY <1>1, StoresRun, PTL DEF StoresAreMaps

(* Concurrent presentations of a refresh token have exactly one winner in  *)
(* every database adapter (consumeRefresh, adapters/<name>/token-          *)
(* store.ts).                                                              *)
THEOREM RefreshesHaveOneWinner == Spec => []OneWinner
<1>1. Refreshes!Spec => []Refreshes!OneWinner
  BY SingleWinners, TokensAssumption
<1>2. OneWinner <=> (part = "tokens" => Refreshes!OneWinner)
  BY DEF OneWinner
<1>3. QED
  BY <1>1, <1>2, RefreshesRun, PTL

(* A call is told of reuse only when another one has really consumed the   *)
(* token, whatever the clocks say (consumeRefresh).                        *)
THEOREM RefreshReuseIsReal == Spec => []ReuseHasAWinner
<1>1. Refreshes!Spec => []Refreshes!ReuseHasAWinner
  BY ReuseIsReal, TokensAssumption
<1>2. ReuseHasAWinner <=> (part = "tokens" => Refreshes!ReuseHasAWinner)
  BY DEF ReuseHasAWinner
<1>3. QED
  BY <1>1, <1>2, RefreshesRun, PTL

(* A revocation that answers ok leaves nothing of what was there when it   *)
(* began, save deletions DynamoDB lost (revokeFamily).                     *)
THEOREM RevocationsAreComplete == Spec => []RevocationsReachWhatIsThere
<1>1. Refreshes!Spec => []Refreshes!RevocationsReachWhatIsThere
  BY RevocationsReach, TokensAssumption
<1>2. RevocationsReachWhatIsThere <=> (part = "tokens" => Refreshes!RevocationsReachWhatIsThere)
  BY DEF RevocationsReachWhatIsThere
<1>3. QED
  BY <1>1, <1>2, RefreshesRun, PTL

(* The issuer knows every key it used, whichever first keys raced          *)
(* (adapters/<name>/key-store.ts, ensureSigningKey).                      *)
THEOREM IssuersKnowTheirKeys == Spec => []IssuerKnowsItsKeys
<1>1. IssuerKnowsItsKeys <=> (part = "keys" => SigningKeys!IssuerKnowsItsKeys)
  BY DEF IssuerKnowsItsKeys
<1>2. QED
  BY <1>1, KeysKnown, SigningKeysRun, PTL

(* A relying party turns a token down only if several first keys were made *)
(* (client.ts, the cached JWKS).                                           *)
THEOREM RejectionsShowARace == Spec => []RejectionsNeedARace
<1>1. RejectionsNeedARace <=> (part = "keys" => SigningKeys!RejectionsNeedARace)
  BY DEF RejectionsNeedARace
<1>2. QED
  BY <1>1, RejectionsRaced, SigningKeysRun, PTL
=============================================================================

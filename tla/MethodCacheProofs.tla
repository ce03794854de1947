-------------------------- MODULE MethodCacheProofs --------------------------
(***************************************************************************)
(* Proofs about MethodCache: what the caches of any number of servers      *)
(* serve to any number of requests, while any number of operators change   *)
(* the configuration.                                                      *)
(***************************************************************************)
EXTENDS MethodCache, TLAPS

Versions == 1 .. Len(stored)

RequestRecord ==
  [pc : {"idle", "loaded", "building", "done"}, server : Servers \cup {"none"},
   cfg : Nat, floor : Nat, ceil : Nat, used : Nat,
   out : {"none", "served", "refused"}]

TypeOK ==
  /\ stored \in Seq(Content)
  /\ cache \in [Servers -> Versions \cup {0}]
  /\ disabled \in [Servers -> Versions \cup {0}]
  /\ applied \in [Servers -> Versions]
  /\ put \in [Puts -> [pc : {"idle", "written", "done"}, version : Nat]]
  /\ \A p \in Puts : put[p].pc # "idle" => put[p].version \in Versions
  /\ req \in [Requests -> RequestRecord]

(* A request has loaded a version; what was applied at its server when it  *)
(* did, it has been since.  A build was of the version in hand.            *)
RequestOK(q) ==
  /\ q.pc # "idle" => /\ q.server \in Servers /\ q.cfg \in Versions
                      /\ q.floor <= applied[q.server]
  /\ IF q.pc = "done" THEN q.used \in Versions ELSE q.out = "none"
  /\ q.ceil # 0 => q.pc = "done" /\ q.used = q.cfg

RequestsOK == \A r \in Requests : RequestOK(req[r])

(* Whatever a server holds of the method, good or refused, was built there *)
(* since the last invalidation reached it.                                 *)
BuiltSince(s, v) ==
  \E q \in Requests :
    /\ req[q].pc = "done" /\ req[q].server = s
    /\ req[q].cfg = v /\ req[q].ceil = applied[s]

FreshAt(s) ==
  /\ cache[s] # 0 => stored[cache[s]] = "good" /\ BuiltSince(s, cache[s])
  /\ disabled[s] # 0 => BuiltSince(s, disabled[s])

CachesAreFresh == \A s \in Servers : FreshAt(s)

----------------------------------------------------------------------------
LEMMA BecomesType ==
  ASSUME TypeOK, NEW r \in Requests, NEW q \in RequestRecord, Becomes(r, q)
  PROVE  /\ req' \in [Requests -> RequestRecord]
         /\ req'[r] = q
         /\ \A x \in Requests \ {r} : req'[x] = req[x]
  BY DEF TypeOK, Becomes

(* A request that is answered without a build. *)
LEMMA AnswerType ==
  ASSUME TypeOK, NEW r \in Requests, NEW v \in Nat,
         NEW result \in {"served", "refused"},
         Becomes(r, Answer(req[r], v, result))
  PROVE  /\ req' \in [Requests -> RequestRecord]
         /\ req'[r].pc = "done" /\ req'[r].used = v /\ req'[r].out = result
         /\ req'[r].server = req[r].server /\ req'[r].cfg = req[r].cfg
         /\ req'[r].floor = req[r].floor /\ req'[r].ceil = req[r].ceil
         /\ \A x \in Requests \ {r} : req'[x] = req[x]
<1> DEFINE q == Answer(req[r], v, result)
<1>1. req[r] \in RequestRecord
  BY DEF TypeOK
<1>2. /\ q \in RequestRecord
      /\ q.pc = "done" /\ q.used = v /\ q.out = result
      /\ q.server = req[r].server /\ q.cfg = req[r].cfg
      /\ q.floor = req[r].floor /\ q.ceil = req[r].ceil
  BY <1>1 DEF Answer, RequestRecord
<1>3. Becomes(r, q)
  OBVIOUS
<1> HIDE DEF q
<1>4. QED
  BY <1>2, <1>3, BecomesType

(* A request whose build has ended. *)
LEMMA BuiltType ==
  ASSUME TypeOK, NEW r \in Requests, req[r].server \in Servers,
         NEW result \in {"served", "refused"}, Built(r, result)
  PROVE  /\ req' \in [Requests -> RequestRecord]
         /\ req'[r].pc = "done" /\ req'[r].used = req[r].cfg
         /\ req'[r].out = result
         /\ req'[r].server = req[r].server /\ req'[r].cfg = req[r].cfg
         /\ req'[r].floor = req[r].floor
         /\ req'[r].ceil = applied[req[r].server]
         /\ \A x \in Requests \ {r} : req'[x] = req[x]
<1> DEFINE q == [Answer(req[r], req[r].cfg, result)
                   EXCEPT !.ceil = applied[req[r].server]]
<1>1. req[r] \in RequestRecord /\ applied[req[r].server] \in Nat
  BY DEF TypeOK, Versions
<1>2. /\ q \in RequestRecord
      /\ q.pc = "done" /\ q.used = req[r].cfg /\ q.out = result
      /\ q.server = req[r].server /\ q.cfg = req[r].cfg
      /\ q.floor = req[r].floor /\ q.ceil = applied[req[r].server]
  BY <1>1 DEF Answer, RequestRecord
<1>3. Becomes(r, q)
  BY DEF Built
<1> HIDE DEF q
<1>4. QED
  BY <1>2, <1>3, BecomesType

LEMMA LoadType ==
  ASSUME TypeOK, NEW r \in Requests, NEW s \in Servers, NEW v \in Readable,
         Load(r, s, v)
  PROVE  /\ req' \in [Requests -> RequestRecord]
         /\ req'[r].pc = "loaded" /\ req'[r].server = s /\ req'[r].cfg = v
         /\ req'[r].floor = applied[s] /\ req'[r].ceil = 0
         /\ req'[r].out = "none"
         /\ \A x \in Requests \ {r} : req'[x] = req[x]
<1> DEFINE q == [Idle EXCEPT !.pc = "loaded", !.server = s, !.cfg = v,
                   !.floor = applied[s]]
<1>1. v \in Nat /\ applied[s] \in Nat
  BY DEF TypeOK, Versions, Readable
<1>2. /\ q \in RequestRecord
      /\ q.pc = "loaded" /\ q.server = s /\ q.cfg = v
      /\ q.floor = applied[s] /\ q.ceil = 0 /\ q.out = "none"
  BY <1>1 DEF Idle, RequestRecord
<1>3. Becomes(r, q)
  BY DEF Load
<1> HIDE DEF q
<1>4. QED
  BY <1>2, <1>3, BecomesType

(* A version that is applied at a server; the version is of the store. *)
LEMMA ApplyType ==
  ASSUME TypeOK, NEW s \in Servers, NEW version \in Versions, Apply(s, version)
  PROVE  /\ cache' \in [Servers -> Versions \cup {0}]
         /\ disabled' \in [Servers -> Versions \cup {0}]
         /\ applied' \in [Servers -> Versions]
         /\ cache'[s] = 0 /\ disabled'[s] = 0 /\ applied[s] <= applied'[s]
         /\ \A x \in Servers \ {s} : /\ cache'[x] = cache[x]
                                     /\ disabled'[x] = disabled[x]
                                     /\ applied'[x] = applied[x]
<1>1. applied[s] \in Versions
  BY DEF TypeOK
<1>2. QED
  BY <1>1 DEF TypeOK, Apply, Invalidate, Versions

LEMMA PutWritesType ==
  ASSUME TypeOK, NEW p \in Puts, NEW c \in Content, PutWrites(p, c)
  PROVE  /\ stored' \in Seq(Content) /\ Len(stored') = Len(stored) + 1
         /\ \A v \in Versions : v \in Versions' /\ stored'[v] = stored[v]
  BY DEF TypeOK, PutWrites, Versions

LEMMA TypeStep ==
  ASSUME TypeOK, RequestsOK, [Next]_vars
  PROVE  TypeOK'
<1>a. ASSUME UNCHANGED <<stored, applied, put>>,
             cache' \in [Servers -> Versions \cup {0}],
             disabled' \in [Servers -> Versions \cup {0}],
             req' \in [Requests -> RequestRecord]
      PROVE  TypeOK'
  BY <1>a DEF TypeOK, Versions
<1>1. ASSUME NEW p \in Puts, NEW c \in Content, PutWrites(p, c) PROVE TypeOK'
  <2>1. Len(stored) \in Nat /\ Len(stored') \in Versions'
    BY <1>1, PutWritesType DEF TypeOK, Versions
  <2>2. /\ cache' \in [Servers -> Versions' \cup {0}]
        /\ disabled' \in [Servers -> Versions' \cup {0}]
        /\ applied' \in [Servers -> Versions']
    BY <1>1, PutWritesType DEF TypeOK, PutWrites
  <2>3. /\ put' \in [Puts -> [pc : {"idle", "written", "done"}, version : Nat]]
        /\ \A q \in Puts : put'[q].pc # "idle" => put'[q].version \in Versions'
    <3>1. /\ Len(stored) + 1 \in Nat /\ Len(stored) + 1 \in Versions'
          /\ \A v \in Versions : v \in Versions'
      BY <1>1, <2>1, PutWritesType
    <3>2. put' = [put EXCEPT ![p] = [pc |-> "written", version |-> Len(stored) + 1]]
      BY <1>1 DEF PutWrites
    <3>3. QED
      BY <3>1, <3>2 DEF TypeOK
  <2>4. QED
    BY <1>1, <2>2, <2>3, PutWritesType DEF TypeOK, PutWrites
<1>2. ASSUME NEW p \in Puts, NEW s \in Servers, PutNotifies(p, s) \/ HostNotifies(p, s)
      PROVE  TypeOK'
  <2>1. put[p].version \in Versions /\ Apply(s, put[p].version) /\ stored' = stored
    BY <1>2 DEF TypeOK, PutNotifies, HostNotifies
  <2>2. Versions' = Versions
    BY <2>1 DEF Versions
  <2>3. /\ put' \in [Puts -> [pc : {"idle", "written", "done"}, version : Nat]]
        /\ \A q \in Puts : put'[q].pc # "idle" => put'[q].version \in Versions
    BY <1>2 DEF TypeOK, PutNotifies, HostNotifies
  <2>4. QED
    BY <1>2, <2>1, <2>2, <2>3, ApplyType DEF TypeOK, PutNotifies, HostNotifies
<1>3. ASSUME NEW r \in Requests, NEW s \in Servers, NEW v \in Readable, Load(r, s, v)
      PROVE  TypeOK'
  BY <1>3, <1>a, LoadType DEF Load, TypeOK
<1>4. ASSUME NEW r \in Requests, Continue(r) PROVE TypeOK'
  <2>a. /\ req[r].pc # "idle" => req[r].server \in Servers /\ req[r].cfg \in Versions
        /\ \A v \in Versions : v \in Nat
    BY DEF RequestsOK, RequestOK, Versions
  <2>1. CASE ResolveHit(r) \/ ResolveDisabled(r)
    <3>1. /\ cache[req[r].server] \in Nat /\ disabled[req[r].server] \in Nat
      BY <2>1, <2>a DEF ResolveHit, ResolveDisabled, TypeOK
    <3>2. QED
      BY <2>1, <3>1, <1>a, AnswerType DEF ResolveHit, ResolveDisabled, TypeOK
  <2>2. CASE ResolveMisses(r)
    <3>1. [req[r] EXCEPT !.pc = "building"] \in RequestRecord
      BY DEF TypeOK, RequestRecord
    <3>2. req' \in [Requests -> RequestRecord]
      BY <2>2, <2>a, <3>1, AnswerType, BecomesType DEF ResolveMisses
    <3>3. QED
      BY <2>2, <3>2, <1>a DEF ResolveMisses, TypeOK
  <2>3. CASE BuildSucceeds(r) \/ BuildFails(r)
    <3>1. req' \in [Requests -> RequestRecord]
      BY <2>3, <2>a, BuiltType DEF BuildSucceeds, BuildFails
    <3>2. QED
      BY <2>3, <2>a, <3>1, <1>a DEF BuildSucceeds, BuildFails, TypeOK
  <2>4. QED
    BY <1>4, <2>1, <2>2, <2>3 DEF Continue
<1>5. CASE UNCHANGED vars
  BY <1>5 DEF vars, TypeOK, Versions
<1>6. QED
  BY <1>1, <1>2, <1>3, <1>4, <1>5 DEF Next
----------------------------------------------------------------------------
(* What no step undoes: versions stay written, a server does not go back   *)
(* to an older one, and answers stay given.                                *)
Lasting ==
  /\ \A v \in Versions : v \in Versions' /\ stored'[v] = stored[v]
  /\ \A s \in Servers : applied[s] <= applied'[s]
  /\ \A r \in Requests : req[r].pc = "done" => req'[r] = req[r]

LEMMA LastingStep ==
  ASSUME TypeOK, RequestsOK, [Next]_vars
  PROVE  Lasting
<1>a. \A s \in Servers : applied[s] \in Nat
  BY DEF TypeOK, Versions
<1>b. ASSUME UNCHANGED <<stored, applied>>, NEW r \in Requests, NEW q,
             Becomes(r, q), req[r].pc # "done"
      PROVE  Lasting
  BY <1>a, <1>b DEF Lasting, Becomes, TypeOK, Versions
<1>1. ASSUME NEW p \in Puts, NEW c \in Content, PutWrites(p, c) PROVE Lasting
  <2>1. \A v \in Versions : v \in Versions' /\ stored'[v] = stored[v]
    BY <1>1, PutWritesType
  <2>2. applied' = applied /\ req' = req
    BY <1>1 DEF PutWrites
  <2>3. QED
    BY <1>a, <2>1, <2>2 DEF Lasting
<1>2. ASSUME NEW p \in Puts, NEW s \in Servers, PutNotifies(p, s) \/ HostNotifies(p, s)
      PROVE  Lasting
  <2>1. put[p].version \in Versions /\ Apply(s, put[p].version)
        /\ stored' = stored /\ req' = req
    BY <1>2 DEF TypeOK, PutNotifies, HostNotifies
  <2>2. QED
    BY <2>1, <1>a, ApplyType DEF Lasting, Versions
<1>3. ASSUME NEW r \in Requests, NEW s \in Servers, NEW v \in Readable, Load(r, s, v)
      PROVE  Lasting
  BY <1>3, <1>b DEF Load
<1>4. ASSUME NEW r \in Requests, Continue(r) PROVE Lasting
  BY <1>4, <1>b DEF Continue, ResolveHit, ResolveDisabled, ResolveMisses,
       BuildSucceeds, BuildFails, Built
<1>5. CASE UNCHANGED vars
  BY <1>5, <1>a DEF Lasting, vars, Versions
<1>6. QED
  BY <1>1, <1>2, <1>3, <1>4, <1>5 DEF Next

(* What one request must show of itself. *)
ServedOK(r) ==
  req[r].out = "served" =>
    /\ stored[req[r].used] = "good"
    /\ \E q \in Requests : /\ req[q].pc = "done" /\ req[q].ceil # 0
                           /\ req[q].server = req[r].server
                           /\ req[q].cfg = req[r].used

StaleOK(r) ==
  req[r].pc = "done" /\ req[r].used # req[r].cfg /\ req[r].used < req[r].floor =>
    \E q \in Requests :
      /\ req[q].pc = "done" /\ req[q].server = req[r].server
      /\ req[q].cfg = req[r].used /\ req[q].cfg < req[q].ceil

OutcomesOK == \A r \in Requests : ServedOK(r) /\ StaleOK(r)

IInv == RequestsOK /\ CachesAreFresh /\ OutcomesOK

(* A request that does not move is as good after a step as before it.      *)
LEMMA Unmoved ==
  ASSUME Lasting, TypeOK, TypeOK', IInv, NEW r \in Requests, req'[r] = req[r]
  PROVE  RequestOK(req[r])' /\ ServedOK(r)' /\ StaleOK(r)'
<1>1. /\ req[r] \in RequestRecord /\ RequestOK(req[r]) /\ ServedOK(r) /\ StaleOK(r)
      /\ \A s \in Servers : applied[s] \in Nat /\ applied'[s] \in Nat
  BY DEF TypeOK, IInv, RequestsOK, OutcomesOK, Versions
<1>2. RequestOK(req[r])'
  BY <1>1 DEF RequestOK, Lasting, RequestRecord
<1>3. ServedOK(r)'
  BY <1>1 DEF RequestOK, ServedOK, Lasting
<1>4. StaleOK(r)'
  BY <1>1 DEF StaleOK, Lasting
<1>5. QED
  BY <1>2, <1>3, <1>4
(* A cache that a step leaves alone is as fresh as before. *)
LEMMA FreshStays ==
  ASSUME Lasting, TypeOK, IInv, NEW s \in Servers,
         cache'[s] = cache[s], disabled'[s] = disabled[s], applied'[s] = applied[s]
  PROVE  FreshAt(s)'
<1>1. /\ FreshAt(s) /\ cache[s] \in Versions \cup {0}
  BY DEF IInv, CachesAreFresh, TypeOK
<1>2. ASSUME NEW v, BuiltSince(s, v) PROVE BuiltSince(s, v)'
  BY <1>2 DEF BuiltSince, Lasting
<1>3. QED
  BY <1>1, <1>2 DEF FreshAt, Lasting, BuiltSince

LEMMA FreshStep ==
  ASSUME Lasting, TypeOK, IInv, [Next]_vars, NEW s \in Servers
  PROVE  FreshAt(s)'
<1>1. ASSUME NEW p \in Puts, NEW x \in Servers, PutNotifies(p, x) \/ HostNotifies(p, x)
      PROVE  FreshAt(s)'
  <2>1. put[p].version \in Versions /\ Apply(x, put[p].version)
    BY <1>1 DEF TypeOK, PutNotifies, HostNotifies
  <2>2. CASE x = s
    BY <2>1, <2>2, ApplyType DEF FreshAt
  <2>3. CASE x # s
    BY <2>1, <2>3, ApplyType, FreshStays
  <2>4. QED
    BY <2>2, <2>3
<1>2. ASSUME NEW r \in Requests, BuildSucceeds(r) \/ BuildFails(r) PROVE FreshAt(s)'
  <2>1. /\ req[r].server \in Servers /\ req[r].cfg \in Versions
        /\ req'[r].pc = "done" /\ req'[r].server = req[r].server
        /\ req'[r].cfg = req[r].cfg /\ req'[r].ceil = applied[req[r].server]
    BY <1>2, BuiltType DEF BuildSucceeds, BuildFails, IInv, RequestsOK, RequestOK
  <2>2. stored' = stored /\ applied' = applied
    BY <1>2 DEF BuildSucceeds, BuildFails
  <2>3. CASE req[r].server # s
    BY <1>2, <2>2, <2>3, FreshStays DEF BuildSucceeds, BuildFails, TypeOK
  <2>4. CASE req[r].server = s
    <3>1. BuiltSince(s, req[r].cfg)'
      BY <2>1, <2>2, <2>4 DEF BuiltSince
    <3>2. ASSUME NEW v, BuiltSince(s, v) PROVE BuiltSince(s, v)'
      BY <2>2, <3>2 DEF BuiltSince, Lasting
    <3>3. FreshAt(s)
      BY DEF IInv, CachesAreFresh
    <3>4. CASE BuildSucceeds(r)
      <4>1. /\ cache'[s] = req[r].cfg /\ disabled' = disabled
            /\ stored[req[r].cfg] = "good"
        BY <2>4, <3>4 DEF BuildSucceeds, TypeOK
      <4>2. QED
        BY <2>1, <2>2, <3>1, <3>2, <3>3, <4>1 DEF FreshAt, BuiltSince
    <3>5. CASE BuildFails(r)
      <4>1. disabled'[s] = req[r].cfg /\ cache' = cache
        BY <2>4, <3>5 DEF BuildFails, TypeOK
      <4>2. QED
        BY <2>1, <2>2, <3>1, <3>2, <3>3, <4>1 DEF FreshAt, BuiltSince
    <3>6. QED
      BY <1>2, <3>4, <3>5
  <2>5. QED
    BY <2>3, <2>4
<1>3. ASSUME cache' = cache, disabled' = disabled, applied' = applied
      PROVE  FreshAt(s)'
  BY <1>3, FreshStays
<1>4. QED
  BY <1>1, <1>2, <1>3
     DEF Next, Continue, PutWrites, Load, ResolveHit, ResolveDisabled,
         ResolveMisses, vars

(* A request that takes a step shows what it must. *)
LEMMA RequestStep ==
  ASSUME Lasting, TypeOK, TypeOK', IInv, [Next]_vars,
         NEW r \in Requests, req'[r] # req[r]
  PROVE  RequestOK(req[r])' /\ ServedOK(r)' /\ StaleOK(r)'
<1>a. /\ req[r] \in RequestRecord /\ RequestOK(req[r])
      /\ \A v \in Versions : v \in Nat /\ v # 0
      /\ \A s \in Servers : applied[s] \in Versions /\ FreshAt(s)
  BY DEF TypeOK, IInv, RequestsOK, CachesAreFresh, Versions
<1>b. ASSUME NEW x \in Requests, NEW q, Becomes(x, q) PROVE x = r
  BY <1>b DEF Becomes, TypeOK
<1>1. ASSUME NEW s \in Servers, NEW v \in Readable, Load(r, s, v)
      PROVE  RequestOK(req[r])' /\ ServedOK(r)' /\ StaleOK(r)'
  <2>1. v \in Versions /\ Versions' = Versions /\ applied' = applied
    BY <1>1 DEF Load, Readable, Versions
  <2>2. QED
    BY <1>1, <1>a, <2>1, LoadType DEF RequestOK, ServedOK, StaleOK
<1>2. ASSUME NEW v \in Versions, NEW result \in {"served", "refused"},
             Becomes(r, Answer(req[r], v, result)), req[r].pc = "loaded",
             UNCHANGED <<stored, applied>>,
             result = "served" => stored[v] = "good",
             \/ v = req[r].cfg /\ result = "refused"
             \/ BuiltSince(req[r].server, v)
      PROVE  RequestOK(req[r])' /\ ServedOK(r)' /\ StaleOK(r)'
  <2>1. /\ req'[r].pc = "done" /\ req'[r].used = v /\ req'[r].out = result
        /\ req'[r].server = req[r].server /\ req'[r].cfg = req[r].cfg
        /\ req'[r].floor = req[r].floor /\ req'[r].ceil = 0
    BY <1>2, <1>a, AnswerType DEF RequestOK
  <2>2. RequestOK(req[r])'
    BY <1>2, <1>a, <2>1 DEF RequestOK, Versions
  <2>3. BuiltSince(req[r].server, v) =>
          \E q \in Requests :
            /\ req'[q].pc = "done" /\ req'[q].server = req[r].server
            /\ req'[q].cfg = v /\ req'[q].ceil = applied[req[r].server]
    BY DEF BuiltSince, Lasting
  <2>4. /\ applied[req[r].server] # 0
        /\ req[r].floor <= applied[req[r].server]
        /\ {v, req[r].floor, applied[req[r].server]} \subseteq Nat
    BY <1>2, <1>a DEF RequestOK, RequestRecord
  <2>5. ServedOK(r)'
    BY <1>2, <2>1, <2>3, <2>4 DEF ServedOK
  <2>6. StaleOK(r)'
    <3>1. v < req[r].floor => v < applied[req[r].server]
      BY <2>4
    <3>2. QED
      BY <1>2, <2>1, <2>3, <3>1 DEF StaleOK
  <2>7. QED
    BY <2>2, <2>5, <2>6
<1>3. CASE ResolveHit(r) \/ ResolveDisabled(r) \/ ResolveMisses(r)
  <2>1. /\ req[r].pc = "loaded" /\ req[r].server \in Servers /\ req[r].cfg \in Versions
        /\ UNCHANGED <<stored, applied>>
    BY <1>3, <1>a DEF ResolveHit, ResolveDisabled, ResolveMisses, RequestOK
  <2>2. /\ FreshAt(req[r].server)
        /\ cache[req[r].server] \in Versions \cup {0}
        /\ disabled[req[r].server] \in Versions \cup {0}
    BY <2>1, <1>a DEF TypeOK
  <2>3. CASE ResolveHit(r)
    BY <1>2, <2>1, <2>2, <2>3 DEF ResolveHit, FreshAt
  <2>4. CASE ResolveDisabled(r)
    BY <1>2, <2>1, <2>2, <2>4 DEF ResolveDisabled, FreshAt
  <2>5. CASE Becomes(r, Answer(req[r], req[r].cfg, "refused"))
    BY <1>2, <2>1, <2>5
  <2>6. CASE Becomes(r, [req[r] EXCEPT !.pc = "building"])
    <3>1. [req[r] EXCEPT !.pc = "building"] \in RequestRecord
      BY <1>a DEF RequestRecord
    <3>2. req'[r] = [req[r] EXCEPT !.pc = "building"]
      BY <2>6, <3>1, BecomesType
    <3>3. /\ req'[r].pc = "building" /\ req'[r].out = "none"
          /\ req'[r].server = req[r].server /\ req'[r].cfg = req[r].cfg
          /\ req'[r].floor = req[r].floor /\ req'[r].ceil = 0
      BY <1>a, <2>1, <3>2 DEF RequestOK, RequestRecord
    <3>4. QED
      BY <1>a, <2>1, <3>3 DEF RequestOK, ServedOK, StaleOK, Versions
  <2>7. QED
    BY <1>3, <2>3, <2>4, <2>5, <2>6 DEF ResolveMisses
<1>4. CASE BuildSucceeds(r) \/ BuildFails(r)
  <2>1. /\ req[r].pc = "building" /\ req[r].server \in Servers
        /\ req[r].cfg \in Versions /\ UNCHANGED <<stored, applied>>
    BY <1>4, <1>a DEF BuildSucceeds, BuildFails, RequestOK
  <2>2. PICK result \in {"served", "refused"} :
          Built(r, result) /\ (result = "served" => stored[req[r].cfg] = "good")
    BY <1>4 DEF BuildSucceeds, BuildFails
  <2>3. /\ req'[r].pc = "done" /\ req'[r].used = req[r].cfg
        /\ req'[r].out = result
        /\ req'[r].server = req[r].server /\ req'[r].cfg = req[r].cfg
        /\ req'[r].floor = req[r].floor /\ req'[r].ceil = applied[req[r].server]
    BY <2>1, <2>2, BuiltType
  <2>4. applied[req[r].server] # 0
    BY <1>a, <2>1
  <2>5. RequestOK(req[r])'
    BY <1>a, <2>1, <2>3 DEF RequestOK, Versions
  <2>6. QED
    BY <2>1, <2>2, <2>3, <2>4, <2>5 DEF ServedOK, StaleOK
<1>5. CASE UNCHANGED req
  BY <1>5
<1>6. ASSUME NEW x \in Requests, x # r,
             (\E s, v : Load(x, s, v)) \/ Continue(x)
      PROVE  FALSE
  BY <1>b, <1>6 DEF Load, Continue, ResolveHit, ResolveDisabled, ResolveMisses,
       BuildSucceeds, BuildFails, Built
<1>7. QED
  BY <1>1, <1>3, <1>4, <1>5, <1>6
     DEF Next, Continue, PutWrites, PutNotifies, HostNotifies, vars

(* The invariant, whatever the servers, requests and changes. *)
THEOREM Invariance == Spec => [](TypeOK /\ IInv)
<1>1. Init => TypeOK /\ IInv
  <2> SUFFICES ASSUME Init PROVE TypeOK /\ IInv
    OBVIOUS
  <2>1. Idle \in RequestRecord
    BY DEF Idle, RequestRecord
  <2>2. stored \in Seq(Content) /\ Len(stored) = 1
    BY DEF Init, Content
  <2>3. TypeOK
    BY <2>1, <2>2 DEF Init, TypeOK, Versions
  <2>4. IInv
    BY DEF Init, IInv, RequestsOK, RequestOK, CachesAreFresh, FreshAt,
           OutcomesOK, ServedOK, StaleOK, Idle
  <2>5. QED
    BY <2>3, <2>4
<1>2. TypeOK /\ IInv /\ [Next]_vars => (TypeOK /\ IInv)'
  <2> SUFFICES ASSUME TypeOK, IInv, [Next]_vars PROVE TypeOK' /\ IInv'
    OBVIOUS
  <2>1. TypeOK' /\ Lasting
    BY TypeStep, LastingStep DEF IInv
  <2>2. CachesAreFresh'
    BY <2>1, FreshStep DEF CachesAreFresh
  <2>3. ASSUME NEW r \in Requests
        PROVE  RequestOK(req[r])' /\ ServedOK(r)' /\ StaleOK(r)'
    BY <2>1, RequestStep, Unmoved
  <2>4. QED
    BY <2>1, <2>2, <2>3 DEF IInv, RequestsOK, OutcomesOK
<1>3. QED
  BY <1>1, <1>2, PTL DEF Spec

(* Whatever the configuration becomes meanwhile, a request is served by a  *)
(* method that was good when its own server built it (resolve).            *)
THEOREM ServedMethodsAreGood == Spec => []ServedMethodsWereBuiltHere
<1>1. IInv => ServedMethodsWereBuiltHere
  BY DEF IInv, OutcomesOK, ServedOK, ServedMethodsWereBuiltHere
<1>2. QED
  BY <1>1, Invariance, PTL

(* A version that was applied at a server is gone from its cache for good, *)
(* but for a build that was under way or read behind it (onInvalidate).    *)
THEOREM StalenessHasACause == Spec => []StaleOnlyThroughABuild
<1>1. IInv => StaleOnlyThroughABuild
  BY DEF IInv, OutcomesOK, StaleOK, StaleOnlyThroughABuild
<1>2. QED
  BY <1>1, Invariance, PTL
=============================================================================

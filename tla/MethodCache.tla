----------------------------- MODULE MethodCache -----------------------------
(***************************************************************************)
(* The in-process cache of built methods (domain/method-cache.ts) beside   *)
(* a ConfigStore that several servers share: requests load the tenant's    *)
(* configuration, resolve the method by way of the cache, and operators    *)
(* replace the configuration meanwhile.                                    *)
(*                                                                         *)
(* One tenant and one method instance: the cache's keys are                *)
(* (tenant, instance) pairs and what happens under one key never touches   *)
(* another.  Versions of the configuration are numbered by the order in    *)
(* which the store wrote them; a built AuthMethod stands for the version   *)
(* it was built from, whose secrets it captures.                           *)
(***************************************************************************)
EXTENDS Naturals, Sequences

CONSTANTS
  Servers,   \* processes, each with a cache of its own
  Requests,  \* requests that need the method
  Puts,      \* calls of putTenantConfig
  MaxLag     \* how many versions a read of the store may be behind

ASSUME CacheAssumption == MaxLag \in Nat

VARIABLES
  stored,   \* the versions of the configuration, oldest first
  cache,    \* MethodCache.#cache: the version the instance was built from
  disabled, \* MethodCache.#disabled: the version that put the key there
  applied,  \* the newest version whose invalidation reached the server
  put,      \* the calls of putTenantConfig
  req       \* the requests

vars == <<stored, cache, disabled, applied, put, req>>

(* What a version says of the method: enabled and valid; enabled, but of an *)
(* unknown kind or against the schema; disabled or absent.                 *)
Content == {"good", "invalid", "off"}

(* A request at a server: the version it loaded; what was applied there    *)
(* when it loaded it, and when it cached its build; what it was served.    *)
Idle == [pc |-> "idle",   \* or "loaded", "building", "done"
         server |-> "none", cfg |-> 0, floor |-> 0, ceil |-> 0, used |-> 0,
         out |-> "none"]  \* or "served", "refused"

Init ==
  /\ stored = <<"good">>
  /\ cache = [s \in Servers |-> 0]
  /\ disabled = [s \in Servers |-> 0]
  /\ applied = [s \in Servers |-> 1]
  /\ put = [p \in Puts |-> [pc |-> "idle", version |-> 0]]
  /\ req = [r \in Requests |-> Idle]

Becomes(r, q) == req' = [req EXCEPT ![r] = q]
Answer(q, version, result) ==
  [q EXCEPT !.pc = "done", !.used = version, !.out = result]

----------------------------------------------------------------------------
(* putTenantConfig: the row is written, and when the write has settled the *)
(* listeners run.  The in-memory store does both at once.                  *)
PutWrites(p, c) ==
  /\ put[p].pc = "idle"
  /\ stored' = Append(stored, c)
  /\ put' = [put EXCEPT ![p] = [pc |-> "written", version |-> Len(stored) + 1]]
  /\ UNCHANGED <<cache, disabled, applied, req>>

(* Variant for mutation: the negative cache is forgotten. *)
InvalidateCached(s) ==
  /\ cache' = [cache EXCEPT ![s] = 0]
  /\ UNCHANGED disabled

Invalidate(s) ==
  /\ cache' = [cache EXCEPT ![s] = 0]
  /\ disabled' = [disabled EXCEPT ![s] = 0]

Apply(s, version) ==
  /\ Invalidate(s)
  /\ applied' = [applied EXCEPT ![s] = IF @ < version THEN version ELSE @]

PutNotifies(p, s) ==
  /\ put[p].pc = "written"
  /\ Apply(s, put[p].version)
  /\ put' = [put EXCEPT ![p].pc = "done"]
  /\ UNCHANGED <<stored, req>>

(* The host's cross-process hook tells another server, if it ever does. *)
HostNotifies(p, s) ==
  /\ put[p].pc = "done"
  /\ applied[s] < put[p].version
  /\ Apply(s, put[p].version)
  /\ UNCHANGED <<stored, put, req>>

----------------------------------------------------------------------------

(* What getTenantConfig may answer. *)
Readable == {v \in 1 .. Len(stored) : v + MaxLag >= Len(stored)}

(* The tenant middleware, or handleCallback, loads the configuration; the  *)
(* request goes on to other awaits before it resolves its method.          *)
Load(r, s, v) ==
  /\ req[r].pc = "idle"
  /\ Becomes(r, [Idle EXCEPT !.pc = "loaded", !.server = s, !.cfg = v,
                   !.floor = applied[s]])
  /\ UNCHANGED <<stored, cache, disabled, applied, put>>

(* resolve: the cache answers before the configuration in hand is looked   *)
(* at, then the negative cache.                                            *)
ResolveHit(r) ==
  LET s == req[r].server
  IN /\ req[r].pc = "loaded"
     /\ cache[s] # 0
     /\ Becomes(r, Answer(req[r], cache[s], "served"))
     /\ UNCHANGED <<stored, cache, disabled, applied, put>>

ResolveDisabled(r) ==
  LET s == req[r].server
  IN /\ req[r].pc = "loaded"
     /\ cache[s] = 0 /\ disabled[s] # 0
     /\ Becomes(r, Answer(req[r], disabled[s], "refused"))
     /\ UNCHANGED <<stored, cache, disabled, applied, put>>

ResolveMisses(r) ==
  LET s == req[r].server
  IN /\ req[r].pc = "loaded"
     /\ cache[s] = 0 /\ disabled[s] = 0
     /\ \/ /\ stored[req[r].cfg] = "off"
           /\ Becomes(r, Answer(req[r], req[r].cfg, "refused"))
        \/ /\ stored[req[r].cfg] # "off"
           /\ Becomes(r, [req[r] EXCEPT !.pc = "building"])
     /\ UNCHANGED <<stored, cache, disabled, applied, put>>

(* #build has settled: the schema's validate and the factory's build are   *)
(* awaited, so a build of an old version may end after newer ones.         *)
Built(r, result) ==
  Becomes(r, [Answer(req[r], req[r].cfg, result)
                EXCEPT !.ceil = applied[req[r].server]])

(* Variant for mutation: the outcome is cached whatever it is. *)
BuildCachesAny(r) ==
  /\ req[r].pc = "building"
  /\ cache' = [cache EXCEPT ![req[r].server] = req[r].cfg]
  /\ Built(r, "served")
  /\ UNCHANGED <<stored, disabled, applied, put>>

BuildSucceeds(r) ==
  /\ req[r].pc = "building"
  /\ stored[req[r].cfg] = "good"
  /\ cache' = [cache EXCEPT ![req[r].server] = req[r].cfg]
  /\ Built(r, "served")
  /\ UNCHANGED <<stored, disabled, applied, put>>

(* The version is invalid, or the factory threw: a factory that fetches    *)
(* discovery documents may do so at any time.                              *)
BuildFails(r) ==
  /\ req[r].pc = "building"
  /\ disabled' = [disabled EXCEPT ![req[r].server] = req[r].cfg]
  /\ Built(r, "refused")
  /\ UNCHANGED <<stored, cache, applied, put>>

----------------------------------------------------------------------------
Continue(r) ==
  \/ ResolveHit(r) \/ ResolveDisabled(r) \/ ResolveMisses(r)
  \/ BuildSucceeds(r) \/ BuildFails(r)

Next ==
  \/ \E p \in Puts :
       \/ \E c \in Content : PutWrites(p, c)
       \/ \E s \in Servers : PutNotifies(p, s) \/ HostNotifies(p, s)
  \/ \E r \in Requests :
       \/ \E s \in Servers, v \in Readable : Load(r, s, v)
       \/ Continue(r)

Spec == Init /\ [][Next]_vars

----------------------------------------------------------------------------
(* What serves the users of the method was enabled and valid when it was   *)
(* built, and it was built at the very server that uses it.                *)
ServedMethodsWereBuiltHere ==
  \A r \in Requests :
    req[r].out = "served" =>
      /\ stored[req[r].used] = "good"
      /\ \E q \in Requests :
           req[q].server = req[r].server /\ req[q].cfg = req[r].used
             /\ req[q].ceil # 0

(* The invalidation hook works but for one race: a request that the cache  *)
(* answers with a version older than one applied at its server before it   *)
(* began owes it to a build that was under way when the newer version was  *)
(* applied or, on a store that lags, to a read behind it (onInvalidate).   *)
StaleOnlyThroughABuild ==
  \A r \in Requests :
    req[r].pc = "done" /\ req[r].used # req[r].cfg
      /\ req[r].used < req[r].floor =>
      \E q \in Requests :
        /\ req[q].server = req[r].server
        /\ req[q].cfg = req[r].used /\ req[q].cfg < req[q].ceil

(* "Tenant-config rotation must bust the cached AuthMethod instances"      *)
(* (index.ts): a request that begins after the server applied a version is *)
(* not answered by an older one.                                           *)
RotationsTakeEffect ==
  \A r \in Requests : req[r].pc = "done" => req[r].used >= req[r].floor
============================================================================

---------------------------- MODULE SessionStores ----------------------------
(***************************************************************************)
(* The five implementations of the SessionStore port (adapters/*/          *)
(* session-store.ts), at the grain of their statements: flows, sessions    *)
(* and the scratch values of methods, each a row with an expiry.  What is  *)
(* one step of the memory store takes a round trip to the others, and      *)
(* other callers come in between: between reading a row that has expired   *)
(* and deleting it, and, on D1 and DynamoDB, between reading a flow and    *)
(* writing it back with another method state.                              *)
(*                                                                         *)
(* A payload is its varying part, the method state of a flow.  A statement *)
(* that fails before it takes effect is a call that was never made, but    *)
(* for those in the middle of a call.                                      *)
(***************************************************************************)
EXTENDS Naturals, FiniteSets

CONSTANTS
  None,
  Callers,
  Flows, Sessions, Scratches,   \* keys; a flow id is random, used once
  Values,
  Saved,                        \* the values a save writes
  Ttls,
  MaxTime,                      \* bounds the clock
  MaxSaves                      \* bounds how often a key is written anew

Keys == Flows \cup Sessions \cup Scratches

VARIABLES
  backend,   \* which adapter this deployment uses
  rows,      \* what is stored: key -> row or None
  now,
  calls,     \* calls between two statements
  saves,     \* how often a key was saved
  promised,  \* history: what a map with expiry would hold
  late       \* history: keys whose live row a late sweep deleted

storeVars == <<backend, rows, now, calls, saves, promised, late>>

SessionStoresAssumption ==
  /\ Ttls \subseteq Nat
  /\ None \notin [value : Saved \cup Values, expires : Nat]

Backends == {"memory", "postgres", "d1", "dynamo", "durable"}
NoCall == [pc |-> "idle", key |-> None, value |-> None, at |-> 0]

Init ==
  /\ backend \in Backends
  /\ rows = [k \in Keys |-> None]
  /\ now = 0
  /\ calls = [c \in Callers |-> NoCall]
  /\ saves = [k \in Keys |-> 0]
  /\ promised = [k \in Keys |-> None]
  /\ late = {}

Live(row, t) == row # None /\ t < row.expires

----------------------------------------------------------------------------
(* The statements. *)
Idle(c) == calls[c].pc = "idle"
On(b) == backend = b

Puts(k, row) ==
  /\ rows' = [rows EXCEPT ![k] = row]
  /\ promised' = [promised EXCEPT ![k] = row]

(* INSERT, an upsert, or an unconditional put.                             *)
Save(c, k, v, ttl) ==
  /\ Idle(c) /\ saves[k] < MaxSaves
  /\ k \in Flows => saves[k] = 0
  /\ Puts(k, [value |-> v, expires |-> now + ttl])
  /\ saves' = [saves EXCEPT ![k] = @ + 1]
  /\ late' = late \ {k}
  /\ UNCHANGED <<backend, now, calls>>

Delete(c, k) ==
  /\ Idle(c)
  /\ Puts(k, None)
  /\ UNCHANGED <<backend, now, calls, saves, late>>

(* A read changes nothing, unless it finds that the row has expired; then  *)
(* it deletes whatever is under the key, in a statement of its own.        *)
FindExpired(c, k) ==
  /\ Idle(c)
  /\ rows[k] # None /\ ~Live(rows[k], now)
  /\ calls' = [calls EXCEPT ![c] = [NoCall EXCEPT !.pc = "sweep", !.key = k]]
  /\ UNCHANGED <<backend, rows, now, saves, promised, late>>

Sweep(c) ==
  LET k == calls[c].key
  IN /\ calls[c].pc = "sweep"
     /\ rows' = [rows EXCEPT ![k] = None]
     /\ late' = IF Live(rows[k], now) THEN late \cup {k} ELSE late
     /\ calls' = [calls EXCEPT ![c] = NoCall]
     /\ UNCHANGED <<backend, now, saves, promised>>

SweepAtOnce(c, k) ==
  /\ Idle(c)
  /\ rows[k] # None /\ ~Live(rows[k], now)
  /\ rows' = [rows EXCEPT ![k] = None]
  /\ UNCHANGED <<backend, now, calls, saves, promised, late>>

(* DELETE ... RETURNING, or a transaction: the row goes, live or not, and  *)
(* is handed out if it is live.                                            *)
Take(c, k) ==
  /\ Idle(c)
  /\ rows[k] # None
  /\ Puts(k, None)
  /\ UNCHANGED <<backend, now, calls, saves, late>>

(* What updating the method state means to a map with expiry.              *)
Promise(k, v, t) ==
  promised' = IF Live(promised[k], t)
              THEN [promised EXCEPT ![k].value = v] ELSE promised

Update(c, k, v) ==
  /\ Idle(c)
  /\ Live(rows[k], now)
  /\ rows' = [rows EXCEPT ![k].value = v]
  /\ Promise(k, v, now)
  /\ UNCHANGED <<backend, now, calls, saves, late>>

(* Two statements: the row is read, and written back with the new state.   *)
ReadForUpdate(c, k, v) ==
  /\ Idle(c)
  /\ Live(rows[k], now)
  /\ calls' = [calls EXCEPT ![c] =
                 [pc |-> "update", key |-> k, at |-> now,
                  value |-> [rows[k] EXCEPT !.value = v]]]
  /\ UNCHANGED <<backend, rows, now, saves, promised, late>>

WriteBack(c, row, may) ==
  LET k == calls[c].key
  IN /\ rows' = IF may THEN [rows EXCEPT ![k] = row] ELSE rows
     /\ Promise(k, row.value, calls[c].at)
     /\ calls' = [calls EXCEPT ![c] = NoCall]
     /\ UNCHANGED <<backend, now, saves, late>>

(* The second statement fails, or the process dies before it.              *)
CallFails(c) ==
  /\ ~Idle(c)
  /\ calls' = [calls EXCEPT ![c] = NoCall]
  /\ UNCHANGED <<backend, rows, now, saves, promised, late>>

Tick ==
  /\ now < MaxTime
  /\ now' = now + 1
  /\ UNCHANGED <<backend, rows, calls, saves, promised, late>>

----------------------------------------------------------------------------
(* The memory store: no await inside an operation. *)
MemorySaveFlow(c, k, v, ttl) == On("memory") /\ k \in Flows /\ Save(c, k, v, ttl)
MemoryUpdateFlowMethodState(c, k, v) ==
  On("memory") /\ k \in Flows /\ (Update(c, k, v) \/ SweepAtOnce(c, k))
MemoryReadFlow(c, k) == On("memory") /\ k \in Flows /\ SweepAtOnce(c, k)
MemoryConsumeFlow(c, k) == On("memory") /\ k \in Flows /\ Take(c, k)
MemoryCreateSession(c, k, v, ttl) ==
  On("memory") /\ k \in Sessions /\ Save(c, k, v, ttl)
MemoryReadSession(c, k) == On("memory") /\ k \in Sessions /\ SweepAtOnce(c, k)
MemoryRevokeSession(c, k) == On("memory") /\ k \in Sessions /\ Delete(c, k)
MemorySaveScratch(c, k, v, ttl) ==
  On("memory") /\ k \in Scratches /\ Save(c, k, v, ttl)
MemoryReadScratch(c, k) == On("memory") /\ k \in Scratches /\ SweepAtOnce(c, k)
MemoryDeleteScratch(c, k) == On("memory") /\ k \in Scratches /\ Delete(c, k)

(* PostgreSQL: one statement updates the method state in place.            *)
PostgresSaveFlow(c, k, v, ttl) ==
  On("postgres") /\ k \in Flows /\ Save(c, k, v, ttl)
PostgresUpdateFlowMethodState(c, k, v) ==
  On("postgres") /\ k \in Flows /\ Update(c, k, v)
PostgresReadFlow(c, k) == On("postgres") /\ k \in Flows /\ FindExpired(c, k)
PostgresConsumeFlow(c, k) == On("postgres") /\ k \in Flows /\ Take(c, k)
PostgresCreateSession(c, k, v, ttl) ==
  On("postgres") /\ k \in Sessions /\ Save(c, k, v, ttl)
PostgresReadSession(c, k) == On("postgres") /\ k \in Sessions /\ FindExpired(c, k)
PostgresRevokeSession(c, k) == On("postgres") /\ k \in Sessions /\ Delete(c, k)
PostgresSaveScratch(c, k, v, ttl) ==
  On("postgres") /\ k \in Scratches /\ Save(c, k, v, ttl)
PostgresReadScratch(c, k) == On("postgres") /\ k \in Scratches /\ FindExpired(c, k)
PostgresDeleteScratch(c, k) == On("postgres") /\ k \in Scratches /\ Delete(c, k)

(* D1: the write back is an UPDATE of a row that is live at the time the   *)
(* call began.                                                             *)
D1SaveFlow(c, k, v, ttl) == On("d1") /\ k \in Flows /\ Save(c, k, v, ttl)
D1UpdateFlowMethodState(c, k, v) ==
  On("d1") /\ k \in Flows /\ ReadForUpdate(c, k, v)
D1WriteBack(c) ==
  /\ On("d1") /\ calls[c].pc = "update"
  /\ WriteBack(c, calls[c].value, Live(rows[calls[c].key], calls[c].at))
D1ReadFlow(c, k) == On("d1") /\ k \in Flows /\ FindExpired(c, k)
D1ConsumeFlow(c, k) == On("d1") /\ k \in Flows /\ Take(c, k)
D1CreateSession(c, k, v, ttl) == On("d1") /\ k \in Sessions /\ Save(c, k, v, ttl)
D1ReadSession(c, k) == On("d1") /\ k \in Sessions /\ FindExpired(c, k)
D1RevokeSession(c, k) == On("d1") /\ k \in Sessions /\ Delete(c, k)
D1SaveScratch(c, k, v, ttl) == On("d1") /\ k \in Scratches /\ Save(c, k, v, ttl)
D1ReadScratch(c, k) == On("d1") /\ k \in Scratches /\ FindExpired(c, k)
D1DeleteScratch(c, k) == On("d1") /\ k \in Scratches /\ Delete(c, k)

(* DynamoDB: the write back is a put of an item that exists.               *)
DynamoSaveFlow(c, k, v, ttl) == On("dynamo") /\ k \in Flows /\ Save(c, k, v, ttl)
DynamoUpdateFlowMethodState(c, k, v) ==
  On("dynamo") /\ k \in Flows /\ ReadForUpdate(c, k, v)

(* Variant for mutation: the put without its condition. *)
DynamoWriteBackAnyway(c) ==
  /\ On("dynamo") /\ calls[c].pc = "update"
  /\ WriteBack(c, calls[c].value, TRUE)

DynamoWriteBack(c) ==
  /\ On("dynamo") /\ calls[c].pc = "update"
  /\ WriteBack(c, calls[c].value, rows[calls[c].key] # None)
DynamoReadFlow(c, k) == On("dynamo") /\ k \in Flows /\ FindExpired(c, k)
DynamoConsumeFlow(c, k) == On("dynamo") /\ k \in Flows /\ Take(c, k)
DynamoCreateSession(c, k, v, ttl) ==
  On("dynamo") /\ k \in Sessions /\ Save(c, k, v, ttl)
DynamoReadSession(c, k) == On("dynamo") /\ k \in Sessions /\ FindExpired(c, k)
DynamoRevokeSession(c, k) == On("dynamo") /\ k \in Sessions /\ Delete(c, k)
DynamoSaveScratch(c, k, v, ttl) ==
  On("dynamo") /\ k \in Scratches /\ Save(c, k, v, ttl)
DynamoReadScratch(c, k) == On("dynamo") /\ k \in Scratches /\ FindExpired(c, k)
DynamoDeleteScratch(c, k) == On("dynamo") /\ k \in Scratches /\ Delete(c, k)

(* A Durable Object: updating and consuming a flow are transactions.       *)
DurableSaveFlow(c, k, v, ttl) == On("durable") /\ k \in Flows /\ Save(c, k, v, ttl)
DurableUpdateFlowMethodState(c, k, v) ==
  On("durable") /\ k \in Flows /\ Update(c, k, v)
DurableReadFlow(c, k) == On("durable") /\ k \in Flows /\ FindExpired(c, k)
DurableConsumeFlow(c, k) == On("durable") /\ k \in Flows /\ Take(c, k)
DurableCreateSession(c, k, v, ttl) ==
  On("durable") /\ k \in Sessions /\ Save(c, k, v, ttl)
DurableReadSession(c, k) == On("durable") /\ k \in Sessions /\ FindExpired(c, k)
DurableRevokeSession(c, k) == On("durable") /\ k \in Sessions /\ Delete(c, k)
DurableSaveScratch(c, k, v, ttl) ==
  On("durable") /\ k \in Scratches /\ Save(c, k, v, ttl)
DurableReadScratch(c, k) == On("durable") /\ k \in Scratches /\ FindExpired(c, k)
DurableDeleteScratch(c, k) == On("durable") /\ k \in Scratches /\ Delete(c, k)

----------------------------------------------------------------------------
Saving(c) == \E k \in Keys, v \in Saved, ttl \in Ttls :
  \/ MemorySaveFlow(c, k, v, ttl) \/ MemoryCreateSession(c, k, v, ttl)
  \/ MemorySaveScratch(c, k, v, ttl)
  \/ PostgresSaveFlow(c, k, v, ttl) \/ PostgresCreateSession(c, k, v, ttl)
  \/ PostgresSaveScratch(c, k, v, ttl)
  \/ D1SaveFlow(c, k, v, ttl) \/ D1CreateSession(c, k, v, ttl)
  \/ D1SaveScratch(c, k, v, ttl)
  \/ DynamoSaveFlow(c, k, v, ttl) \/ DynamoCreateSession(c, k, v, ttl)
  \/ DynamoSaveScratch(c, k, v, ttl)
  \/ DurableSaveFlow(c, k, v, ttl) \/ DurableCreateSession(c, k, v, ttl)
  \/ DurableSaveScratch(c, k, v, ttl)

Updating(c) ==
  \/ \E k \in Keys, v \in Values :
       \/ MemoryUpdateFlowMethodState(c, k, v)
       \/ PostgresUpdateFlowMethodState(c, k, v)
       \/ D1UpdateFlowMethodState(c, k, v)
       \/ DynamoUpdateFlowMethodState(c, k, v)
       \/ DurableUpdateFlowMethodState(c, k, v)
  \/ D1WriteBack(c) \/ DynamoWriteBack(c)

Reading(c) ==
  \/ \E k \in Keys :
       \/ MemoryReadFlow(c, k) \/ MemoryReadSession(c, k) \/ MemoryReadScratch(c, k)
       \/ PostgresReadFlow(c, k) \/ PostgresReadSession(c, k)
       \/ PostgresReadScratch(c, k)
       \/ D1ReadFlow(c, k) \/ D1ReadSession(c, k) \/ D1ReadScratch(c, k)
       \/ DynamoReadFlow(c, k) \/ DynamoReadSession(c, k)
       \/ DynamoReadScratch(c, k)
       \/ DurableReadFlow(c, k) \/ DurableReadSession(c, k)
       \/ DurableReadScratch(c, k)
  \/ Sweep(c)

Ending(c) == \E k \in Keys :
  \/ MemoryConsumeFlow(c, k) \/ MemoryRevokeSession(c, k)
  \/ MemoryDeleteScratch(c, k)
  \/ PostgresConsumeFlow(c, k) \/ PostgresRevokeSession(c, k)
  \/ PostgresDeleteScratch(c, k)
  \/ D1ConsumeFlow(c, k) \/ D1RevokeSession(c, k) \/ D1DeleteScratch(c, k)
  \/ DynamoConsumeFlow(c, k) \/ DynamoRevokeSession(c, k)
  \/ DynamoDeleteScratch(c, k)
  \/ DurableConsumeFlow(c, k) \/ DurableRevokeSession(c, k)
  \/ DurableDeleteScratch(c, k)

Next ==
  \/ \E c \in Callers :
       Saving(c) \/ Updating(c) \/ Reading(c) \/ Ending(c) \/ CallFails(c)
  \/ Tick

Spec == Init /\ [][Next]_storeVars

----------------------------------------------------------------------------
(* Each adapter is a map with expiry: what is live in the map is what is   *)
(* stored, and nothing else is live in the store.  The one exception is a  *)
(* row saved under a key whose previous row another caller had just found  *)
(* expired: its sweep deletes by key alone.  Flows, saved once, and the    *)
(* memory store, which sweeps in the same step, have no exception.  In     *)
(* particular a flow that consumeFlow handed out is gone for good, whoever *)
(* writes its method state back around it.                                 *)
StoresAreMaps ==
  \A k \in Keys :
    /\ Live(rows[k], now) => rows[k] = promised[k]
    /\ Live(promised[k], now) =>
         \/ rows[k] = promised[k]
         \/ k \in late /\ k \notin Flows /\ backend # "memory"
=============================================================================

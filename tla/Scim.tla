-------------------------------- MODULE Scim --------------------------------
(***************************************************************************)
(* The SCIM service provider (domain/scim/): an identity provider creates, *)
(* replaces, patches and deletes the users and groups of one tenant in a   *)
(* directory that the host owns.  A request on one resource is a read of   *)
(* it and then, in another await, the write, so requests interleave        *)
(* between the two; the client repeats a request that was answered 500.    *)
(*                                                                         *)
(* The directory is external: it keeps user names unique, refuses members  *)
(* it does not know, and may fail before or after a write took effect.     *)
(***************************************************************************)
EXTENDS ScimPatch

CONSTANTS
  Requests,        \* the requests of the identity provider
  Script,          \* for each, what it may ask
  UserIds, GroupIds,
  InitialUsers,    \* the directory at the start: id -> record or None
  InitialGroups,
  Enabled,         \* config.scim.enabled
  HasGroups,       \* the host implements the group half of the port
  MaxPageSize,     \* config.scim.maxPageSize, under the ceiling
  MaxTries         \* for each request, bounds how often the client sends it

VARIABLES
  users,      \* the host's users
  groups,     \* the host's groups
  addsFirst,  \* does this host do addMembers before removeMembers
  req         \* the requests

scimVars == <<users, groups, addsFirst, req>>

(* took is a history: the record that a write whose answer was lost left.  *)
Idle == [pc |-> "idle", ask |-> None, seen |-> None, write |-> None,
         status |-> 0, tries |-> 0, took |-> None]

Init ==
  /\ users = InitialUsers
  /\ groups = InitialGroups
  /\ addsFirst \in BOOLEAN
  /\ req = [r \in Requests |-> Idle]

----------------------------------------------------------------------------
(* What the bodies mean. *)

(* A record with the fields of another put over its own.                   *)
Over(fields, record) ==
  [x \in DOMAIN fields \cup DOMAIN record |->
     IF x \in DOMAIN fields THEN fields[x] ELSE record[x]]

(* A JSON object of attributes.  PUT clears what it leaves out, but for    *)
(* active, which is TRUE as on creation.                                   *)
ParseUserWrite(body) ==
  LET At(a) == IF a \in DOMAIN body THEN body[a][2] ELSE None
      record == [a \in Attributes |->
                   CASE a = "active" /\ At(a) = None -> TRUE
                     [] a = "emails" -> OrNone(Valued(OrEmpty(At(a))))
                     [] OTHER -> At(a)]
      bad == \/ body = None
             \/ "password" \in DOMAIN body
             \/ At("userName") \in {None, ""}
             \/ "active" \in DOMAIN body /\ body["active"][1] # "boolean"
  IN IF bad THEN [error |-> "invalid", patch |-> <<>>]
     ELSE [error |-> "none", patch |-> record]

ParseGroupWrite(body) ==
  LET At(a, other) == IF a \in DOMAIN body THEN body[a][2] ELSE other
      record == [displayName |-> At("displayName", None),
                 externalId |-> At("externalId", None),
                 members |-> At("members", {})]
  IN IF body = None \/ record.displayName \in {None, ""}
     THEN [error |-> "invalid", patch |-> <<>>]
     ELSE [error |-> "none", patch |-> record]

(* What a write request asks the host for, given the record just read.     *)
Resolve(ask, record) ==
  IF ask.method = "DELETE" THEN [error |-> "none", patch |-> <<>>]
  ELSE IF ask.on = "user"
  THEN IF ask.method = "PATCH" THEN NormalizePatch(ask.body, record)
       ELSE ParseUserWrite(ask.body)
  ELSE IF ask.method = "PATCH" THEN NormalizeGroupPatch(ask.body)
       ELSE ParseGroupWrite(ask.body)

(* A filter is a sequence of terms [attr, op, quoted]: at most two, only   *)
(* eq, only attributes of that resource, and a literal of the right form.  *)
Filterable(on) ==
  IF on = "user" THEN {"id", "userName", "externalId", "active", "emails.value"}
  ELSE {"id", "displayName", "externalId"}

ParseTerm(term, on) ==
  /\ term.op = "eq"
  /\ term.attr \in Filterable(on)
  /\ term.quoted = (term.attr # "active")

ParseScimFilter(terms, on) ==
  Len(terms) <= 2 /\ \A i \in DOMAIN terms : ParseTerm(terms[i], on)

(* A start below 1 is 1; no count is a page, a negative one is 0.          *)
ClampPaging(start, count) ==
  [start |-> IF start >= 1 THEN start ELSE 1,
   count |-> CASE count = None -> MaxPageSize
               [] count # None /\ count < 0 -> 0
               [] OTHER -> Min({count, MaxPageSize})]

----------------------------------------------------------------------------
(* Answers. *)
Becomes(r, q) == req' = [req EXCEPT ![r] = q]
Finish(r, q, status) ==
  Becomes(r, [q EXCEPT !.pc = "done", !.status = status])
DirectoryIsUnchanged == UNCHANGED <<users, groups>>

Target(ask) == IF ask.on = "user" THEN users[ask.id] ELSE groups[ask.id]

(* The HTTP handler: no tenant, or a body that is not JSON, is answered    *)
(* before anything else; then who is asking, and only then what for.       *)
Shell(ask) ==
  IF ~ask.tenant THEN 403
  ELSE IF ask.method \in {"POST", "PUT", "PATCH"} /\ ~ask.json
  THEN 400 ELSE 0

Authenticate(ask) ==
  IF ~Enabled THEN 403 ELSE IF ask.bearer # "right" THEN 401 ELSE 0

Allowed(ask) ==
  CASE ask.on = "discovery" -> {"GET"}
    [] ask.on # "discovery" /\ ask.id = None -> {"GET", "POST"}
    [] OTHER -> {"GET", "PUT", "PATCH", "DELETE"}

Route(ask) ==
  IF ask.on = "elsewhere" THEN 404
  ELSE IF ask.on = "group" /\ ~HasGroups THEN 501
  ELSE IF ask.method \notin Allowed(ask) THEN 405
  ELSE IF ask.on = "discovery" THEN 200 ELSE 0

Refusal(ask) ==
  IF Shell(ask) # 0 THEN Shell(ask)
  ELSE IF Authenticate(ask) # 0 THEN Authenticate(ask)
  ELSE Route(ask)

(* The directory at the start.  A request is about what there may be; the  *)
(* patch of one that is not refused is a list of operations, and the       *)
(* members it speaks of are ids.                                           *)
InitialDirectory ==
  /\ InitialUsers = [u \in UserIds |-> InitialUsers[u]]
  /\ InitialGroups = [g \in GroupIds |-> InitialGroups[g]]
  /\ \A u \in UserIds :
       InitialUsers[u] # None => DOMAIN InitialUsers[u] = Attributes
  /\ \A g \in GroupIds :
       InitialGroups[g] # None => "members" \in DOMAIN InitialGroups[g]

SpeaksOfIds(path, v) ==
  /\ v[1] = "members" => v[2] \in SUBSET UserIds
  /\ path.kind = "filter" => path.sub \in UserIds

IsGroupPatch(ops) ==
  \A o \in Range(ops) :
    /\ SpeaksOfIds(o.path, o.value)
    /\ IsObject(o.value) => \A e \in Range(o.value[2]) : SpeaksOfIds(e[1], e[2])

Asks(ask) ==
  /\ ask.on \in {"user", "group", "discovery", "elsewhere"}
  /\ ask.on = "user" => ask.id \in UserIds \cup {None}
  /\ ask.on = "group" => ask.id \in GroupIds \cup {None}
  /\ Refusal(ask) = 0 /\ ask.method = "PATCH" =>
       /\ IsPatchOp(ask.body)
       /\ ask.on = "group" => IsGroupPatch(ask.body)

ScimAssumption ==
  /\ InitialDirectory
  /\ \A members \in SUBSET UserIds : members # None
  /\ \A r \in Requests : \A ask \in Script[r] : Asks(ask)

----------------------------------------------------------------------------
(* HandleScimRequest, up to its first call to the directory. *)
HandleScimRequest(r) ==
  /\ req[r].pc = "idle"
  /\ \E ask \in (IF req[r].tries = 0 THEN Script[r] ELSE {req[r].ask}) :
       LET q == [req[r] EXCEPT !.ask = ask, !.tries = @ + 1]
           made == Resolve(ask, None)
       IN IF Refusal(ask) # 0 THEN Finish(r, q, Refusal(ask))
          ELSE IF ask.id # None THEN Becomes(r, [q EXCEPT !.pc = "load"])
          ELSE IF ask.method = "GET"
               THEN IF ParseScimFilter(ask.filter, ask.on)
                    THEN Becomes(r, [q EXCEPT !.pc = "find"])
                    ELSE Finish(r, q, 400)
          ELSE IF made.error # "none" THEN Finish(r, q, 400)
          ELSE Becomes(r, [q EXCEPT !.pc = "write", !.write = made.patch])
  /\ DirectoryIsUnchanged /\ UNCHANGED addsFirst

(* listUsers and the group listing: one page of what the host holds.       *)
Matching(ask) ==
  IF ask.on = "user" THEN {u \in UserIds : users[u] # None}
  ELSE {g \in GroupIds : groups[g] # None}

Find(r) ==
  LET ask == req[r].ask
      page == ClampPaging(ask.start, ask.count)
  IN /\ req[r].pc = "find"
     /\ \E here \in SUBSET Matching(ask) :
          /\ Cardinality(here) <= page.count
          /\ Finish(r, [req[r] EXCEPT !.seen = here], 200)
     /\ DirectoryIsUnchanged /\ UNCHANGED addsFirst

(* loadUser, loadGroup, and what follows up to the write.                  *)
Load(r) ==
  LET ask == req[r].ask
      found == Target(ask)
      made == Resolve(ask, found)
      q == [req[r] EXCEPT !.seen = found]
  IN /\ req[r].pc = "load"
     /\ IF found = None THEN Finish(r, q, 404)
        ELSE IF ask.method = "GET" THEN Finish(r, q, 200)
        ELSE IF made.error # "none" THEN Finish(r, q, 400)
        ELSE Becomes(r, [q EXCEPT !.pc = "write", !.write = made.patch])
     /\ DirectoryIsUnchanged /\ UNCHANGED addsFirst

----------------------------------------------------------------------------
(* The host's directory. *)
Taken(name, id) ==
  \E u \in UserIds \ {id} : users[u] # None /\ users[u].userName = name

OrNoMembers(s) == IF s = None THEN {} ELSE s

PatchedMembers(members, p) ==
  IF p.members # None THEN p.members
  ELSE LET add == OrNoMembers(p.add)
           remove == OrNoMembers(p.remove)
       IN IF addsFirst THEN (members \cup add) \ remove
          ELSE (members \ remove) \cup add

(* The record a write leaves at id, None when it deletes it.               *)
Written(ask, write, at) ==
  CASE ask.method = "DELETE" -> None
    [] ask.method = "PATCH" /\ ask.on = "user" -> Over(write, at)
    [] ask.method = "PATCH" /\ ask.on = "group" ->
         [Over(write.fields, at) EXCEPT !.members = PatchedMembers(at.members, write)]
    [] OTHER -> write

(* Where it may write: anywhere free, or the resource if it is there.      *)
Places(ask) ==
  IF ask.id # None THEN IF Target(ask) = None THEN {} ELSE {ask.id}
  ELSE IF ask.on = "user" THEN {u \in UserIds : users[u] = None}
  ELSE {g \in GroupIds : groups[g] = None}

Conflicts(ask, id, record) ==
  ask.on = "user" /\ record # None /\ Taken(record.userName, id)
HostRefuses(ask, record) ==
  ask.on = "group" /\ record # None /\ \E u \in record.members : users[u] = None

Put(ask, id, record) ==
  IF ask.on = "user"
  THEN users' = [users EXCEPT ![id] = record] /\ UNCHANGED groups
  ELSE groups' = [groups EXCEPT ![id] = record] /\ UNCHANGED users

Success(ask) ==
  CASE ask.method = "POST" -> 201 [] ask.method = "DELETE" -> 204 [] OTHER -> 200

(* The write, and what is answered: fromPortError tells a conflict (409)   *)
(* and a refusal (400) from a failure (500).  The answer to a write that   *)
(* took effect may be lost, which looks like a failure.                    *)
Write(r) ==
  LET ask == req[r].ask
      At(id) == IF ask.on = "user" THEN users[id] ELSE groups[id]
  IN /\ req[r].pc = "write"
     /\ \E id \in Places(ask), lost \in BOOLEAN :
          LET record == Written(ask, req[r].write, At(id))
          IN IF Conflicts(ask, id, record)
             THEN ~lost /\ Finish(r, req[r], 409) /\ DirectoryIsUnchanged
             ELSE IF HostRefuses(ask, record)
             THEN ~lost /\ Finish(r, req[r], 400) /\ DirectoryIsUnchanged
             ELSE /\ Put(ask, id, record)
                  /\ Finish(r,
                       [req[r] EXCEPT !.took = IF lost THEN record ELSE @],
                       IF lost THEN 500 ELSE Success(ask))
     /\ UNCHANGED addsFirst

(* Any call to the directory may fail; so does a write to what is gone.    *)
HostFails(r) ==
  /\ req[r].pc \in {"find", "load", "write"}
  /\ Finish(r, req[r], 500)
  /\ DirectoryIsUnchanged /\ UNCHANGED addsFirst

(* The client gives up on a 4xx and repeats a 5xx.                         *)
Repeat(r) ==
  /\ req[r].pc = "done" /\ req[r].status = 500 /\ req[r].tries < MaxTries[r]
  /\ Becomes(r, [req[r] EXCEPT !.pc = "idle", !.status = 0, !.seen = None,
                                !.write = None])
  /\ DirectoryIsUnchanged /\ UNCHANGED addsFirst

Next == \E r \in Requests :
  \/ HandleScimRequest(r) \/ Find(r) \/ Load(r) \/ Write(r) \/ HostFails(r)
  \/ Repeat(r)

Spec == Init /\ [][Next]_scimVars

----------------------------------------------------------------------------
(* What a client may rely on. *)

Writes(r) == req[r].pc = "write" /\ req'[r].pc = "done" /\
             (req'[r].status < 400 \/ req'[r].took # req[r].took)

(* The meaning of several operations: each one sent by itself, in order.   *)
Alone(user, o) == Over(NormalizePatch(<<o>>, user).patch, user)
OneByOne(ops, user) == FoldLeft(Alone, user, ops)

Attribute(path) == IF path.kind = "enterprise" THEN "enterprise" ELSE path.head
Names(o, a) ==
  IF o.path # NoPath THEN Attribute(o.path) = a
  ELSE \E i \in DOMAIN o.value[2] : Attribute(o.value[2][i][1]) = a

(* A patch of a user leaves an attribute that none of its operations names *)
(* as it is at that moment, whoever wrote it since the patch read the      *)
(* user; an attribute that is still as it was read becomes what the        *)
(* operations make of it one by one (normalizePatch resolves them against  *)
(* one reading, with working copies).                                      *)
PatchesAsSaid ==
  \A r \in Requests :
     LET ask == req[r].ask
         was == users[ask.id]
         becomes == users'[ask.id]
     IN Writes(r) /\ ask.on = "user" /\ ask.method = "PATCH" =>
          \A a \in Attributes :
            /\ (\A i \in DOMAIN ask.body : ~Names(ask.body[i], a)) =>
                 becomes[a] = was[a]
            /\ was[a] = req[r].seen[a] =>
                 becomes[a] = OneByOne(ask.body, was)[a]
PatchesDoAsTheySay == [][PatchesAsSaid]_scimVars

(* A patch of a group has the effect of its operations in their order,     *)
(* whatever the membership is by then and whichever delta the host applies *)
(* first, unless one request both adds and removes one member outside a    *)
(* replacement: the deltas do not say in which order (normalizeGroupPatch).*)
MembersAfter(members, o) ==
  LET p == NormalizeGroupPatch(<<o>>).patch
  IN IF p.members # None THEN p.members
     ELSE (members \cup OrNoMembers(p.add)) \ OrNoMembers(p.remove)
Members(ops, group) == FoldLeft(MembersAfter, group.members, ops)

GroupPatchesAsSaid ==
  \A r \in Requests :
     LET ask == req[r].ask
         p == req[r].write
     IN Writes(r) /\ ask.on = "group" /\ ask.method = "PATCH" =>
          \/ OrNoMembers(p.add) \cap OrNoMembers(p.remove) # {}
          \/ groups'[ask.id].members = Members(ask.body, groups[ask.id])
GroupPatchesDoAsTheySay == [][GroupPatchesAsSaid]_scimVars

(* Repeating a request whose write took effect though its answer was lost  *)
(* changes nothing, if nobody wrote in between: the client repeats every   *)
(* 500 (fromPortError), so resolving the same operations against their own *)
(* outcome must lead back to it.  The exception is a patch that sets an    *)
(* entry of some type and then removes it: the second time upsertByType    *)
(* adopts an entry without a type, and the removal takes that one.         *)
Alike(user, other) ==
  /\ \A a \in Attributes \ {"emails"} : user[a] = other[a]
  /\ Range(OrEmpty(user.emails)) = Range(OrEmpty(other.emails))
  /\ Len(OrEmpty(user.emails)) = Len(OrEmpty(other.emails))

SetsEntry(o, path) ==
  /\ o.op # "remove"
  /\ \/ o.path = path
     \/ o.path = NoPath /\ IsObject(o.value)
          /\ \E i \in DOMAIN o.value[2] : o.value[2][i][1] = path

UndoesItself(ask) ==
  /\ ask.on = "user" /\ ask.method = "PATCH"
  /\ \E i, j \in DOMAIN ask.body :
       /\ i < j /\ ask.body[j].op = "remove" /\ ask.body[j].path.kind = "filter"
       /\ SetsEntry(ask.body[i], ask.body[j].path)

RepeatsNothing ==
  \A r \in Requests :
     Writes(r) /\ req[r].took # None /\ req[r].ask.id # None
       /\ Target(req[r].ask) = req[r].took /\ req[r].seen = req[r].took
       /\ ~UndoesItself(req[r].ask)
     => IF req[r].ask.on = "user"
        THEN Alike(users'[req[r].ask.id], users[req[r].ask.id])
        ELSE UNCHANGED groups
RetriesRepeatNothing == [][RepeatsNothing]_scimVars
=============================================================================

------------------------------ MODULE ScimPatch ------------------------------
(***************************************************************************)
(* domain/scim/patch.ts: what a PatchOp of an identity provider becomes    *)
(* before the host sees it.  A user patch is resolved against the record   *)
(* as it was read, into final values; a group patch stays a pair of deltas *)
(* unless it replaces the membership.                                      *)
(*                                                                         *)
(* A JSON value is <<kind, content>>.  A path is parsed: its kind is       *)
(* "none" (absent), "filter" (attr[type eq "..."].value), "enterprise"     *)
(* (under the extension's URN; an empty sub is the bare URN), "plain" (an  *)
(* attribute, perhaps with a sub-attribute) or "malformed".  phoneNumbers  *)
(* and displayName go through the code of emails and externalId.           *)
(***************************************************************************)
EXTENDS Naturals, SequencesExt

CONSTANT None

Path(kind, head, sub) == [kind |-> kind, head |-> head, sub |-> sub]
NoPath == Path("none", "", "")

Attributes ==
  {"active", "userName", "externalId", "name", "emails", "enterprise"}
NameSubs == {"familyName", "givenName"}
EnterpriseSubs == {"department", "manager"}

IsText(v) == v[1] = "string"
IsObject(v) == v[1] = "object"
OrEmpty(x) == IF x = None THEN <<>> ELSE x
OrNone(x) == IF x = <<>> THEN None ELSE x
Without(f, x) == Restrict(f, DOMAIN f \ {x})
With(f, x, v) == [y \in DOMAIN f \cup {x} |-> IF y = x THEN v ELSE f[y]]

(* An array, or an object as its entries <<path, value>> in their order.   *)
IsList(x) == x \in Seq(Range(x))
IsJson(v) == IsObject(v) => IsList(v[2])
IsJsonTwice(v) == IsObject(v) => IsList(v[2]) /\ \A e \in Range(v[2]) : IsJson(e[2])
IsPatchOp(ops) == IsList(ops) /\ \A o \in Range(ops) : IsJsonTwice(o.value)

(* Entra spells booleans as the strings "True" and "False". *)
CoerceBoolean(v) ==
  CASE v[1] = "boolean" -> v[2]
    [] v = <<"string", "True">> -> TRUE
    [] v = <<"string", "False">> -> FALSE
    [] OTHER -> None

----------------------------------------------------------------------------
(* The draft: the patch so far, and working copies of what several         *)
(* operations of one request may build up.                                 *)
Begun(user) ==
  [patch |-> <<>>, name |-> user.name, emails |-> user.emails,
   enterprise |-> user.enterprise, error |-> "none"]

Fails(draft, scimType) == [draft EXCEPT !.error = scimType]
Sets(draft, attr, v) == [draft EXCEPT !.patch = With(@, attr, v)]

(* Variant for mutation: the working copy stays behind. *)
SetsEmailsOnce(draft, list, v) == Sets(draft, "emails", v)

SetsEmails(draft, list, v) == [Sets(draft, "emails", v) EXCEPT !.emails = list]
SetsName(draft, name, v) == [Sets(draft, "name", v) EXCEPT !.name = name]
SetsEnterprise(draft, ext) ==
  [Sets(draft, "enterprise", ext) EXCEPT !.enterprise = ext]

(* Variant for mutation: the entry of that type is not looked for. *)
UpsertAppends(list, type, value) ==
  Append(list, [type |-> type, value |-> value])

(* The entry of that type, or the only entry without a type, or a new one. *)
UpsertByType(list, type, value) ==
  LET OfType(t) == {i \in DOMAIN list : list[i].type = t}
      At(i) == [list EXCEPT ![i] = [type |-> type, value |-> value]]
  IN IF OfType(type) # {} THEN At(Min(OfType(type)))
     ELSE IF Cardinality(OfType(None)) = 1 THEN At(Min(OfType(None)))
     ELSE Append(list, [type |-> type, value |-> value])

OfOtherTypes(list, type) == SelectSeq(list, LAMBDA e : e.type # type)

ApplyFiltered(draft, removing, path, v) ==
  LET list == OrEmpty(draft.emails)
      kept == OfOtherTypes(list, path.sub)
      next == UpsertByType(list, path.sub, v[2])
  IN IF path.head # "emails" THEN draft
     ELSE IF removing THEN SetsEmails(draft, kept, OrNone(kept))
     ELSE IF ~IsText(v) THEN Fails(draft, "invalidValue")
     ELSE SetsEmails(draft, next, next)

EnterpriseSub(draft, removing, sub, v) ==
  LET ext == OrEmpty(draft.enterprise)
  IN IF sub \notin EnterpriseSubs THEN draft
     ELSE IF removing THEN SetsEnterprise(draft, Without(ext, sub))
     ELSE IF sub = "manager"
          THEN SetsEnterprise(draft, With(ext, sub, IF IsText(v) THEN v[2] ELSE ""))
     ELSE IF ~IsText(v) THEN Fails(draft, "invalidValue")
     ELSE SetsEnterprise(draft, With(ext, sub, v[2]))

(* The bare URN fans out over the keys of the extension object. *)
EnterpriseEntry(draft, e) ==
  IF draft.error # "none" THEN draft
  ELSE EnterpriseSub(draft, FALSE, e[1].sub, e[2])

ApplyEnterprise(draft, removing, path, v) ==
  IF path.sub # "" THEN EnterpriseSub(draft, removing, path.sub, v)
  ELSE IF removing THEN SetsEnterprise(draft, None)
  ELSE IF ~IsObject(v) THEN Fails(draft, "invalidValue")
  ELSE FoldLeft(EnterpriseEntry, draft, v[2])

(* A whole name: add keeps the other sub-attributes, replace does not. *)
NameEntry(name, e) ==
  IF e[1].head \in NameSubs /\ IsText(e[2])
  THEN With(name, e[1].head, e[2][2]) ELSE name
Merged(name, v) == FoldLeft(NameEntry, name, v[2])

WholeName(draft, op, v) ==
  LET merged == Merged(IF op = "add" THEN OrEmpty(draft.name) ELSE <<>>, v)
  IN IF op = "remove" THEN SetsName(draft, None, None)
     ELSE IF ~IsObject(v) THEN Fails(draft, "invalidPath")
     ELSE SetsName(draft, merged, OrNone(merged))

ApplyName(draft, op, path, v) ==
  LET name == OrEmpty(draft.name)
      next == IF op = "remove" THEN Without(name, path.sub)
              ELSE With(name, path.sub, v[2])
  IN IF path.sub = "" THEN WholeName(draft, op, v)
     ELSE IF path.sub \notin NameSubs THEN Fails(draft, "invalidPath")
     ELSE IF op # "remove" /\ ~IsText(v) THEN Fails(draft, "invalidValue")
     ELSE SetsName(draft, next, OrNone(next))

(* Entries that are no object with a string value are passed over; an      *)
(* entry without a type has type None.                                     *)
Valued(list) == SelectSeq(list, LAMBDA e : e.value # None)

WholeEmails(draft, removing, v) ==
  LET list == Valued(v[2])
  IN IF removing THEN SetsEmails(draft, None, None)
     ELSE IF v[1] # "array" THEN Fails(draft, "invalidValue")
     ELSE SetsEmails(draft, list, OrNone(list))

ApplyPlain(draft, op, path, v) ==
  LET removing == op = "remove"
  IN IF path.head = "name" THEN ApplyName(draft, op, path, v)
     ELSE IF path.sub # "" THEN draft
     ELSE CASE path.head = "active" ->
                 IF removing THEN Fails(draft, "invalidPath")
                 ELSE IF CoerceBoolean(v) = None THEN Fails(draft, "invalidValue")
                 ELSE Sets(draft, "active", CoerceBoolean(v))
            [] path.head = "userName" ->
                 IF removing THEN Fails(draft, "invalidPath")
                 ELSE IF ~IsText(v) \/ v[2] = "" THEN Fails(draft, "invalidValue")
                 ELSE Sets(draft, "userName", v[2])
            [] path.head = "externalId" ->
                 Sets(draft, "externalId",
                      IF removing \/ ~IsText(v) THEN None ELSE v[2])
            [] path.head = "emails" -> WholeEmails(draft, removing, v)
            [] OTHER -> draft

ApplyAt(draft, op, path, v) ==
  IF draft.error # "none" THEN draft
  ELSE CASE path.kind = "filter" -> ApplyFiltered(draft, op = "remove", path, v)
       [] path.kind = "malformed" -> Fails(draft, "invalidPath")
       [] path.kind = "enterprise" -> ApplyEnterprise(draft, op = "remove", path, v)
       [] OTHER -> ApplyPlain(draft, op, path, v)

ApplyEntry(draft, o) == ApplyAt(draft, o.op, o.path, o.value)

(* An operation without a path is one for each key of its object.          *)
Spread(o) ==
  [i \in DOMAIN o.value[2] |->
     [op |-> o.op, path |-> o.value[2][i][1], value |-> o.value[2][i][2]]]

ApplyOperation(draft, o) ==
  IF draft.error # "none" THEN draft
  ELSE IF o.op \notin {"add", "replace", "remove"} THEN Fails(draft, "invalidPath")
  ELSE IF o.path # NoPath THEN ApplyAt(draft, o.op, o.path, o.value)
  ELSE IF o.op = "remove" \/ ~IsObject(o.value) THEN Fails(draft, "invalidPath")
  ELSE FoldLeft(ApplyEntry, draft, Spread(o))

(* The patch, or what is wrong with the operations. *)
Drafted(ops, user) == FoldLeft(ApplyOperation, Begun(user), ops)
NormalizePatch(ops, user) ==
  LET draft == Drafted(ops, user)
  IN IF ops = <<>> THEN [error |-> "invalidSyntax", patch |-> <<>>]
     ELSE IF draft.error # "none" THEN [error |-> draft.error, patch |-> <<>>]
     ELSE IF draft.patch = <<>> THEN [error |-> "nothing", patch |-> <<>>]
     ELSE [error |-> "none", patch |-> draft.patch]

----------------------------------------------------------------------------
(* Group patches.  Members are their values; their order is left out.      *)
GroupBegun ==
  [fields |-> <<>>, added |-> {}, removed |-> {}, replacement |-> None,
   error |-> "none"]

ApplyAdd(draft, members) ==
  IF draft.replacement # None
  THEN [draft EXCEPT !.replacement = @ \cup members]
  ELSE [draft EXCEPT !.added = @ \cup members]

(* Variant for mutation: removals are not folded into a replacement. *)
ApplyRemoveLate(draft, ids) == [draft EXCEPT !.removed = @ \cup ids]

ApplyRemove(draft, ids) ==
  IF draft.replacement # None
  THEN [draft EXCEPT !.replacement = @ \ ids]
  ELSE [draft EXCEPT !.removed = @ \cup ids]

(* A remove without a value empties the group. *)
HandleMembers(draft, op, v) ==
  IF op = "remove" /\ v[1] = "undefined"
  THEN [draft EXCEPT !.replacement = {}]
  ELSE IF v[1] # "members" THEN Fails(draft, "invalidValue")
  ELSE CASE op = "add" -> ApplyAdd(draft, v[2])
         [] op = "remove" -> ApplyRemove(draft, v[2])
         [] op = "replace" -> [draft EXCEPT !.replacement = v[2]]

HandleAt(draft, op, path, v) ==
  IF draft.error # "none" THEN draft
  ELSE IF path.kind = "filter"
  THEN IF op = "remove" THEN ApplyRemove(draft, {path.sub})
       ELSE Fails(draft, "invalidPath")
  ELSE IF path.kind # "plain" THEN Fails(draft, "invalidPath")
  ELSE CASE path.head = "members" -> HandleMembers(draft, op, v)
         [] path.head = "displayName" ->
              IF op = "remove" THEN Fails(draft, "invalidPath")
              ELSE IF ~IsText(v) \/ v[2] = "" THEN Fails(draft, "invalidValue")
              ELSE [draft EXCEPT !.fields = With(@, "displayName", v[2])]
         [] path.head = "externalId" ->
              [draft EXCEPT !.fields = With(@, "externalId",
                 IF op = "remove" \/ ~IsText(v) THEN None ELSE v[2])]
         [] OTHER -> Fails(draft, "invalidPath")

HandleEntry(draft, o) == HandleAt(draft, o.op, o.path, o.value)

HandleGroup(draft, o) ==
  IF draft.error # "none" THEN draft
  ELSE IF o.op \notin {"add", "replace", "remove"} THEN Fails(draft, "invalidPath")
  ELSE IF o.path # NoPath THEN HandleAt(draft, o.op, o.path, o.value)
  ELSE IF ~IsObject(o.value) THEN Fails(draft, "invalidPath")
  ELSE FoldLeft(HandleEntry, draft, Spread(o))

(* Either the whole membership or deltas of it; an absent one is None. *)
GroupDrafted(ops) == FoldLeft(HandleGroup, GroupBegun, ops)
NormalizeGroupPatch(ops) ==
  LET draft == GroupDrafted(ops)
      Delta(s) == IF draft.replacement # None \/ s = {} THEN None ELSE s
      patch == [fields |-> draft.fields, members |-> draft.replacement,
                add |-> Delta(draft.added), remove |-> Delta(draft.removed)]
      nothing == /\ patch.fields = <<>> /\ patch.members = None
                 /\ patch.add = None /\ patch.remove = None
  IN IF ops = <<>> THEN [error |-> "invalidSyntax", patch |-> patch]
     ELSE IF draft.error # "none" THEN [error |-> draft.error, patch |-> patch]
     ELSE IF nothing THEN [error |-> "nothing", patch |-> patch]
     ELSE [error |-> "none", patch |-> patch]
=============================================================================

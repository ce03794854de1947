------------------------------- MODULE MCScim -------------------------------
(* A small directory, and what an identity provider's two requests may ask: *)
(* patches of one or two operations, sent twice if the first answer is      *)
(* lost, against any single other request.                                  *)
EXTENDS Components, TLC

CONSTANTS patcher, racer

Patch == INSTANCE ScimPatch

Entry(type, value) == [type |-> type, value |-> value]
User(name, emails) ==
  [active |-> FALSE, userName |-> name, externalId |-> None,
   name |-> [familyName |-> "F"], emails |-> emails, enterprise |-> None]
MCInitialUsers ==
  "u1" :> User("ann", <<Entry(None, "a"), Entry("home", "h")>>)
  @@ "u2" :> User("bob", None) @@ "u3" :> None
MCInitialGroups ==
  "g1" :> [displayName |-> "G", externalId |-> None, members |-> {"u1"}]

Ask(on, id, method) ==
  [tenant |-> TRUE, json |-> TRUE, bearer |-> "right", on |-> on, id |-> id,
   method |-> method, body |-> None, filter |-> <<>>, start |-> 1,
   count |-> None]
With(ask, body) == [ask EXCEPT !.body = body]
Op(op, path, value) == [op |-> op, path |-> path, value |-> value]
Str(x) == <<"string", x>>
Undefined == <<"undefined", 0>>
Obj(entries) == <<"object", entries>>
Plain(head) == Patch!Path("plain", head, "")
Dotted(head, sub) == Patch!Path("plain", head, sub)
Work == Patch!Path("filter", "emails", "work")
Home == Patch!Path("filter", "emails", "home")
Urn == Patch!Path("enterprise", "", "")

UserOps ==
  { Op("replace", Work, Str("w")), Op("remove", Work, Undefined),
    Op("add", Home, Str("x")), Op("remove", Home, Undefined),
    Op("replace", Plain("emails"),
       <<"array", <<Entry(None, "p"), Entry(None, "q"), Entry("work", None)>>>>),
    Op("add", Plain("name"), Obj(<< <<Plain("givenName"), Str("N")>> >>)),
    Op("replace", Plain("name"), Obj(<< <<Plain("givenName"), Str("M")>> >>)),
    Op("remove", Dotted("name", "familyName"), Undefined),
    Op("replace", Patch!NoPath, Obj(<< <<Plain("active"), Str("True")>>,
        <<Urn, Obj(<< <<Patch!Path("enterprise", "", "department"), Str("D")>>,
                      <<Patch!Path("enterprise", "", "manager"), Str("ann")>> >>)>> >>)),
    Op("remove", Patch!Path("enterprise", "", "department"), Undefined),
    Op("replace", Plain("userName"), Str("bob")),
    Op("replace", Plain("title"), Str("Dr")),
    Op("remove", Plain("active"), Undefined) }

GroupOps ==
  { Op("add", Plain("members"), <<"members", {"u2"}>>),
    Op("add", Plain("members"), <<"members", {"u3"}>>),
    Op("remove", Patch!Path("filter", "members", "u2"), Undefined),
    Op("remove", Plain("members"), <<"members", {"u1"}>>),
    Op("replace", Plain("members"), <<"members", {"u2"}>>),
    Op("remove", Plain("members"), Undefined),
    Op("replace", Patch!NoPath, Obj(<< <<Plain("displayName"), Str("H")>> >>)) }

RacingUserOps ==
  {Op("replace", Home, Str("y")), Op("remove", Plain("name"), Undefined),
   Op("replace", Plain("userName"), Str("bob"))}
RacingGroupOps ==
  {Op("add", Plain("members"), <<"members", {"u2"}>>)}
MCMaxTries == patcher :> 2 @@ racer :> 1

UpTo2(S) == {<<a>> : a \in S} \cup {<<a, b>> : a, b \in S}

Bad == { [Ask("user", "u1", "GET") EXCEPT !.bearer = "wrong"],
         [Ask("user", "u1", "GET") EXCEPT !.tenant = FALSE],
         [Ask("user", "u1", "PATCH") EXCEPT !.json = FALSE],
         Ask("user", None, "PATCH"), Ask("elsewhere", None, "GET"),
         Ask("discovery", None, "GET") }
Reads == { [Ask("user", None, "GET") EXCEPT !.count = 1, !.filter =
              <<[attr |-> "userName", op |-> "eq", quoted |-> TRUE]>>],
           [Ask("group", None, "GET") EXCEPT !.filter =
              <<[attr |-> "userName", op |-> "eq", quoted |-> TRUE]>>],
           Ask("user", "u1", "GET") }
Put1 == With(Ask("user", "u1", "PUT"),
             [userName |-> Str("ann"), emails |-> <<"array", <<Entry("work", "v")>>>>])
Post1 == With(Ask("user", None, "POST"), [userName |-> Str("cyd")])

MCScript ==
  patcher :> ({With(Ask("user", "u1", "PATCH"), b) : b \in UpTo2(UserOps)}
              \cup {With(Ask("group", "g1", "PATCH"), b) : b \in UpTo2(GroupOps)})
  @@ racer :> ({With(Ask("user", "u1", "PATCH"), <<b>>) : b \in RacingUserOps}
              \cup {With(Ask("group", "g1", "PATCH"), <<b>>) : b \in RacingGroupOps}
              \cup {Put1, Post1, Ask("user", "u2", "DELETE"),
                    Ask("user", "u1", "DELETE"), Ask("group", "g1", "DELETE"),
                    With(Ask("group", None, "POST"), [displayName |-> Str("K")]),
                    With(Ask("group", "g1", "PUT"), [displayName |-> Str("K"),
                       members |-> <<"members", {"u3"}>>])}
              \cup Bad \cup Reads)
=============================================================================

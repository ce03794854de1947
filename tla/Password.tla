------------------------------ MODULE Password ------------------------------
(***************************************************************************)
(* The password method (methods/password.ts) over the host's user store.   *)
(* A registration looks the address up, hashes the password and creates    *)
(* the user, each in an await of its own; a login looks up and verifies.   *)
(*                                                                         *)
(* The user store is external: it either refuses a second user of an       *)
(* address or keeps both, and then finds either.  Any of its calls may     *)
(* fail, a create also after it took effect.  A hash is as good as its     *)
(* password; an address includes its tenant.                               *)
(***************************************************************************)
EXTENDS Naturals, FiniteSets

CONSTANTS
  PasswordPosts,       \* requests to the method's routes
  Addresses,
  Passwords,
  TooShort             \* passwords of fewer than eight characters

VARIABLES
  storeRefuses,        \* does the host's store keep addresses unique
  registration,        \* enableRegistration, with a create in the store
  accounts,            \* the users: [address, password, by]
  errorSaved,          \* the method state of the flow: its error
  passwordPosts,       \* requests in progress
  overlapped           \* history: addresses whose registrations overlapped

passwordVars == <<storeRefuses, registration, accounts, errorSaved,
                  passwordPosts, overlapped>>

(* able is history: there was an account with this address and password    *)
(* when the post looked.                                                   *)
NewPost == [pc |-> "idle", address |-> "", password |-> "", found |-> {},
            able |-> FALSE, result |-> "none"]

Init ==
  /\ storeRefuses \in BOOLEAN /\ registration \in BOOLEAN
  /\ accounts = {}
  /\ errorSaved = FALSE
  /\ passwordPosts = [p \in PasswordPosts |-> NewPost]
  /\ overlapped = {}

Of(address) == {a \in accounts : a.address = address}
Becomes(p, q) == passwordPosts' = [passwordPosts EXCEPT ![p] = q]
Ends(p, q, result) == Becomes(p, [q EXCEPT !.pc = "done", !.result = result])

(* The form again, with what is wrong; it stays in the flow.               *)
ReLoginWithError(p, q) == Ends(p, q, "challenge") /\ errorSaved' = TRUE

RenderLogin(p) ==
  /\ passwordPosts[p].pc = "idle"
  /\ Ends(p, NewPost, IF errorSaved THEN "form_with_error" ELSE "form")
  /\ UNCHANGED <<storeRefuses, registration, accounts, errorSaved, overlapped>>

(* safeForm and the schema of the route, then the lookup.                  *)
HandleLogin(p) ==
  /\ passwordPosts[p].pc = "idle"
  /\ \/ ReLoginWithError(p, NewPost)
     \/ \E address \in Addresses, password \in Passwords :
          LET q == [NewPost EXCEPT !.pc = "verify", !.address = address,
                      !.password = password,
                      !.able = \E a \in Of(address) : a.password = password]
          IN IF Of(address) = {} THEN ReLoginWithError(p, q)
             ELSE /\ \E a \in Of(address) : Becomes(p, [q EXCEPT !.found = {a}])
                  /\ UNCHANGED errorSaved
  /\ UNCHANGED <<storeRefuses, registration, accounts, overlapped>>

VerifyPassword(p) ==
  LET q == passwordPosts[p]
  IN /\ q.pc = "verify"
     /\ IF \E a \in q.found : a.password = q.password
        THEN Ends(p, q, "success") /\ UNCHANGED errorSaved
        ELSE ReLoginWithError(p, q)
     /\ UNCHANGED <<storeRefuses, registration, accounts, overlapped>>

Registering(address) ==
  {p \in PasswordPosts :
     passwordPosts[p].pc \in {"hash", "create"} /\ passwordPosts[p].address = address}

(* Variant for mutation: the address is not looked up. *)
RegisterAnyway(p) ==
  /\ passwordPosts[p].pc = "idle"
  /\ \/ ~registration /\ Ends(p, NewPost, "error") /\ UNCHANGED <<errorSaved, overlapped>>
     \/ registration /\ ReLoginWithError(p, NewPost) /\ UNCHANGED overlapped
     \/ \E address \in Addresses, password \in Passwords \ TooShort :
          LET q == [NewPost EXCEPT !.pc = "hash", !.address = address,
                      !.password = password]
          IN /\ registration
             /\ Becomes(p, q) /\ UNCHANGED errorSaved
             /\ overlapped' = IF Registering(address) = {} THEN overlapped
                              ELSE overlapped \cup {address}
  /\ UNCHANGED <<storeRefuses, registration, accounts>>

HandleRegister(p) ==
  /\ passwordPosts[p].pc = "idle"
  /\ \/ ~registration /\ Ends(p, NewPost, "error") /\ UNCHANGED <<errorSaved, overlapped>>
     \/ registration /\ ReLoginWithError(p, NewPost) /\ UNCHANGED overlapped
     \/ \E address \in Addresses, password \in Passwords \ TooShort :
          LET q == [NewPost EXCEPT !.pc = "hash", !.address = address,
                      !.password = password]
          IN /\ registration
             /\ IF Of(address) # {}
                THEN ReLoginWithError(p, q) /\ UNCHANGED overlapped
                ELSE /\ Becomes(p, q) /\ UNCHANGED errorSaved
                     /\ overlapped' = IF Registering(address) = {} THEN overlapped
                                      ELSE overlapped \cup {address}
  /\ UNCHANGED <<storeRefuses, registration, accounts>>

HashPassword(p) ==
  /\ passwordPosts[p].pc = "hash"
  /\ Becomes(p, [passwordPosts[p] EXCEPT !.pc = "create"])
  /\ UNCHANGED <<storeRefuses, registration, accounts, errorSaved, overlapped>>

CreateUser(p) ==
  LET q == passwordPosts[p]
      user == [address |-> q.address, password |-> q.password, by |-> p]
  IN /\ q.pc = "create"
     /\ IF storeRefuses /\ Of(q.address) # {}
        THEN Ends(p, q, "error") /\ UNCHANGED accounts
        ELSE /\ accounts' = accounts \cup {user}
             /\ \E result \in {"success", "error"} : Ends(p, q, result)
     /\ UNCHANGED <<storeRefuses, registration, errorSaved, overlapped>>

(* A call to the store that throws: dispatchMethod makes it an error.      *)
UserStoreFails(p) ==
  /\ passwordPosts[p].pc \in {"idle", "create"}
  /\ Ends(p, passwordPosts[p], "error")
  /\ UNCHANGED <<storeRefuses, registration, accounts, errorSaved, overlapped>>

Next == \E p \in PasswordPosts :
  \/ RenderLogin(p) \/ HandleLogin(p) \/ VerifyPassword(p)
  \/ HandleRegister(p) \/ HashPassword(p) \/ CreateUser(p) \/ UserStoreFails(p)

Spec == Init /\ [][Next]_passwordVars

----------------------------------------------------------------------------
(* Whoever has registered gets in: a login with the address and password   *)
(* of an account is not turned down, on a store that does not keep         *)
(* addresses unique either, unless two registrations of the address        *)
(* overlapped between findByEmail and create (handleRegister), and the     *)
(* lookup then finds the other one.                                        *)
RegistrantsGetIn ==
  \A p \in PasswordPosts :
    LET q == passwordPosts[p]
    IN q.able /\ q.result = "challenge" => q.address \in overlapped /\ ~storeRefuses
=============================================================================

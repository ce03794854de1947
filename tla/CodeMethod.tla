----------------------------- MODULE CodeMethod -----------------------------
(***************************************************************************)
(* The one-time-code method of methods/code.ts, running on the flows of    *)
(* module Flows: codeMethod decides what the handlers of Flows answer and  *)
(* what the state they save contains.                                      *)
(*                                                                         *)
(* Every handler works on ctx.methodState, the state as it was when the    *)
(* request was dispatched, and answers with a whole new state: there is no *)
(* compare-and-set.  A one-time code is compared by its hash; two codes    *)
(* with the same hash are the same code here.                              *)
(***************************************************************************)
EXTENDS Flows, FiniteSets

CONSTANTS
  Destinations, Digits,  \* addresses, and what generateCode may draw
  MaxAttempts            \* CodeConfig.maxAttempts

ASSUME CodeAssumption ==
  /\ MaxAttempts \in Nat \ {0}
  /\ None \notin Destinations \cup Digits

VARIABLES
  form,   \* form[r]: the form request r submits, and the code it draws
  memo,   \* memo[r]: the CodeState [destination, digits, attempts] that
          \* request r asked to have saved
  login   \* login[r]: the providerSubject of r's success

codeVars == <<vars, form, memo, login>>

(* A form is for the route "send" or "verify"; a destination of None is    *)
(* not a valid one, and digits of None were left blank.                    *)
NoForm == [route |-> "none", destination |-> None, digits |-> None]

CodeInit ==
  /\ Init
  /\ form = [r \in Requests |-> NoForm]
  /\ memo = [r \in Requests |-> None]
  /\ login = [r \in Requests |-> None]

Fill(r, route, d, k) ==
  form' = [form EXCEPT
    ![r] = [route |-> route, destination |-> d, digits |-> k]]

Handling(r, route) == req[r].pc = "handling" /\ form[r].route = route

----------------------------------------------------------------------------
(* GET /authorize answers with the destination form. *)
StartLogin(r) ==
  /\ \E a \in Ask : StartAuthorize(r, a)
  /\ UNCHANGED <<form, memo, login>>

AskDestination(r) ==
  /\ req[r].op = "authorize"
  /\ HandlerChallenges(r)
  /\ UNCHANGED <<form, memo, login>>

(* POST /send and POST /verify reach the method through handleMethodRoute. *)
Submit(r, f, route, d, k) ==
  /\ \E h \in Handler : RouteRead(r, f, h)
  /\ Fill(r, route, d, k)
  /\ UNCHANGED <<memo, login>>

(* handleSend, the destination is not a valid one: the form again. *)
SendInvalid(r) ==
  /\ Handling(r, "send")
  /\ form[r].destination = None
  /\ HandlerChallenges(r)
  /\ UNCHANGED <<form, memo, login>>

(* A code is drawn and handed to the sendCode hook, which is awaited: the  *)
(* user may hold the code before the state is saved.                       *)
SendDraws(r, k) ==
  /\ Handling(r, "send")
  /\ form[r].destination # None
  /\ form[r].digits = None
  /\ Fill(r, "send", form[r].destination, k)
  /\ UNCHANGED <<vars, memo, login>>

(* Whether the delivery worked or not, the new code replaces the old one   *)
(* and the count starts again.                                             *)
SendSaves(r) ==
  /\ Handling(r, "send")
  /\ form[r].digits # None
  /\ HandlerSaves(r)
  /\ memo' = [memo EXCEPT ![r] = [destination |-> form[r].destination,
                                  digits |-> form[r].digits, attempts |-> 0]]
  /\ UNCHANGED <<form, login>>

----------------------------------------------------------------------------
(* handleVerify decides on the state it was dispatched with. *)
Seen(r) == memo[req[r].seen]

VerifyTooSoon(r) ==
  /\ Handling(r, "verify")
  /\ req[r].seen = None
  /\ HandlerFails(r)
  /\ UNCHANGED <<form, memo, login>>

(* Variant for mutation: the cap is one too low. *)
CappedEarly(s) == s.attempts + 1 >= MaxAttempts

Capped(s) == s.attempts >= MaxAttempts

VerifyDenied(r) ==
  /\ Handling(r, "verify")
  /\ req[r].seen # None /\ Capped(Seen(r))
  /\ HandlerDenies(r)
  /\ UNCHANGED <<form, memo, login>>

Compares(r) ==
  Handling(r, "verify") /\ req[r].seen # None /\ ~Capped(Seen(r))

(* Nothing typed: the same state is written back. *)
VerifyBlank(r) ==
  /\ Compares(r)
  /\ form[r].digits = None
  /\ HandlerSaves(r)
  /\ memo' = [memo EXCEPT ![r] = Seen(r)]
  /\ UNCHANGED <<form, login>>

(* Variant for mutation: a failed attempt is not counted. *)
WrongUncounted(r) ==
  /\ Compares(r)
  /\ form[r].digits \notin {None, Seen(r).digits}
  /\ HandlerSaves(r)
  /\ memo' = [memo EXCEPT ![r] = Seen(r)]
  /\ UNCHANGED <<form, login>>

VerifyWrong(r) ==
  /\ Compares(r)
  /\ form[r].digits \notin {None, Seen(r).digits}
  /\ HandlerSaves(r)
  /\ memo' = [memo EXCEPT ![r] = [Seen(r) EXCEPT !.attempts = @ + 1]]
  /\ UNCHANGED <<form, login>>

(* Variant for mutation: the subject is taken from the flow as it is now. *)
SubjectNow(r) ==
  LET f == req[r].flow
  IN IF Live(f) /\ flows[f].state # None
     THEN memo[flows[f].state].destination ELSE Seen(r).destination

Subject(r) == Seen(r).destination

VerifyRight(r) ==
  /\ Compares(r)
  /\ form[r].digits = Seen(r).digits
  /\ FlowSucceeds(r)
  /\ login' = [login EXCEPT ![r] = Subject(r)]
  /\ UNCHANGED <<form, memo>>

----------------------------------------------------------------------------
(* The framework's own steps. *)
Framework(r) ==
  /\ Surface(r) \/ IssueCode(r) \/ IssueFails(r)
  /\ UNCHANGED <<form, memo, login>>

CodeTick == Tick /\ UNCHANGED <<form, memo, login>>

CodeNext ==
  \/ \E r \in Requests :
       \/ StartLogin(r) \/ AskDestination(r)
       \/ \E f \in Requests, d \in Destinations \cup {None} :
            Submit(r, f, "send", d, None)
       \/ \E f \in Requests, k \in Digits \cup {None} :
            Submit(r, f, "verify", None, k)
       \/ SendInvalid(r)
       \/ \E k \in Digits : SendDraws(r, k)
       \/ SendSaves(r)
       \/ VerifyTooSoon(r) \/ VerifyDenied(r) \/ VerifyBlank(r)
       \/ VerifyWrong(r) \/ VerifyRight(r)
       \/ Framework(r)
  \/ CodeTick

CodeSpec == CodeInit /\ [][CodeNext]_codeVars

----------------------------------------------------------------------------
(* A code that was wrong for the state it was compared with.               *)
Failed(r) ==
  /\ form[r].route = "verify" /\ form[r].digits # None
  /\ req[r].pc = "persisted" \/ req[r].out = "saved"

(* The failed verifies of the flow against the code drawn by its sends.    *)
Failures(f) == {r \in Requests : Failed(r) /\ req[r].flow = f}

(* Who gets in received the code: the digits accepted were drawn by a      *)
(* /send of the same flow to the very destination the login is for, even   *)
(* when another destination was sent a code while the verify was handled.  *)
LoginsHeldTheCode ==
  \A r \in Requests :
    login[r] # None =>
      \E q \in Requests :
        /\ form[q].route = "send" /\ req[q].flow = req[r].flow
        /\ form[q].destination = login[r]
        /\ form[q].digits = form[r].digits

(* A denial is earned: a flow is denied only after MaxAttempts verifies    *)
(* that did fail, never for an empty form or a forgotten /send.            *)
DenialsAreEarned ==
  \A r \in Requests :
    req[r].out = "denied" => Cardinality(Failures(req[r].flow)) >= MaxAttempts

(* "After this many failed verifies the flow is denied" (maxAttempts,      *)
(* methods/code.ts), of a flow whose user asked for one code.              *)
Sends(f) == {r \in Requests : req[r].flow = f /\ form[r].route = "send"}
AttemptsAreCapped ==
  \A f \in Requests :
    Cardinality(Sends(f)) <= 1 => Cardinality(Failures(f)) <= MaxAttempts

(* The cap gives way to one thing only: two verifies that were dispatched  *)
(* with the same state, the later of which undoes what the other counted.  *)
Dispatched(f) == {r \in Requests :
  req[r].flow = f /\ form[r].route = "verify" /\ req[r].seen # None}
FailuresAreCounted ==
  \A f \in Requests :
    /\ Cardinality(Sends(f)) <= 1
    /\ \A q, r \in Dispatched(f) : req[q].seen = req[r].seen => q = r
    => Cardinality(Failures(f)) <= MaxAttempts
============================================================================

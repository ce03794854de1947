------------------------------ MODULE OneShot ------------------------------
(***************************************************************************)
(* What the authorization pipeline promises about its credentials, with no *)
(* stores, requests or clocks in sight.                                    *)
(*                                                                         *)
(* A ticket is anything that may be presented once: an authorization code  *)
(* or a refresh token.  A ticket is issued, then either spent by exactly   *)
(* one presentation or voided.  A spent ticket bears at most one heir: the *)
(* refresh token the presentation returned.  Heirs therefore form chains,  *)
(* never trees, which is what refresh-token rotation with reuse detection  *)
(* rests on: if a chain could fork, two holders could both keep refreshing *)
(* and neither would ever be detected.                                     *)
(***************************************************************************)
CONSTANTS
  Ticket,  \* every code and refresh token that can exist
  Root,    \* those issued outright: authorization codes, flows
  None     \* "no ticket"


VARIABLES
  status,  \* status[t]: where t is in its life
  heir     \* heir[t]: the ticket minted when t was spent, or None

vars == <<status, heir>>

Status == {"unborn", "live", "spent", "void"}

TypeOK ==
  /\ status \in [Ticket -> Status]
  /\ heir \in [Ticket -> Ticket \cup {None}]

Init ==
  /\ status = [t \in Ticket |-> "unborn"]
  /\ heir = [t \in Ticket |-> None]

(* A root ticket, the authorization code of a completed login. *)
Issue(t) ==
  /\ t \in Root
  /\ status[t] = "unborn"
  /\ status' = [status EXCEPT ![t] = "live"]
  /\ UNCHANGED heir

(* One presentation wins the ticket. *)
Spend(t) ==
  /\ status[t] = "live"
  /\ status' = [status EXCEPT ![t] = "spent"]
  /\ UNCHANGED heir

(* The winner of t is handed the new ticket u. *)
Bear(t, u) ==
  /\ status[t] = "spent"
  /\ heir[t] = None
  /\ u \notin Root
  /\ status[u] = "unborn"
  /\ status' = [status EXCEPT ![u] = "live"]
  /\ heir' = [heir EXCEPT ![t] = u]

(* Expiry, family revocation and logout withdraw unspent tickets. *)
Void(S) ==
  /\ \A t \in S : status[t] = "live"
  /\ status' = [t \in Ticket |-> IF t \in S THEN "void" ELSE status[t]]
  /\ UNCHANGED heir

Next ==
  \/ \E t \in Ticket : Issue(t) \/ Spend(t)
  \/ \E t, u \in Ticket : Bear(t, u)
  \/ \E S \in SUBSET Ticket : Void(S)

Spec == Init /\ [][Next]_vars

----------------------------------------------------------------------------
(* Chains never merge: two tickets never have the same heir, and every     *)
(* heir was born by being one.                                             *)
HeirsAreDistinct ==
  \A t, u \in Ticket : heir[t] # None /\ heir[t] = heir[u] => t = u

(* Only a spent ticket has an heir, and that heir exists. *)
HeirsComeFromSpentTickets ==
  \A t \in Ticket :
    heir[t] # None => status[t] = "spent" /\ status[heir[t]] # "unborn"
============================================================================

-------------------------------- MODULE Saml --------------------------------
(***************************************************************************)
(* A SAML service provider connection (methods/saml-sp/): the redirect to  *)
(* the identity provider, the assertion that comes back (or comes without  *)
(* having been asked for), and single logout.  What makes an assertion or  *)
(* a logout request good for one use is a value in the scratch store of    *)
(* the method, read in one await and written in a later one, with a        *)
(* lifetime derived from the message.                                      *)
(*                                                                         *)
(* node-saml is external: it looks the request id up, verifies signature,  *)
(* issuer, audience and conditions, and removes the id.  All messages here *)
(* are genuine: a browser may post one twice, or late.                     *)
(***************************************************************************)
EXTENDS Integers, FiniteSets

CONSTANTS
  Posts,            \* requests to /cb and /sls
  LoginFlows,       \* logins started at /authorize; also their request ids
  Unsolicited,      \* assertions nobody asked for
  LogoutRequests,   \* of the identity provider
  AssertionOf,      \* each assertion: [recipient, subject, notOnOrAfter]
  SamlConfigs,      \* the configurations considered
  NoAssertion,      \* none: a value apart
  Forever,          \* no NotOnOrAfter
  Minimum, Longest, Default, RequestTtl, SloHorizon,   \* durations
  MaxSamlTime       \* bounds the clock

Assertions == LoginFlows \cup Unsolicited     \* an answer is named for its flow

Keys == {<<"request", f>> : f \in LoginFlows}
        \cup {<<"assertion", a>> : a \in Assertions}
        \cup {<<"logout", l>> : l \in LogoutRequests}

SamlAssumption ==
  /\ LoginFlows \cap Unsolicited = {}
  /\ \A c \in SamlConfigs : c.clockSkew \in Nat
  /\ \A a \in Assertions : AssertionOf[a].notOnOrAfter \in Nat \cup {Forever}
  /\ {Minimum, Longest, Default, RequestTtl, SloHorizon} \subseteq Nat

VARIABLES
  samlConfig,   \* the connection
  samlNow,
  scratch,      \* the method's scratch: key -> when it expires, 0 if absent
  samlFlows,    \* flow records: "none", "open", "taken"
  posts,        \* requests in progress
  used,         \* history: assertions that have logged somebody in
  kept,         \* history: request ids whose removal failed
  carriedOut    \* history: logout requests carried out

samlVars == <<samlConfig, samlNow, scratch, samlFlows, posts, used, kept,
              carriedOut>>

(* The cross-field rules of the configuration schema. *)
ValidConfig(c) ==
  /\ c.signAuthnRequest => c.signingKey
  /\ c.requireSignedAssertion \/ c.requireSignedResponse

(* usedBefore, blind and recorded are history: had the assertion logged    *)
(* somebody in when this post looked it up, did that lookup fail or come   *)
(* only after the assertion had expired, and did this post put the logout  *)
(* request on record.                                                      *)
Fresh == [pc |-> "idle", message |-> NoAssertion, unsolicited |-> FALSE,
          usedBefore |-> FALSE, blind |-> FALSE, recorded |-> FALSE,
          result |-> "none"]

Init ==
  /\ samlConfig \in {c \in SamlConfigs : ValidConfig(c)}
  /\ samlNow = 0
  /\ scratch = [k \in Keys |-> 0]
  /\ samlFlows = [f \in LoginFlows |-> "none"]
  /\ posts = [p \in Posts |-> Fresh]
  /\ used = {} /\ kept = {} /\ carriedOut = {}

----------------------------------------------------------------------------
(* A certificate is active from notBefore until just before notAfter; no   *)
(* verifier can be built when none is.                                     *)
SelectActiveCertPems ==
  {c \in samlConfig.signingCerts : c.notBefore <= samlNow /\ samlNow < c.notAfter}
CanBuildSamlInstance == SelectActiveCertPems # {}

(* The scratch store: a value is there until it expires.                   *)
Holds(key) == samlNow < scratch[key]
Puts(key, ttl) == scratch' = [scratch EXCEPT ![key] = samlNow + ttl]

Becomes(p, q) == posts' = [posts EXCEPT ![p] = q]
Ends(p, q, result) == Becomes(p, [q EXCEPT !.pc = "done", !.result = result])
NoLogin == UNCHANGED <<used, samlFlows>>
Aside == UNCHANGED <<samlConfig, samlNow>>

----------------------------------------------------------------------------
(* BuildAuthnRequestRedirect: a probe of the scratch store, the request,   *)
(* whose id node-saml saves without looking at the outcome, and the method *)
(* state, saved before the redirect is sent.  Otherwise the flow is of no  *)
(* more use.                                                               *)
BuildAuthnRequestRedirect(f) ==
  /\ samlFlows[f] = "none"
  /\ \E probed, stateSaved, idSaved \in BOOLEAN :
       LET asked == probed /\ CanBuildSamlInstance
                    /\ (samlConfig.signAuthnRequest => samlConfig.signingKey)
       IN /\ samlFlows' = [samlFlows EXCEPT ![f] =
                             IF asked /\ stateSaved THEN "open" ELSE "taken"]
          /\ IF asked /\ idSaved THEN Puts(<<"request", f>>, RequestTtl)
             ELSE UNCHANGED scratch
  /\ UNCHANGED <<posts, used, kept, carriedOut>> /\ Aside

(* The start of consumeAssertion.  With a flow, which the callback has     *)
(* consumed, any assertion may come; without one, only a connection that   *)
(* is configured for it goes on.  An answer names its request, and that is *)
(* looked up; within a flow an assertion that names none is refused.       *)
ConsumeAssertion(p) ==
  /\ posts[p].pc = "idle"
  /\ \E a \in Assertions, f \in LoginFlows \cup {NoAssertion} :
       LET unsolicited == f = NoAssertion
           q == [Fresh EXCEPT !.message = a, !.unsolicited = unsolicited]
       IN /\ a \in LoginFlows => samlFlows[a] # "none"
          /\ ~unsolicited => samlFlows[f] = "open"
          /\ samlFlows' = IF unsolicited THEN samlFlows
                          ELSE [samlFlows EXCEPT ![f] = "taken"]
          /\ IF (unsolicited /\ ~samlConfig.idpInitiated) \/ ~CanBuildSamlInstance
             THEN Ends(p, q, "error")
             ELSE IF a \in LoginFlows THEN Becomes(p, [q EXCEPT !.pc = "lookup"])
             ELSE IF unsolicited THEN Becomes(p, [q EXCEPT !.pc = "verify"])
             ELSE Ends(p, q, "denied")
  /\ UNCHANGED <<scratch, used, kept, carriedOut>> /\ Aside

(* getAsync: a store that fails has not seen the id, so it is refused.     *)
GetAsync(p) ==
  LET a == posts[p].message
      q == [posts[p] EXCEPT !.usedBefore = a \in used]
  IN /\ posts[p].pc = "lookup"
     /\ \E failed \in BOOLEAN :
          IF failed \/ ~Holds(<<"request", a>>) THEN Ends(p, q, "denied")
          ELSE Becomes(p, [q EXCEPT !.pc = "verify"])
     /\ UNCHANGED <<scratch, kept, carriedOut>> /\ NoLogin /\ Aside

(* node-saml verifies, and removes the id of the request either way; the   *)
(* removal may fail unnoticed.                                             *)
RemoveAsync(p) ==
  LET a == posts[p].message
  IN IF a \notin LoginFlows THEN UNCHANGED <<scratch, kept>>
     ELSE \/ scratch' = [scratch EXCEPT ![<<"request", a>>] = 0] /\ UNCHANGED kept
          \/ kept' = kept \cup {a} /\ UNCHANGED scratch

WithinConditions(a) ==
  AssertionOf[a].notOnOrAfter = Forever
  \/ samlNow < AssertionOf[a].notOnOrAfter + samlConfig.clockSkew

CheckRecipient(a) == AssertionOf[a].recipient

(* mapProfile: without a subject there is no login.                        *)
MapProfile(p, q) ==
  LET a == q.message
  IN IF AssertionOf[a].subject
     THEN Ends(p, q, "success") /\ used' = used \cup {a}
     ELSE Ends(p, q, "denied") /\ UNCHANGED used

Verify(p) ==
  LET q == posts[p]
  IN /\ q.pc = "verify"
     /\ RemoveAsync(p)
     /\ IF ~(WithinConditions(q.message) /\ CheckRecipient(q.message))
        THEN Ends(p, q, "denied") /\ UNCHANGED used
        ELSE IF q.unsolicited
        THEN Becomes(p, [q EXCEPT !.pc = "seen"]) /\ UNCHANGED used
        ELSE MapProfile(p, q)
     /\ UNCHANGED <<samlFlows, carriedOut>> /\ Aside

(* An assertion that came by itself: has it been seen?  A store that fails *)
(* to answer has not seen it.                                              *)
LookForReplay(p) ==
  LET q == posts[p]
      a == q.message
  IN /\ q.pc = "seen"
     /\ \E failed \in BOOLEAN :
          IF ~failed /\ Holds(<<"assertion", a>>) THEN Ends(p, q, "denied")
          ELSE Becomes(p, [q EXCEPT !.pc = "record", 
                             !.blind = failed \/ ~WithinConditions(a),
                             !.usedBefore = @ \/ a \in used \cap Unsolicited])
     /\ UNCHANGED <<scratch, kept, carriedOut>> /\ NoLogin /\ Aside

Least(a, b) == IF a < b THEN a ELSE b
Most(a, b) == IF a < b THEN b ELSE a

(* Variant for mutation: a record that forgets the clock skew. *)
ReplayTtlWithoutSkew(a) ==
  LET until == AssertionOf[a].notOnOrAfter
      horizon == IF until = Forever THEN Default ELSE until - samlNow
  IN Least(Most(horizon, Minimum), Longest)

(* How long it is remembered: as long as it can be valid, but at least the *)
(* skew and a minute, and at most a day.                                   *)
ReplayTtl(a) ==
  LET until == AssertionOf[a].notOnOrAfter
      skew == samlConfig.clockSkew
      horizon == IF until = Forever THEN Default ELSE until - samlNow + skew
  IN Least(Most(Most(horizon, skew), Minimum), Longest)

RecordAssertion(p) ==
  LET q == posts[p]
      key == <<"assertion", q.message>>
  IN /\ q.pc = "record"
     /\ \/ Puts(key, ReplayTtl(q.message)) /\ MapProfile(p, q)
        \/ Ends(p, q, "error") /\ UNCHANGED <<scratch, used>>
     /\ UNCHANGED <<samlFlows, kept, carriedOut>> /\ Aside

----------------------------------------------------------------------------
(* Single logout. *)

(* Variant for mutation: one record for all logout requests. *)
SloKeyOfAll(l) == CHOOSE k \in Keys : k[1] = "logout"

SloKey(l) == <<"logout", l>>

(* consumeSls, of a LogoutRequest that verifies: has it been seen?         *)
ConsumeSls(p) ==
  /\ posts[p].pc = "idle"
  /\ samlConfig.sloUrl
  /\ \E l \in LogoutRequests, failed \in BOOLEAN :
       LET q == [Fresh EXCEPT !.message = l]
       IN IF ~CanBuildSamlInstance THEN Ends(p, q, "error")
          ELSE IF ~failed /\ Holds(SloKey(l)) THEN Ends(p, q, "replay")
          ELSE Becomes(p, [q EXCEPT !.pc = "slo"])
  /\ UNCHANGED <<scratch, kept, carriedOut>> /\ NoLogin /\ Aside

(* Put on record; then the LogoutResponse is built, which may fail.        *)
RecordLogout(p) ==
  LET q == posts[p]
  IN /\ q.pc = "slo"
     /\ \/ Ends(p, q, "error") /\ UNCHANGED scratch
        \/ /\ Puts(SloKey(q.message), SloHorizon)
           /\ \E pc \in {"hook", "done"} :
                Becomes(p, [q EXCEPT !.pc = pc, !.recorded = TRUE,
                              !.result = IF pc = "done" THEN "error" ELSE @])
     /\ UNCHANGED <<kept, carriedOut>> /\ NoLogin /\ Aside

(* runUpstreamLogout: the host's hook, which may throw, and then revoking  *)
(* the subject it named, which may fail; only then is the response sent.   *)
OnLogout(p) ==
  LET q == posts[p]
  IN /\ q.pc = "hook"
     /\ \/ Ends(p, q, "error") /\ UNCHANGED carriedOut
        \/ Becomes(p, [q EXCEPT !.pc = "revoke"]) /\ UNCHANGED carriedOut
        \/ /\ Ends(p, q, "confirmed")
           /\ carriedOut' = carriedOut \cup {q.message}
     /\ UNCHANGED <<scratch, kept>> /\ NoLogin /\ Aside

RevokeSubject(p) ==
  LET q == posts[p]
  IN /\ q.pc = "revoke"
     /\ \/ Ends(p, q, "error") /\ UNCHANGED carriedOut
        \/ /\ Ends(p, q, "confirmed")
           /\ carriedOut' = carriedOut \cup {q.message}
     /\ UNCHANGED <<scratch, kept>> /\ NoLogin /\ Aside

(* The other legs of logout keep nothing: the redirect that asks the       *)
(* identity provider for a logout, and its answer.                         *)
InitiateSpLogout(p) ==
  /\ posts[p].pc = "idle" /\ samlConfig.sloUrl
  /\ \E result \in {"denied"} \cup IF CanBuildSamlInstance THEN {"redirect"} ELSE {"error"} :
       Ends(p, Fresh, result)
  /\ UNCHANGED <<scratch, kept, carriedOut>> /\ NoLogin /\ Aside

ConsumeLogoutResponse(p) ==
  /\ posts[p].pc = "idle" /\ samlConfig.sloUrl
  /\ IF CanBuildSamlInstance
     THEN \E result \in {"denied", "acknowledged"} : Ends(p, Fresh, result)
     ELSE Ends(p, Fresh, "error")
  /\ UNCHANGED <<scratch, kept, carriedOut>> /\ NoLogin /\ Aside

Tick ==
  /\ samlNow < MaxSamlTime
  /\ samlNow' = samlNow + 1
  /\ UNCHANGED <<samlConfig, scratch, samlFlows, posts, used, kept, carriedOut>>

Next ==
  \/ \E f \in LoginFlows : BuildAuthnRequestRedirect(f)
  \/ \E p \in Posts :
       \/ ConsumeAssertion(p) \/ GetAsync(p) \/ Verify(p) \/ LookForReplay(p)
       \/ RecordAssertion(p)
       \/ ConsumeSls(p) \/ RecordLogout(p) \/ OnLogout(p) \/ RevokeSubject(p)
       \/ InitiateSpLogout(p) \/ ConsumeLogoutResponse(p)
  \/ Tick

Spec == Init /\ [][Next]_samlVars

----------------------------------------------------------------------------
(* An assertion that has logged somebody in does not do so again: a later  *)
(* post of it is refused as long as the assertion itself is valid.  Only   *)
(* posts that overlap, a store that failed to answer or to delete, a       *)
(* lookup that came late and an assertion that is valid for longer than it *)
(* is remembered make exceptions (consumeAssertion,                        *)
(* methodScratchCacheProvider): the record is gone at the very moment the  *)
(* assertion expires, so a post that is verified just before and looked up *)
(* just after finds neither.                                               *)
OutlivesItsRecord(a) ==
  \/ AssertionOf[a].notOnOrAfter = Forever
  \/ AssertionOf[a].notOnOrAfter + samlConfig.clockSkew > Longest

AssertionsAreUsedOnce ==
  \A p \in Posts :
    LET q == posts[p]
    IN q.result = "success" /\ q.usedBefore =>
         \/ q.message \in LoginFlows /\ q.message \in kept
         \/ q.message \in Unsolicited /\ (q.blind \/ OutlivesItsRecord(q.message))

(* The identity provider hears of a logout only when it was carried out;   *)
(* and it hears of a replay only when that very request was carried out,   *)
(* is being carried out, or failed here: a logout request is not lost by   *)
(* any other path (consumeSls, runUpstreamLogout).  It is lost by that one:*)
(* the retry of a logout that failed after it was put on record is refused.*)
LogoutsAreNotLost ==
  \A p \in Posts :
    /\ posts[p].result = "confirmed" => posts[p].message \in carriedOut
    /\ posts[p].result = "replay" =>
         \E q \in Posts :
           /\ posts[q].message = posts[p].message /\ posts[q].recorded
           /\ posts[q].result \in {"none", "error", "confirmed"}
=============================================================================

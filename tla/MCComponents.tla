---------------------------- MODULE MCComponents ----------------------------
(***************************************************************************)
(* Small instances of the components that share no state.  One run         *)
(* explores them all; the bounds are the constants of its .cfg, and here   *)
(* is what those constants need for values that are not plain sets.        *)
(***************************************************************************)
EXTENDS MCScim

CONSTANTS Trio, Duo   \* three and two concurrent requests, calls or processes

Symmetry == Permutations(Trio) \cup Permutations(Duo)

----------------------------------------------------------------------------
(* TokenStores: one token of one family. *)
MCFamilyOf == [t \in Tokens |-> "f"]

(* Saml: two answers to logins started here, an assertion nobody asked for *)
(* that ends, and one that does not.                                       *)
Assertion(until) ==
  [notOnOrAfter |-> until, recipient |-> TRUE, subject |-> TRUE]
MCAssertionOf ==
  [a \in {"f1", "f2", "i1", "i2"} |-> Assertion(IF a = "i2" THEN Forever ELSE 2)]
Cert(from, until) == [notBefore |-> from, notAfter |-> until]
MCSamlConfigs ==
  { [idpInitiated |-> i, sloUrl |-> ~i, signAuthnRequest |-> ~i,
     signingKey |-> TRUE, requireSignedAssertion |-> TRUE,
     requireSignedResponse |-> FALSE, clockSkew |-> 1,
     signingCerts |-> {Cert(0, 2), Cert(1, IF i THEN 9 ELSE 3)}]
    : i \in BOOLEAN }

(* Passkey: a device that counts, and its clone. *)
MCCredentialOf == [d \in Devices |-> "c"]
MCCounts == [d \in Devices |-> TRUE]

(* Dpop: one proof from the future, one from the past, one for the other   *)
(* endpoint.                                                               *)
Proof(iat, key, at, ath) ==
  [iat |-> iat, key |-> key, at |-> at, ath |-> ath, wellFormed |-> TRUE]
MCProofOf ==
  [p \in {"p1", "p2", "p3"} |->
     CASE p = "p1" -> Proof(2, "k1", "userinfo", "t1")
       [] p = "p2" -> Proof(1, "k2", "userinfo", "t1")
       [] p = "p3" -> Proof(2, "k1", "token", None)]
MCBoundTo == [t \in {"t1", "t2"} |-> IF t = "t1" THEN "k1" ELSE None]

(* AccessTokens: both clients are known in one tenant, one of them in the  *)
(* other.                                                                  *)
MCFirstEnrolments ==
  {[t \in {"a", "b"} |-> [c \in {"web", "api"} |->
      IF c = "api" THEN "confidential" ELSE IF t = "a" THEN "public" ELSE None]]}
Change(tenant, client, type) ==
  [tenant |-> tenant, client |-> client, type |-> type]
MCChanges == {Change("b", "web", "public"), Change("a", "web", None)}

(* Upstream: logins of two users at one provider. *)
MCHostOf == [t \in {"a"} |-> "h"]
MCRegistered == {<<"a", "c">>}
MCConfigured == {<<"a", "m">>}
=============================================================================

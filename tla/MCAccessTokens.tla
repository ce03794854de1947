--------------------------- MODULE MCAccessTokens ---------------------------
(* Two tenants that know one confidential client and do not change. *)
EXTENDS AccessTokens

MCFirstEnrolments == {[t \in AccessTenants |-> [c \in AccessClients |-> "confidential"]]}
MCChanges == {[tenant |-> t, client |-> c, type |-> Absent]
              : t \in AccessTenants, c \in AccessClients}
=============================================================================

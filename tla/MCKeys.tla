------------------------------- MODULE MCKeys -------------------------------
(* A few calls on an empty database, and a relying party that verifies.    *)
EXTENDS Keys
=============================================================================

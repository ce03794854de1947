--------------------------- MODULE MCTokenGrants ---------------------------
(* Instances of TokenGrants for TLC. *)
EXTENDS TokenGrantsInv, TLC

(* Requests and tokens are interchangeable: no constant singles one out. *)
Symmetric == Permutations(Tokens) \cup Permutations(Requests)
=============================================================================

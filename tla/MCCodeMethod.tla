---------------------------- MODULE MCCodeMethod ----------------------------
(* One tenant, one client and the code method; the user submits a few forms *)
EXTENDS CodeMethod, TLC

CONSTANTS t1, c1, m1, h1

OneHost == [t \in Tenants |-> h1]
OneClient == {<<t1, c1>>}
OneMethod == {<<t1, m1>>}
RequestSymmetry == Permutations(Requests)
============================================================================

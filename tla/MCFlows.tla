------------------------------ MODULE MCFlows ------------------------------
(* Two tenants that configure a method of the same id on one session store *)
EXTENDS FlowsProps, TLC

CONSTANTS t1, t2, c1, c2, m1, m2, h1, h2

SharedHost == [t \in Tenants |-> h1]
OwnHosts == (t1 :> h1) @@ (t2 :> h2)
MCRegistered == {<<t1, c1>>, <<t2, c2>>}
MCConfigured == {<<t1, m1>>, <<t1, m2>>, <<t2, m1>>}
MCUnsolicited == {<<t1, m2>>}
OneClient == {<<t1, c1>>}
OneMethod == {<<t1, m1>>}
RequestSymmetry == Permutations(Requests)
============================================================================

---------------------------- MODULE MCMethodCache ----------------------------
(* Two servers, three requests, two changes of the configuration.          *)
EXTENDS MethodCache, TLC

CacheSymmetry ==
  Permutations(Servers) \cup Permutations(Requests) \cup Permutations(Puts)
=============================================================================

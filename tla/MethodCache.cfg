CONSTANTS
  Servers = {s1, s2}
  Requests = {r1, r2, r3}
  Puts = {p1, p2}
  MaxLag = 1
SPECIFICATION Spec
INVARIANTS ServedMethodsWereBuiltHere StaleOnlyThroughABuild
SYMMETRY CacheSymmetry
CHECK_DEADLOCK FALSE

CONSTANTS
  Servers = {s1}
  Requests = {r1, r2}
  Puts = {p1}
  MaxLag = 0
SPECIFICATION Spec
INVARIANTS RotationsTakeEffect
CHECK_DEADLOCK FALSE

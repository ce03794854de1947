CONSTANTS
  Calls = {c1, c2, c3}
  Verifies = {v1, v2}
  Dynamo = TRUE
  None = None
SPECIFICATION Spec
INVARIANTS NoActiveKeyIsUnreachable
CHECK_DEADLOCK FALSE

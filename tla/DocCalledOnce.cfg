SPECIFICATION Spec
CONSTANTS
  Requests = {r1, r2}
  Timed = {r1}
  Patience = 2
INVARIANTS CalledOnce
CHECK_DEADLOCK FALSE

SPECIFICATION Spec
CONSTANTS
  Requests = {r1}
  Clients = {a, b}
  V6 = {b}
  NoOrigin = NoOrigin
  Max = 2
  Window = 9
  MaxTime = 3
  MaxAttempts = 4
SYMMETRY Symmetry
CHECK_DEADLOCK FALSE
INVARIANT CountedPerIP

SPECIFICATION Spec
CONSTANTS
  Requests = {r1, r2}
  Clients = {b}
  V6 = {b}
  NoOrigin = NoOrigin
  Max = 2
  Window = 2
  MaxTime = 3
  MaxAttempts = 6
SYMMETRY Symmetry
CHECK_DEADLOCK FALSE
INVARIANTS TypeOK FailCountExact OvershootBound UnclearedBound
PROPERTIES RefusalIsJustified BlockIsNotProlonged

SPECIFICATION Spec
CONSTANTS
  Tokens = {t1, t2, t3, t4}
  NoToken = NoToken
  Refreshes = {r1, r2}
  Second = 2
  Validity = 6
  RefreshWindow = 2
  MaxTime = 12
SYMMETRY Symmetry
CHECK_DEADLOCK FALSE
INVARIANTS TokensTypeOK TwoGenerations RefreshExtends

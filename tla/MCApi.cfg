SPECIFICATION Spec
CONSTANTS
  Streams = {s1, s2}
  Unknown = Unknown
  TenantIds = {t1, t2}
  Requests = {r1, r2, r3}
  Suspends = {c1}
  NoTenant = NoTenant
  NoStopper = NoStopper
SYMMETRY Symmetry
CHECK_DEADLOCK FALSE
INVARIANTS ApiTypeOK GaugeAccount RepliesAreTrue

SPECIFICATION Spec
CONSTANTS
  TenantIds = {t1, t2}
  Stoppers = {s1, s2, s3}
  Suspends = {c1, c2, c3}
  NoTenant = NoTenant
  NoStopper = NoStopper
SYMMETRY Symmetry
CHECK_DEADLOCK FALSE
INVARIANTS TypeOK StopperRunsOnce NilMeansTaken

SPECIFICATION Spec
CONSTANTS
  Streams = {s1}
  PCs = {p1, p2}
  NoPC = NoPC
  NoStream = NoStream
CHECK_DEADLOCK FALSE
INVARIANT LiveIsNotSuspended

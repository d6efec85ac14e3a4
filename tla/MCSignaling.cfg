SPECIFICATION SignalSpec
CONSTANTS
  Streams = {s1, u}
  Unknown = u
  PCs = {p1, p2, p3}
  Sessions = {c1, c2}
  NoPC = NoPC
  NoStream = NoStream
SYMMETRY Symmetry
CHECK_DEADLOCK FALSE
INVARIANTS SignalTypeOK AnswerIsAlive EndIsTrue

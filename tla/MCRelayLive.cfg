SPECIFICATION FairSpec
CONSTANTS
  Streams = {s1}
  PCs = {p1, p2, p3}
  NoPC = NoPC
  NoStream = NoStream
CHECK_DEADLOCK FALSE
PROPERTIES LoopsDrain

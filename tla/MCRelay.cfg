SPECIFICATION Spec
CONSTANTS
  Streams = {s1}
  PCs = {p1, p2, p3, p4}
  NoPC = NoPC
  NoStream = NoStream
SYMMETRY Symmetry
CHECK_DEADLOCK FALSE
INVARIANTS TypeOK EndedIsQuiet OpenIsAccountedFor
PROPERTIES NoListenerReturns NoListenerLost NoAudioDuringPause EndedLoopsWindDown ImplementsService

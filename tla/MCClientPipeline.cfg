CONSTANTS
  Compressors = {p1, p2}
  Workers = {w1, w2}
  Ahead = 2
  LastBlock = 6
  SkipIdx = 1
  IdxMod = 8
SPECIFICATION PipeSpec
INVARIANTS PipeTypeOK NoSendOnClosed AllBlocksTaken NeverStuck
PROPERTIES ImplementsFeed ClientEnds
CHECK_DEADLOCK FALSE

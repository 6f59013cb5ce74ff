CONSTANTS
  Byte = {0, 1}
  BlockSize = 2
  BlockCount = 2
  Workers = {w1, w2}
  Main = main
  Hashers = {h1, h2}
  Sources <- MCSources
  Targets <- MCTargets
  Shrinks <- MCShrinks
  NoCompress = {TRUE}
  ClientSkip = 0
  ServerBlockSize = 2
  ServerSkip = 0
  MaxFaults = 0
  MaxConn = 4
SPECIFICATION FairSpec
INVARIANTS TypeOK SkipSound RepliesMatch NoEofReply TailSize Copies
PROPERTIES Finishes Mirrors
CHECK_DEADLOCK FALSE

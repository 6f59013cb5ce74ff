CONSTANTS
  Byte = {0, 1}
  BlockSize = 3
  BlockCount = 2
  Workers = {w1, w2}
  Main = main
  Hashers = {h1}
  Sources <- MCSource
  Targets <- MCFaultTargets
  Shrinks <- MCShrinks
  NoCompress = {FALSE}
  ClientSkip = 0
  ServerBlockSize = 3
  ServerSkip = 0
  MaxFaults = 1
  MaxConn = 4
SYMMETRY Symmetry
SPECIFICATION Spec
INVARIANTS SkipSound RepliesMatch NoEofReply TailSize RetriesSuffice
PROPERTY Mirrors
CHECK_DEADLOCK FALSE

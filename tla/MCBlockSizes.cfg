CONSTANTS
  Byte = {0, 1}
  BlockSize = 2
  BlockCount = 2
  Workers = {w1, w2}
  Main = main
  Hashers = {h1}
  Sources <- MCSources
  Targets <- MCTargets
  Shrinks = {}
  NoCompress = {FALSE}
  ClientSkip = 0
  ServerBlockSize = 1
  ServerSkip = 0
  MaxFaults = 0
  MaxConn = 3
SPECIFICATION SizesSpec
INVARIANT BufferHolds
CHECK_DEADLOCK FALSE

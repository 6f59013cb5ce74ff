CONSTANTS
  Byte = {0, 1}
  BlockSize = 2
  BlockCount = 2
  Workers = {w1}
  Main = main
  Hashers = {h1}
  Sources <- MCSources
  Targets <- MCEmpty
  Shrinks <- MCShrinks
  NoCompress = {FALSE}
  ClientSkip = 0
  ServerBlockSize = 2
  ServerSkip = 0
  MaxFaults = 0
  MaxConn = 5
SPECIFICATION FairSpec
PROPERTY Finishes
CHECK_DEADLOCK FALSE

CONSTANTS
  Byte = {0, 1}
  BlockSize = 2
  BlockCount = 3
  Clients = {q1}
  Hashers = {h1}
  Sources <- MCSources
  Targets <- MCTargets
  Settings <- MCSettings
  MaxFaults = 0
SPECIFICATION DownSpec
INVARIANT DownloadIsCopy
CHECK_DEADLOCK FALSE

CONSTANTS
  Byte = {0, 1}
  BlockSize = 2
  BlockCount = 3
  Clients = {q1, q2}
  Hashers = {h1}
  Sources <- MCSources
  Targets <- MCTargets
  Settings <- MCSettings
  MaxFaults = 1
SPECIFICATION FairDownSpec
INVARIANTS DownTypeOK AnswersFit Resumable SizeKept
PROPERTIES DownloadMirrors DownloadEnds HandlersEnd
CHECK_DEADLOCK FALSE

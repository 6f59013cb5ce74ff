CONSTANTS
  l1 = l1
  l2 = l2
  l3 = l3
  Launchers = {l1}
  Jobs <- MCDownloadJob
  MaxFaults = 0
SPECIFICATION FairLaunchSpec
PROPERTY EveryLaunchEnds
CHECK_DEADLOCK FALSE

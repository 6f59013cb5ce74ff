CONSTANTS
  l1 = l1
  l2 = l2
  l3 = l3
  Launchers = {l1, l2, l3}
  Jobs <- MCJobs
  MaxFaults = 1
SPECIFICATION FairLaunchSpec
INVARIANTS LaunchTypeOK OwnServer LeavesNothing
PROPERTY LaunchesEnd
CHECK_DEADLOCK FALSE

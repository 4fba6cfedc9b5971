SPECIFICATION Spec
CONSTANTS
  IPs <- MCIPs
  Names <- MCNames
  UpperCase <- MCUpperCase
  Worlds <- MCWorlds
  AvahiLines <- MCAvahiLines
  WsdAnswers <- MCWsdAnswers
  NmapResults <- MCNmapResults
  Machines <- MCMachines
  MaxRefreshes = 2
  MaxScans = 2
INVARIANTS
  SharesShown
  MountsKnown
CHECK_DEADLOCK FALSE

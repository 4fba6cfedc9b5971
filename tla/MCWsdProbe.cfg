SPECIFICATION FairSpec
CONSTANTS
  Hosts <- MCHosts
  AddrLists <- MCAddrLists
  NoMatch = NoMatch
  Links <- MCLinks
  total_probes = 3
  probe_repeats = 2
  probe_wait = 2
  refresh_interval = 1
  MaxQueue = 2
  MaxDatagrams = 2
  MaxSignals = 1
INVARIANTS
  TypeOK
  NothingForgotten
  EveryLinkAsked
PROPERTIES
  Terminates
  Discovers

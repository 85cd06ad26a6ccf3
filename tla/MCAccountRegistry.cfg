CONSTANTS
  work = work
  home = home
  gateway = gateway
  Nobody = Nobody
  Jabbers = {work, home}
  Transports = {gateway}
  ParentOf <- MCParentOf
  MaxAsks = 2
  MaxNews = 3
  MaxStarts = 1
SPECIFICATION FairSpec
INVARIANTS TypeOK ReadyMeansEmpty UsesLiveAccounts
PROPERTIES RemovalCompletes UnloadCompletes
\* A program that is not started again stays down.
CHECK_DEADLOCK FALSE

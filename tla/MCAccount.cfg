CONSTANTS
  Accounts = {jab}
  Excluded = {}
  ManagerFirst = TRUE
  LastTry = 3
  MaxCalls = 2
  MaxOutages = 1
  MaxLosses = 1
  MaxWrong = 1
SPECIFICATION FairSpec
INVARIANTS TypeOK SessionMatchesStatus SuspendedIsOffline NoLostWish OfflineIsFinal
PROPERTY ComesToRest
\* A user who asks for nothing more lets the accounts come to rest.
CHECK_DEADLOCK FALSE

\* An account that is told to go offline while it connects.
CONSTANTS
  Accounts = {jab}
  Excluded = {}
  ManagerFirst = TRUE
  LastTry = 3
  MaxCalls = 2
  MaxOutages = 0
  MaxLosses = 0
  MaxWrong = 0
SPECIFICATION Spec
PROPERTY AbortAborts
\* A user who asks for nothing more lets the accounts come to rest.
CHECK_DEADLOCK FALSE

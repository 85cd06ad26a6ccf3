CONSTANTS
  jab = jab
  icq = icq
  gateway = gateway
  Accounts = {jab, icq, gateway}
  Transports = {gateway}
  Owner <- MCOwner
  MaxUser = 2
  MaxNews = 2
  MaxSettings = 1
  MaxPosted = 2
SPECIFICATION Spec
INVARIANTS TypeOK IdleWatched Remembered ReturnNoticed

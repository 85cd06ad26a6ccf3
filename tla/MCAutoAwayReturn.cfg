\* One account whose user comes back soon after auto-away.
CONSTANTS
  jab = jab
  icq = icq
  gateway = gateway
  Accounts = {jab, gateway}
  Transports = {gateway}
  Owner <- MCOwner
  MaxUser = 1
  MaxNews = 0
  MaxSettings = 0
  MaxPosted = 1
SPECIFICATION Spec
INVARIANT GoesAvailable

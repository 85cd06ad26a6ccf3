CONSTANTS
  MaxSize = 3
  MaxOffers = 2
  MaxFaults = 2
  MaxReadErrors = 1
  MaxWriteErrors = 1
SPECIFICATION FairSpec
INVARIANTS TypeOK UsesLiveObjects CompleteIsWhole
PROPERTY TransfersEnd
CHECK_DEADLOCK FALSE

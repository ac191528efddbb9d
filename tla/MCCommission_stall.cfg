CONSTANTS
  Teams = {"X"}
  SubAgents = {"s"}
  Bands <- ThreeBands
  Sizes = {13}
  LastMonth = 3
  MaxGifts = 1
  MaxMoves = 1
  MaxCrashes = 1
SPECIFICATION FairCommission
PROPERTIES EveryMonthCloses
CHECK_DEADLOCK FALSE

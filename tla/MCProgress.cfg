CONSTANTS
  g1 = g1
  g2 = g2
  g3 = g3
  b1 = b1
  p1 = p1
  c1 = c1
  t1 = t1
  k1 = k1
  k2 = k2
  k3 = k3
  k4 = k4
  Requests = {c1, p1, t1, b1}
  Keys = {k1, k2, k3, k4}
  Types = {"any"}
  Accounts <- TheAccounts
  Tracked <- TheTracked
  Units = {"coin", "point", "paise"}
  KeyOf <- TheKeyOf
  IdentityOf <- TheIdentityOf
  TypeOf <- TheTypeOf
  LegsOf <- TheLegsOf
  UnitOf <- TheUnitOf
  Opening <- TheOpening
  Amounts <- TheAmounts
  Prices <- ThePrices
  Rates <- TheRates
  FromFlows <- TheFromFlows
  MaxTries <- TheMaxTries
  h1 = h1
  h2 = h2
  Hosts = {h1, h2}
  Taps = {"t1"}
  Matcher = "matcher"
  StartOnAir = {h2}
  Closers = {h1}
  MaxShows = 1
  MaxDrafts = 1
  MaxInvites = 2
  MaxBattles = 2
  MaxGifts = 1
  Queuers = {}
  Gifted = {h1, h2}
  CanCrash = TRUE
  NEvents = 3
  PartitionOf <- ThePartitionOf
  KindOf <- TheKindOf
  Poison = {}
  Job = "job"
  Wakes = {"wake"}
  BatchSize = 2
  MaxAttempts = 2
  MaxMishaps = 2
SPECIFICATION ProgressSpec
INVARIANTS ProgressTypeOK EveryFlowBalances IInv ResultIsTheWindows StatsTellHistory
  ActsOnCommitted ShippedWasHandled
PROPERTIES EveryAttemptEnds EveryBattleEnds ShipsOrIsGivenUp
CHECK_DEADLOCK FALSE

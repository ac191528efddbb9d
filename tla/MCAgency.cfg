CONSTANTS
  g1 = g1
  g2 = g2
  g3 = g3
  b1 = b1
  p1 = p1
  c1 = c1
  t1 = t1
  k1 = k1
  k2 = k2
  k3 = k3
  k4 = k4
  Requests = {g1, g2, g3, c1}
  Keys = {k1, k2}
  Types = {"any"}
  Accounts <- TheAccounts
  Tracked <- TheTracked
  Units = {"coin", "point", "paise"}
  KeyOf <- TheKeyOf
  IdentityOf <- TheIdentityOf
  TypeOf <- TheTypeOf
  LegsOf <- TheLegsOf
  UnitOf <- TheUnitOf
  Opening <- TheOpening
  Amounts <- TheAmounts
  Prices <- ThePrices
  Rates <- TheRates
  FromFlows <- TheFromFlows
  MaxTries <- TheMaxTries
  Agencies = {"X", "Y"}
  Agents = {"o", "p", "s"}
  Hosts = {"h"}
  Owner <- TheOwner
  Checked = {"h"}
  MaxLinks = 2
  Transfers = {"t1", "t2", "t3"}
  RequestOf <- TheRequestOf
  Lot <- TheLot
  Payee <- ThePayee
  Prepays = {"p"}
  Worth <- TheWorth
  Admins = {"ann", "ben"}
  Decisions = {"x", "y", "z"}
  PrepayOf <- ThePrepayOf
  By <- TheBy
  Verdict <- TheVerdict
  AgencyCap = 2
  PayeeCap = 2
  LastDay = 1
  MaxMishaps = 1
  Teams = {"X"}
  SubAgents = {"s"}
  Bands <- TheBands
  Sizes = {13}
  LastMonth = 3
  MaxGifts = 2
  MaxMoves = 3
  MaxCrashes = 1
SPECIFICATION AgencySpec
INVARIANTS TypeOK OneEffectPerKey CacheMatchesEntries NonNegative SuccessIsTrue RefusalIsTrue
  ChannelHolds CommissionHolds
PROPERTIES ImplementsAbs MembershipHolds
CHECK_DEADLOCK FALSE
